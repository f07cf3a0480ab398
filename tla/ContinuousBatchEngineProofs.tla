---------------------- MODULE ContinuousBatchEngineProofs ----------------------
(***************************************************************************)
(* Proofs about ContinuousBatchEngine, for every set of requests, batch    *)
(* size, chunk size, budget and prompt, with exceptions, stops, restarts   *)
(* and abandoned streams: the variables keep their types, every client's   *)
(* stream is exact, every accepted request is in one place, budget is      *)
(* charged to live requests only, and the running sum does not drift.      *)
(***************************************************************************)
EXTENDS ContinuousBatchEngine, AdmissionControlProofs, ListLemmas

-----------------------------------------------------------------------------
(* Types of what is computed from the constants.                           *)
LEMMA KeyType == Key \in [Ids -> Int]
<1>1. \A r \in Ids : SortKey(Lane(r)) \in Int
  BY DEF SortKey, Priority
<1> QED
  BY <1>1 DEF Key

LEMMA FullLengthType == \A r \in Ids : FullLength(r) \in Nat \ {0} /\ MaxNew[r] \in Nat
BY EngineAssumption DEF FullLength

LEMMA EstimateType ==
  ASSUME NEW r \in Ids, NEW svd \in BOOLEAN
  PROVE  EstimateKvBytes(r, svd) \in Nat
<1> DEFINE dense == (PromptLen[r] + MaxNew[r]) * BytesPerToken
<1>1. PromptLen[r] + MaxNew[r] \in Nat /\ BytesPerToken \in Nat
  BY EngineAssumption
<1>2. dense \in Nat
  BY <1>1
<1> HIDE DEF dense
<1>3. dense \div 4 \in Nat
  BY <1>2
<1>4. EstimateKvBytes(r, svd) = IF svd THEN dense \div 4 ELSE dense
  BY DEF EstimateKvBytes, dense
<1> QED
  BY <1>2, <1>3, <1>4

LEMMA ChunkType ==
  ASSUME NEW r \in Ids, NEW o \in [Ids -> Nat], o[r] <= PromptLen[r]
  PROVE  ChunkEnd(r, o) \in Nat /\ o[r] <= ChunkEnd(r, o) /\ ChunkEnd(r, o) <= PromptLen[r]
<1>1. Lane(r) \in Lanes \cup {NoLane}
  <2>1. LaneArg[r] \in Lanes \cup {NoLane}
    BY EngineAssumption
  <2>2. Classify(MaxNew[r]) \in Lanes
    BY DEF Classify, Lanes
  <2> QED
    BY <2>1, <2>2 DEF Lane, LaneFor
<1>2. ChunkBudget(Lane(r)) \in Nat
  BY <1>1, LaneAssumption DEF ChunkBudget
<1>3. PromptLen[r] \in Nat /\ o[r] \in Nat
  BY EngineAssumption
<1> QED
  BY <1>2, <1>3 DEF ChunkEnd

LEMMA GateType ==
  ASSUME NEW m \in Modes, NEW n
  PROVE  GateDecision(m, n) \in Modes
BY DEF GateDecision, Modes

-----------------------------------------------------------------------------
(* Streams: emitting a token lengthens one, taking a token shortens it.    *)
LEMMA StreamType ==
  ASSUME NEW from \in Nat, NEW upto \in Nat, from <= upto, NEW ends \in Nat
  PROVE  /\ Stream(from, upto, ends) \in Seq(Nat)
         /\ Len(Stream(from, upto, ends)) = upto - from + ends
         /\ \A i \in 1..(upto - from + ends) :
              Stream(from, upto, ends)[i] = IF i <= upto - from THEN from + i ELSE End
<1> DEFINE n == upto - from + ends
           t == [i \in 1..n |-> IF i <= upto - from THEN from + i ELSE End]
<1>1. n \in Nat
  OBVIOUS
<1>2. Stream(from, upto, ends) = t
  BY DEF Stream
<1> HIDE DEF n
<1>3. t \in [1..n -> Nat]
  BY DEF End
<1>4. t \in Seq(Nat) /\ Len(t) = n
  BY <1>1, <1>3
<1>5. \A i \in 1..n : t[i] = IF i <= upto - from THEN from + i ELSE End
  OBVIOUS
<1> HIDE DEF t
<1> QED
  BY <1>2, <1>4, <1>5 DEF n

LEMMA StreamOpen ==
  ASSUME NEW from \in Nat, NEW upto \in Nat, from <= upto
  PROVE  /\ Stream(from, upto, 0) \in Seq(Nat)
         /\ Len(Stream(from, upto, 0)) = upto - from
         /\ \A i \in 1..(upto - from) : Stream(from, upto, 0)[i] = from + i
<1> DEFINE n == upto - from
<1>1. n \in Nat /\ n + 0 = n
  OBVIOUS
<1>2. Stream(from, upto, 0) \in Seq(Nat) /\ Len(Stream(from, upto, 0)) = n + 0
      /\ \A i \in 1..(n + 0) : Stream(from, upto, 0)[i] = IF i <= n THEN from + i ELSE End
  <2>1. 0 \in Nat
    OBVIOUS
  <2> QED
    BY <2>1, StreamType, Zenon
<1>3. \A i \in 1..n : Stream(from, upto, 0)[i] = from + i
  BY <1>1, <1>2
<1> QED
  BY <1>1, <1>2, <1>3

LEMMA StreamEmits ==
  ASSUME NEW from \in Nat, NEW upto \in Nat, from <= upto
  PROVE  Stream(from, upto, 0) \o <<upto + 1>> = Stream(from, upto + 1, 0)
<1> DEFINE s == Stream(from, upto, 0)
           t == Stream(from, upto + 1, 0)
           u == s \o <<upto + 1>>
           n == upto - from
<1>1. s \in Seq(Nat) /\ Len(s) = n /\ \A i \in 1..n : s[i] = from + i
  BY StreamOpen, Zenon
<1>2. t \in Seq(Nat) /\ Len(t) = n + 1 /\ \A i \in 1..(n + 1) : t[i] = from + i
  <2>1. from <= upto + 1 /\ upto + 1 \in Nat /\ upto + 1 - from = n + 1
    OBVIOUS
  <2> DEFINE next == upto + 1
  <2>2. next \in Nat /\ from <= next
    BY <2>1
  <2> HIDE DEF next
  <2>3. /\ Stream(from, next, 0) \in Seq(Nat)
        /\ Len(Stream(from, next, 0)) = next - from
        /\ \A i \in 1..(next - from) : Stream(from, next, 0)[i] = from + i
    BY <2>2, StreamOpen, Zenon
  <2> QED
    BY <2>1, <2>3 DEF next
<1> HIDE DEF s, t
<1>3. <<upto + 1>> \in Seq(Nat) /\ Len(<<upto + 1>>) = 1 /\ <<upto + 1>>[1] = upto + 1
  OBVIOUS
<1>4. u \in Seq(Nat) /\ Len(u) = n + 1
      /\ \A i \in 1..(n + 1) : u[i] = IF i <= n THEN s[i] ELSE <<upto + 1>>[i - n]
  BY <1>1, <1>3, ConcatProperties
<1>5. \A i \in 1..(n + 1) : u[i] = t[i]
  BY <1>1, <1>2, <1>3, <1>4
<1> HIDE DEF u
<1>6. u = t
  BY <1>2, <1>4, <1>5, SeqEqual
<1> QED
  BY <1>6 DEF s, t, u

LEMMA StreamCloses ==
  ASSUME NEW from \in Nat, NEW upto \in Nat, from <= upto
  PROVE  Stream(from, upto, 0) \o <<End>> = Stream(from, upto, 1)
<1> DEFINE s == Stream(from, upto, 0)
           t == Stream(from, upto, 1)
           u == s \o <<End>>
           n == upto - from
<1>1. s \in Seq(Nat) /\ Len(s) = n /\ \A i \in 1..n : s[i] = from + i
  BY StreamOpen, Zenon
<1>2. t \in Seq(Nat) /\ Len(t) = n + 1
      /\ \A i \in 1..(n + 1) : t[i] = IF i <= n THEN from + i ELSE End
  BY StreamType
<1> HIDE DEF s, t
<1>3. <<End>> \in Seq(Nat) /\ Len(<<End>>) = 1 /\ <<End>>[1] = End
  BY DEF End
<1>4. u \in Seq(Nat) /\ Len(u) = n + 1
      /\ \A i \in 1..(n + 1) : u[i] = IF i <= n THEN s[i] ELSE <<End>>[i - n]
  BY <1>1, <1>3, ConcatProperties
<1>5. \A i \in 1..(n + 1) : u[i] = t[i]
  BY <1>1, <1>2, <1>3, <1>4
<1> HIDE DEF u
<1>6. u = t
  BY <1>2, <1>4, <1>5, SeqEqual
<1> QED
  BY <1>6 DEF s, t, u

LEMMA StreamTaken ==
  ASSUME NEW from \in Nat, NEW upto \in Nat, from < upto, NEW ends \in Nat
  PROVE  /\ Head(Stream(from, upto, ends)) = from + 1
         /\ Tail(Stream(from, upto, ends)) = Stream(from + 1, upto, ends)
<1> DEFINE s == Stream(from, upto, ends)
           t == Stream(from + 1, upto, ends)
           n == upto - from + ends
<1>1. s \in Seq(Nat) /\ Len(s) = n
      /\ \A i \in 1..n : s[i] = IF i <= upto - from THEN from + i ELSE End
  BY StreamType
<1>2. n \in Nat \ {0} /\ n - 1 = upto - (from + 1) + ends
  OBVIOUS
<1>3. t \in Seq(Nat) /\ Len(t) = n - 1
      /\ \A i \in 1..(n - 1) : t[i] = IF i <= upto - (from + 1) THEN from + 1 + i ELSE End
  BY <1>2, StreamType
<1> HIDE DEF s, t, n
<1>4. s # <<>>
  BY <1>1, <1>2
<1>5. Head(s) = s[1] /\ Tail(s) \in Seq(Nat) /\ Len(Tail(s)) = n - 1
      /\ \A i \in 1..(n - 1) : Tail(s)[i] = s[i + 1]
  BY <1>1, <1>4, HeadTailProperties
<1>6. \A i \in 1..(n - 1) : Tail(s)[i] = t[i]
  <2> SUFFICES ASSUME NEW i \in 1..(n - 1) PROVE Tail(s)[i] = t[i]
    OBVIOUS
  <2>1. i + 1 \in 1..n /\ (i + 1 <= upto - from <=> i <= upto - (from + 1))
        /\ from + (i + 1) = from + 1 + i
    BY <1>2
  <2> QED
    BY <1>1, <1>3, <1>5, <2>1
<1>7. Tail(s) = t
  BY <1>3, <1>5, <1>6, SeqEqual
<1>8. Head(s) = from + 1
  BY <1>1, <1>2, <1>5
<1> QED
  BY <1>7, <1>8 DEF s, t

LEMMA StreamTakenLast ==
  ASSUME NEW upto \in Nat
  PROVE  /\ Stream(upto, upto, 0) = <<>>
         /\ Stream(upto, upto, 1) = <<End>>
         /\ Head(Stream(upto, upto, 1)) = End
         /\ Tail(Stream(upto, upto, 1)) = <<>>
<1>1. upto <= upto /\ upto - upto = 0
  OBVIOUS
<1>2. Stream(upto, upto, 0) \in Seq(Nat) /\ Len(Stream(upto, upto, 0)) = upto - upto
  BY <1>1, StreamOpen, Zenon
<1>3. Stream(upto, upto, 0) = <<>>
  BY <1>1, <1>2, EmptySeq
<1>4. Stream(upto, upto, 0) \o <<End>> = Stream(upto, upto, 1)
  BY <1>1, StreamCloses, Zenon
<1>5. <<End>> \in Seq(Nat)
  BY DEF End
<1>6. Stream(upto, upto, 1) = <<End>>
  BY <1>3, <1>4, <1>5, ConcatEmptySeq
<1>7. Head(<<End>>) = End /\ Tail(<<End>>) = <<>>
  <2>1. Len(<<End>>) = 1 /\ <<End>> # <<>>
    BY <1>5
  <2>2. Tail(<<End>>) \in Seq(Nat) /\ Len(Tail(<<End>>)) = 0
    BY <1>5, <2>1, HeadTailProperties
  <2>3. Tail(<<End>>) = <<>>
    BY <2>2, EmptySeq
  <2> QED
    BY <2>3
<1> QED
  BY <1>3, <1>6, <1>7

-----------------------------------------------------------------------------
(* A request that is queued or running still owes its client a token.      *)
StillDue == \A r \in Ids : st[r] \in Live => generated[r] < FullLength(r)

(* Prefilling never runs past the prompt.                                  *)
OffsetInPrompt == \A r \in Ids : offset[r] <= PromptLen[r]

(* The inductive invariant.  StreamExact alone is not inductive: that a    *)
(* token is emitted only by a request whose stream is open needs OnePlace  *)
(* (a queued request is WAITING, so none is seated after it ended), and    *)
(* that the last token comes with the None needs StillDue.                 *)
EngineInv ==
  /\ EngineTypeOK
  /\ AdmissionInv
  /\ StreamExact
  /\ OnePlace
  /\ ChargedAreLive
  /\ StillDue
  /\ OffsetInPrompt

LEMMA EngineInitInv == Init => EngineInv
<1> SUFFICES ASSUME Init PROVE EngineInv
  OBVIOUS
<1> USE DEF Init
<1>1. AdmissionInv
  BY AdmissionInitInv
<1>2. EngineTypeOK
  BY <1>1 DEF EngineTypeOK, Live, Modes, AdmissionInv
<1>3. StreamExact
  <2>1. \A r \in Ids : Unread(r) = <<>>
    <3>1. Stream(0, 0, 0) = <<>>
      BY StreamTakenLast
    <3> QED
      BY <3>1 DEF Unread
  <2> QED
    BY <2>1, FullLengthType DEF StreamExact
<1>4. OnePlace
  <2>1. Items(waiting) = {} /\ Injective(waiting) /\ Items(running) = {} /\ Injective(running)
    BY NoItems
  <2>2. Len(running) = 0 /\ MaxBatch \in Nat
    BY EngineAssumption
  <2> QED
    BY <2>1, <2>2 DEF OnePlace
<1>5. ChargedAreLive
  BY DEF ChargedAreLive, AdmissionInit
<1>6. StillDue
  BY DEF StillDue, Live
<1>7. OffsetInPrompt
  BY EngineAssumption DEF OffsetInPrompt
<1> QED
  BY <1>1, <1>2, <1>3, <1>4, <1>5, <1>6, <1>7 DEF EngineInv

-----------------------------------------------------------------------------
(* New requests keep the invariant, whatever their number, if the ledger   *)
(* they were admitted by does.                                             *)
LEMMA EnterKeepsInv ==
  ASSUME EngineInv, AdmissionInv',
         NEW q \in Seq(Ids), NEW R \in SUBSET Ids,
         NEW prefix \in {0, PrefixLen}, NEW reader \in {"reading", "gone"},
         Injective(q), Items(q) \cap R = {},
         \A r \in Items(q) \cup R : Vacant(r),
         Enter(q, R, prefix, reader),
         \A r \in Ids : \/ allocated'[r] = allocated[r]
                        \/ /\ r \in Items(q)
                           /\ allocated'[r] \in {EstimateKvBytes(r, UseSvd[r]),
                                                EstimateKvBytes(r, FALSE)}
  PROVE  EngineInv'
<1> DEFINE A == Items(q)
<1> USE DEF EngineInv
<1>1. A \subseteq Ids
  BY LenProperties DEF Items
<1>2. /\ st' = [r \in Ids |-> IF r \in A THEN "WAITING"
                             ELSE IF r \in R THEN "FINISHED" ELSE st[r]]
      /\ offset' = [r \in Ids |-> IF r \in A \cup R THEN 0 ELSE offset[r]]
      /\ generated' = [r \in Ids |-> IF r \in A \cup R THEN 0 ELSE generated[r]]
      /\ got' = [r \in Ids |-> IF r \in A \cup R THEN 0 ELSE got[r]]
      /\ kv' = [r \in Ids |-> IF r \in A THEN prefix ELSE IF r \in R THEN 0 ELSE kv[r]]
      /\ base' = [r \in Ids |-> IF r \in A THEN prefix ELSE IF r \in R THEN 0 ELSE base[r]]
      /\ out' = [r \in Ids |-> IF r \in R THEN <<End>> ELSE IF r \in A THEN <<>> ELSE out[r]]
      /\ client' = [r \in Ids |-> IF r \in A THEN reader
                                  ELSE IF r \in R THEN "rejected" ELSE client[r]]
      /\ waiting' = waiting \o q
      /\ UNCHANGED <<running, loop, mode>>
  BY DEF Enter
<1>3. \A r \in A \cup R : st[r] \notin Live /\ (st[r] = "NEW" \/ r \notin Items(running))
  BY DEF Vacant, Live
<1> HIDE DEF A
<1>4. EngineTypeOK'
  <2> USE DEF EngineTypeOK
  <2>1. st' \in [Ids -> Live \cup {"NEW", "FINISHED"}]
    BY <1>2 DEF Live
  <2>2. /\ offset' \in [Ids -> Nat] /\ generated' \in [Ids -> Nat] /\ got' \in [Ids -> Nat]
    BY <1>2
  <2>3. /\ kv' \in [Ids -> Nat] /\ base' \in [Ids -> {0, PrefixLen}]
    BY <1>2, EngineAssumption
  <2>4. out' \in [Ids -> Seq(Nat)]
    <3>1. <<End>> \in Seq(Nat) /\ <<>> \in Seq(Nat)
      BY EmptySeq DEF End
    <3>2. \A r \in Ids : out[r] \in Seq(Nat)
      OBVIOUS
    <3> QED
      BY <1>2, <3>1, <3>2
  <2>5. client' \in [Ids -> {"idle", "reading", "ended", "rejected", "gone"}]
    BY <1>2
  <2>6. waiting' \in Seq(Ids)
    BY <1>2, JoinItems
  <2>7. running' \in Seq(Ids) /\ loop' \in {"none", "running", "dead"} /\ mode' \in Modes
    BY <1>2
  <2>8. AdmissionTypeOK'
    BY DEF AdmissionInv
  <2> QED
    BY <2>1, <2>2, <2>3, <2>4, <2>5, <2>6, <2>7, <2>8
<1>5. StreamExact'
  <2> SUFFICES ASSUME NEW r \in Ids
               PROVE  /\ got'[r] <= generated'[r]
                      /\ generated'[r] <= FullLength(r)
                      /\ out'[r] = Unread(r)'
                      /\ client'[r] = "ended" => st'[r] = "FINISHED" /\ got'[r] = generated'[r]
                      /\ st'[r] = "FINISHED" /\ client'[r] # "rejected" =>
                           generated'[r] = FullLength(r)
    BY DEF StreamExact, FullLength
  <2>1. CASE r \in A
    <3>1. /\ st'[r] = "WAITING" /\ generated'[r] = 0 /\ got'[r] = 0 /\ out'[r] = <<>>
          /\ client'[r] # "ended"
      BY <1>2, <2>1 DEF A
    <3>2. Unread(r)' = <<>>
      BY <3>1, StreamTakenLast DEF Unread, Stream
    <3> QED
      BY <3>1, <3>2, FullLengthType
  <2>2. CASE r \in R
    <3>1. /\ st'[r] = "FINISHED" /\ generated'[r] = 0 /\ got'[r] = 0 /\ out'[r] = <<End>>
          /\ client'[r] = "rejected"
      BY <1>2, <2>2 DEF A
    <3>2. Stream(0, 0, 1) = <<End>>
      BY StreamTakenLast
    <3>3. Unread(r)' = <<End>>
      BY <3>1, <3>2 DEF Unread, Stream
    <3> QED
      BY <3>1, <3>3, FullLengthType
  <2>3. CASE r \notin A \cup R
    <3>1. /\ st'[r] = st[r] /\ generated'[r] = generated[r] /\ got'[r] = got[r]
          /\ out'[r] = out[r] /\ client'[r] = client[r]
      BY <1>2, <2>3
    <3>2. Unread(r)' = Unread(r)
      BY <3>1 DEF Unread, Stream
    <3> QED
      BY <3>1, <3>2 DEF StreamExact
  <2> QED
    BY <2>1, <2>2, <2>3
<1>6. OnePlace'
  <2> USE DEF OnePlace
  <2>1. Items(waiting) \cap A = {}
    BY <1>3 DEF Live
  <2>2. Items(waiting') = Items(waiting) \cup A /\ Injective(waiting')
    BY <1>2, <2>1, JoinItems DEF EngineTypeOK, A
  <2>3. Items(waiting') = {r \in Ids : st'[r] = "WAITING"}
    BY <1>1, <1>2, <1>3, <2>2 DEF Live
  <2>4. Items(running) \cap (A \cup R) = {}
    BY <1>3 DEF Live
  <2>5. {r \in Items(running') : st'[r] # "FINISHED"}
          = {r \in Ids : st'[r] \in {"PREFILLING", "DECODING"}}
    <3>1. Items(running) \subseteq Ids
      BY LenProperties DEF EngineTypeOK, Items
    <3> QED
      BY <1>2, <1>3, <2>4, <3>1 DEF Live
  <2> QED
    BY <1>2, <2>2, <2>3, <2>5
<1>7. ChargedAreLive'
  <2> SUFFICES ASSUME NEW r \in Ids, allocated'[r] > 0
               PROVE  /\ st'[r] \in Live
                      /\ allocated'[r] \in {EstimateKvBytes(r, UseSvd[r]),
                                            EstimateKvBytes(r, FALSE)}
    BY DEF ChargedAreLive, EstimateKvBytes
  <2>1. CASE r \in A
    BY <1>2, <2>1 DEF Live, A, ChargedAreLive
  <2>2. CASE r \notin A
    <3>1. allocated'[r] = allocated[r]
      BY <2>2 DEF A
    <3>2. st[r] \in Live /\ allocated[r] \in {EstimateKvBytes(r, UseSvd[r]),
                                               EstimateKvBytes(r, FALSE)}
      BY <3>1 DEF ChargedAreLive
    <3>3. r \notin R
      BY <1>3, <3>2
    <3> QED
      BY <1>2, <2>2, <3>1, <3>2, <3>3
  <2> QED
    BY <2>1, <2>2
<1>8. StillDue'
  <2> SUFFICES ASSUME NEW r \in Ids, st'[r] \in Live PROVE generated'[r] < FullLength(r)
    BY DEF StillDue, FullLength
  <2> QED
    BY <1>2, FullLengthType DEF StillDue, Live
<1>9. OffsetInPrompt'
  BY <1>2, EngineAssumption DEF OffsetInPrompt
<1> QED
  BY <1>4, <1>5, <1>6, <1>7, <1>8, <1>9

-----------------------------------------------------------------------------
(* What a pass of the scheduler does to the two lists, before it steps the *)
(* batch: the queue is reordered and cut, what is cut off joins the batch. *)
LEMMA PassLists ==
  ASSUME EngineInv, NEW order \in QueueSorts
  PROVE  /\ Batch(order) \in Seq(Ids)
         /\ Injective(Batch(order))
         /\ Len(Batch(order)) <= MaxBatch
         /\ Items(Batch(order)) = Items(running) \cup Items(Seated(order))
         /\ Unseated(order) \in Seq(Ids)
         /\ Injective(Unseated(order))
         /\ Items(Unseated(order)) = {r \in Ids : st[r] = "WAITING"} \ Items(Seated(order))
         /\ Items(Seated(order)) \subseteq {r \in Ids : st[r] = "WAITING"}
         /\ Seated(order) \in Seq(Ids)
<1> USE DEF EngineInv
<1>1. /\ waiting \in Seq(Ids) /\ running \in Seq(Ids)
      /\ Injective(waiting) /\ Injective(running)
      /\ Items(waiting) = {r \in Ids : st[r] = "WAITING"}
      /\ Len(running) \in Nat /\ Len(running) <= MaxBatch /\ MaxBatch \in Nat
  BY EngineAssumption, LenProperties DEF EngineTypeOK, OnePlace
<1>2. /\ order \in Seq(Ids) /\ Injective(order) /\ Len(order) \in Nat
      /\ Items(order) = {r \in Ids : st[r] = "WAITING"}
  <2>1. CASE PolicyOn
    <3>1. order \in StableSorts(waiting, Key)
      BY <2>1 DEF QueueSorts
    <3>2. order \in Seq(Ids) /\ Injective(order) /\ Items(order) = Items(waiting)
      BY <1>1, <3>1, KeyType, SortReorders
    <3> QED
      BY <1>1, <3>2, LenProperties
  <2>2. CASE ~ PolicyOn
    BY <1>1, <2>2, LenProperties DEF QueueSorts
  <2> QED
    BY <2>1, <2>2
<1> DEFINE free == Monus(MaxBatch, Len(running))
           n == IF Len(order) < free THEN Len(order) ELSE free
<1>3. n \in 0..Len(order) /\ Len(running) + n <= MaxBatch
  BY <1>1, <1>2 DEF Monus
<1>4. Seated(order) = SubSeq(order, 1, n)
  BY DEF Seated
<1> HIDE DEF n
<1>5. /\ Seated(order) \in Seq(Ids) /\ Len(Seated(order)) = n /\ Injective(Seated(order))
  BY <1>2, <1>3, <1>4, CutParts
<1>6. Unseated(order) = SubSeq(order, n + 1, Len(order))
  BY <1>5 DEF Unseated
<1>7. /\ Unseated(order) \in Seq(Ids) /\ Injective(Unseated(order))
      /\ Items(Seated(order)) \cup Items(Unseated(order)) = Items(order)
      /\ Items(Seated(order)) \cap Items(Unseated(order)) = {}
  BY <1>2, <1>3, <1>4, <1>6, CutParts
<1>8. Items(running) \cap Items(Seated(order)) = {}
  <2>1. \A r \in Items(running) : st[r] # "WAITING"
    BY DEF OnePlace
  <2> QED
    BY <1>2, <1>7, <2>1
<1>9. /\ Batch(order) \in Seq(Ids) /\ Len(Batch(order)) = Len(running) + n
      /\ Items(Batch(order)) = Items(running) \cup Items(Seated(order))
      /\ Injective(Batch(order))
  BY <1>1, <1>5, <1>8, JoinItems DEF Batch
<1> QED
  BY <1>2, <1>3, <1>5, <1>7, <1>9

(* A pass keeps the invariant, wherever in the step it may stop: P got a   *)
(* chunk, Done of them the last one, Fed was fed and Emit got a token.     *)
LEMMA PassKeepsInv ==
  ASSUME EngineInv, NEW order \in QueueSorts,
         NEW P, NEW Done, NEW Fed, NEW Emit,
         P \subseteq In(Batch(order), StateIn(order), "PREFILLING"),
         Done \subseteq P,
         Emit \subseteq Done \cup In(Batch(order), StateIn(order), "DECODING"),
         Effects(P, Done, Fed, Emit, StateIn(order), OffsetIn(order)),
         waiting' = Unseated(order),
         \/ running' = Batch(order)
         \/ running' \in Keeping(Batch(order), {r \in Ids : st'[r] # "FINISHED"}),
         loop' \in {"running", "dead"}, mode' \in Modes
  PROVE  EngineInv'
<1> DEFINE b == Batch(order)
           S == Items(Seated(order))
           s == StateIn(order)
           o == OffsetIn(order)
           Finished == {r \in Emit : Ends(r)}
<1> USE DEF EngineInv
<1>1. /\ b \in Seq(Ids) /\ Injective(b) /\ Len(b) <= MaxBatch
      /\ Items(b) = Items(running) \cup S
      /\ Unseated(order) \in Seq(Ids) /\ Injective(Unseated(order))
      /\ Items(Unseated(order)) = {r \in Ids : st[r] = "WAITING"} \ S
      /\ S \subseteq {r \in Ids : st[r] = "WAITING"}
  BY PassLists
<1>2. /\ Items(b) \subseteq Ids /\ Items(running) \subseteq Ids
  <2>1. running \in Seq(Ids) /\ b \in Seq(Ids)
    BY <1>1 DEF EngineTypeOK
  <2> HIDE DEF b
  <2> QED
    BY <2>1, ItemsAmong
<1>3. /\ s = [r \in Ids |-> IF r \in S THEN "PREFILLING" ELSE st[r]]
      /\ o = [r \in Ids |-> IF r \in S THEN 0 ELSE offset[r]]
  BY DEF StateIn, OffsetIn
<1>4. /\ P \subseteq {r \in Items(b) : s[r] = "PREFILLING"}
      /\ Done \subseteq P
      /\ Emit \subseteq {r \in Items(b) : s[r] \in {"PREFILLING", "DECODING"}}
      /\ Finished \subseteq Emit
  BY DEF In
<1>5. /\ st' = [r \in Ids |-> IF r \in Finished THEN "FINISHED"
                             ELSE IF r \in Done THEN "DECODING" ELSE s[r]]
      /\ offset' = [r \in Ids |-> IF r \in P THEN ChunkEnd(r, o) ELSE o[r]]
      /\ generated' = [r \in Ids |-> IF r \in Emit THEN generated[r] + 1 ELSE generated[r]]
      /\ kv' = [r \in Ids |-> IF r \in Finished THEN 0
                             ELSE IF r \in P THEN kv[r] + (ChunkEnd(r, o) - o[r])
                             ELSE IF r \in Fed THEN kv[r] + 1 ELSE kv[r]]
      /\ out' = [r \in Ids |-> out[r]
                   \o (IF r \in Emit THEN <<generated[r] + 1>> ELSE <<>>)
                   \o (IF r \in Finished THEN <<End>> ELSE <<>>)]
      /\ ReleaseAll(Finished)
      /\ UNCHANGED <<base, got, client>>
  BY DEF Effects
<1>6. \A r \in Emit : r \in Ids /\ st[r] \in Live
  BY <1>1, <1>2, <1>3, <1>4 DEF Live
<1>7. \A r \in Finished : r \in Emit /\ generated[r] + 1 >= MaxNew[r]
  BY DEF Ends
<1>8. \A r \in Emit : r \notin Finished => ~ (generated[r] + 1 >= MaxNew[r])
  BY DEF Ends
<1>9. b = Batch(order)
  OBVIOUS
<1> HIDE DEF b, S, s, o, Finished
<1>10. AdmissionInv'
  <2>1. Finished \in SUBSET Ids
    BY <1>2, <1>4
  <2> QED
    BY <1>5, <2>1, ReleaseKeepsInv
<1>11. OffsetInPrompt'
  <2> SUFFICES ASSUME NEW r \in Ids PROVE offset'[r] <= PromptLen[r]
    BY DEF OffsetInPrompt
  <2>1. o \in [Ids -> Nat] /\ o[r] <= PromptLen[r]
    BY <1>3, EngineAssumption DEF OffsetInPrompt, EngineTypeOK
  <2>2. ChunkEnd(r, o) <= PromptLen[r]
    BY <2>1, ChunkType
  <2> QED
    BY <1>5, <2>1, <2>2
<1>12. EngineTypeOK'
  <2>1. st' \in [Ids -> Live \cup {"NEW", "FINISHED"}]
    BY <1>3, <1>5 DEF EngineTypeOK, Live
  <2>2. o \in [Ids -> Nat] /\ \A r \in Ids : o[r] <= PromptLen[r]
    BY <1>3, EngineAssumption DEF OffsetInPrompt, EngineTypeOK
  <2>3. \A r \in Ids : ChunkEnd(r, o) \in Nat /\ o[r] <= ChunkEnd(r, o)
    BY <2>2, ChunkType
  <2>4. offset' \in [Ids -> Nat]
    BY <1>5, <2>2, <2>3
  <2>5. generated' \in [Ids -> Nat]
    BY <1>5 DEF EngineTypeOK
  <2>6. kv' \in [Ids -> Nat]
    <3>1. \A r \in Ids : ChunkEnd(r, o) - o[r] \in Nat /\ kv[r] \in Nat
      BY <2>2, <2>3 DEF EngineTypeOK
    <3> QED
      BY <1>5, <3>1
  <2>7. out' \in [Ids -> Seq(Nat)]
    <3> SUFFICES ASSUME NEW r \in Ids PROVE out'[r] \in Seq(Nat)
      BY <1>5
    <3> DEFINE u == IF r \in Emit THEN <<generated[r] + 1>> ELSE <<>>
               v == IF r \in Finished THEN <<End>> ELSE <<>>
    <3>1. u \in Seq(Nat)
      BY EmptySeq DEF EngineTypeOK
    <3>2. v \in Seq(Nat)
      BY EmptySeq DEF End
    <3>3. out[r] \in Seq(Nat) /\ out'[r] = out[r] \o u \o v
      BY <1>5 DEF EngineTypeOK
    <3> HIDE DEF u, v
    <3>4. out[r] \o u \in Seq(Nat)
      BY <3>1, <3>3, ConcatProperties
    <3> QED
      BY <3>2, <3>3, <3>4, ConcatProperties
  <2>8. base' \in [Ids -> {0, PrefixLen}] /\ got' \in [Ids -> Nat]
        /\ client' \in [Ids -> {"idle", "reading", "ended", "rejected", "gone"}]
    BY <1>5 DEF EngineTypeOK
  <2>9. waiting' \in Seq(Ids)
    BY <1>1
  <2>10. running' \in Seq(Ids)
    BY <1>1, <1>9, KeepingFilters
  <2>11. AdmissionTypeOK'
    BY <1>10 DEF AdmissionInv
  <2> QED
    BY <2>1, <2>4, <2>5, <2>6, <2>7, <2>8, <2>9, <2>10, <2>11 DEF EngineTypeOK
<1>13. OnePlace'
  <2>1. Items(waiting') = {r \in Ids : st'[r] = "WAITING"}
    BY <1>1, <1>2, <1>3, <1>4, <1>5
  <2>2. /\ Injective(running') /\ Len(running') <= MaxBatch
        /\ {r \in Items(running') : st'[r] # "FINISHED"} = {r \in Items(b) : st'[r] # "FINISHED"}
    <3>1. CASE running' = b
      BY <1>1, <3>1
    <3>2. CASE running' \in Keeping(b, {r \in Ids : st'[r] # "FINISHED"})
      <4>1. /\ running' \in Seq(Ids) /\ Injective(running') /\ Len(running') <= Len(b)
            /\ Items(running') = Items(b) \cap {r \in Ids : st'[r] # "FINISHED"}
        BY <1>1, <3>2, KeepingFilters
      <4>2. Len(running') \in Nat /\ Len(b) \in Nat /\ MaxBatch \in Nat
        BY <1>1, <4>1, LenProperties, EngineAssumption
      <4>3. Len(running') <= MaxBatch
        BY <1>1, <4>1, <4>2
      <4> QED
        BY <1>2, <4>1, <4>3
    <3> QED
      BY <1>9, <3>1, <3>2
  <2>3. {r \in Items(b) : st'[r] # "FINISHED"} = {r \in Ids : st'[r] \in {"PREFILLING", "DECODING"}}
    <3>1. \A r \in Items(running) : st[r] \in {"PREFILLING", "DECODING", "FINISHED"}
      BY <1>2 DEF OnePlace
    <3>2. \A r \in Ids : st[r] \in {"PREFILLING", "DECODING"} => r \in Items(running)
      BY DEF OnePlace
    <3>3. ASSUME NEW r \in Items(b), st'[r] # "FINISHED"
          PROVE  r \in Ids /\ st'[r] \in {"PREFILLING", "DECODING"}
      BY <1>1, <1>2, <1>3, <1>5, <3>1, <3>3
    <3>4. ASSUME NEW r \in Ids, st'[r] \in {"PREFILLING", "DECODING"}
          PROVE  r \in Items(b) /\ st'[r] # "FINISHED"
      <4>1. CASE r \in Done
        BY <1>4, <3>4, <4>1
      <4>2. CASE r \notin Done
        <5>1. s[r] \in {"PREFILLING", "DECODING"}
          BY <1>5, <3>4, <4>2
        <5> QED
          BY <1>1, <1>3, <3>2, <3>4, <5>1
      <4> QED
        BY <4>1, <4>2
    <3> QED
      BY <3>3, <3>4
  <2> QED
    BY <1>1, <2>1, <2>2, <2>3 DEF OnePlace
<1>14. StillDue'
  <2> SUFFICES ASSUME NEW r \in Ids, st'[r] \in Live PROVE generated'[r] < FullLength(r)
    BY DEF StillDue, FullLength
  <2>1. r \notin Finished /\ st[r] \in Live
    BY <1>1, <1>3, <1>4, <1>5, <1>6 DEF Live
  <2>2. generated[r] \in Nat /\ generated[r] < FullLength(r) /\ MaxNew[r] \in Nat
    BY <2>1, FullLengthType DEF StillDue, EngineTypeOK
  <2> QED
    BY <1>5, <1>8, <2>1, <2>2 DEF FullLength
<1>15. ChargedAreLive'
  <2> SUFFICES ASSUME NEW r \in Ids, allocated'[r] > 0
               PROVE  /\ st'[r] \in Live
                      /\ allocated'[r] \in {EstimateKvBytes(r, UseSvd[r]),
                                            EstimateKvBytes(r, FALSE)}
    BY DEF ChargedAreLive, EstimateKvBytes
  <2>1. r \notin Finished /\ allocated'[r] = allocated[r]
    BY <1>5 DEF ReleaseAll
  <2>2. st[r] \in Live /\ allocated[r] \in {EstimateKvBytes(r, UseSvd[r]),
                                             EstimateKvBytes(r, FALSE)}
    BY <2>1 DEF ChargedAreLive
  <2>3. st'[r] \in Live
    BY <1>3, <1>5, <2>1, <2>2 DEF Live
  <2> QED
    BY <2>1, <2>2, <2>3
<1>16. StreamExact'
  <2> SUFFICES ASSUME NEW r \in Ids
               PROVE  /\ got'[r] <= generated'[r]
                      /\ generated'[r] <= FullLength(r)
                      /\ out'[r] = Unread(r)'
                      /\ client'[r] = "ended" => st'[r] = "FINISHED" /\ got'[r] = generated'[r]
                      /\ st'[r] = "FINISHED" /\ client'[r] # "rejected" =>
                           generated'[r] = FullLength(r)
    BY DEF StreamExact, FullLength
  <2>1. /\ got[r] \in Nat /\ generated[r] \in Nat /\ got[r] <= generated[r]
        /\ got'[r] = got[r] /\ client'[r] = client[r]
        /\ FullLength(r) \in Nat \ {0} /\ MaxNew[r] \in Nat
        /\ out[r] \in Seq(Nat) /\ out[r] = Unread(r)
    BY <1>5, FullLengthType DEF EngineTypeOK, StreamExact
  <2>2. CASE r \in Emit
    <3>1. /\ st[r] # "FINISHED" /\ client[r] # "ended" /\ generated[r] < FullLength(r)
          /\ generated'[r] = generated[r] + 1
      BY <1>5, <1>6, <2>2 DEF Live, StreamExact, StillDue
    <3>2. out[r] = Stream(got[r], generated[r], 0)
      BY <2>1, <3>1 DEF Unread
    <3>3. out[r] \o <<generated[r] + 1>> = Stream(got[r], generated[r] + 1, 0)
      BY <2>1, <3>2, StreamEmits
    <3>4. out[r] \o <<generated[r] + 1>> \in Seq(Nat)
      <4>1. <<generated[r] + 1>> \in Seq(Nat)
        BY <2>1
      <4> QED
        BY <2>1, <4>1, ConcatProperties
    <3>5. CASE r \in Finished
      <4>1. st'[r] = "FINISHED" /\ generated'[r] = FullLength(r)
        BY <1>5, <1>7, <2>1, <3>1, <3>5 DEF FullLength
      <4>2. out'[r] = out[r] \o <<generated[r] + 1>> \o <<End>>
        BY <1>5, <2>2, <3>5
      <4>3. Stream(got[r], generated[r] + 1, 0) \o <<End>> = Stream(got[r], generated[r] + 1, 1)
        <5> DEFINE next == generated[r] + 1
        <5>1. next \in Nat /\ got[r] \in Nat /\ got[r] <= next
          BY <2>1
        <5> HIDE DEF next
        <5>2. Stream(got[r], next, 0) \o <<End>> = Stream(got[r], next, 1)
          BY <5>1, StreamCloses, Zenon
        <5> QED
          BY <5>2 DEF next
      <4>4. Unread(r)' = Stream(got[r], generated[r] + 1, 1)
        BY <2>1, <3>1, <4>1 DEF Unread, Stream
      <4>5. out'[r] = Unread(r)'
        BY <3>3, <4>2, <4>3, <4>4
      <4> QED
        BY <2>1, <3>1, <4>1, <4>5
    <3>6. CASE r \notin Finished
      <4>1. st'[r] # "FINISHED"
        BY <1>1, <1>3, <1>4, <1>5, <2>2, <3>6
      <4>2. out'[r] = out[r] \o <<generated[r] + 1>> \o <<>>
        BY <1>5, <2>2, <3>6
      <4>3. out'[r] = out[r] \o <<generated[r] + 1>>
        BY <3>4, <4>2, ConcatEmptySeq
      <4>4. Unread(r)' = Stream(got[r], generated[r] + 1, 0)
        BY <2>1, <3>1, <4>1 DEF Unread, Stream
      <4> QED
        BY <2>1, <3>1, <3>3, <4>1, <4>3, <4>4
    <3> QED
      BY <3>5, <3>6
  <2>3. CASE r \notin Emit
    <3>1. r \notin Finished
      BY <1>4, <2>3
    <3>2. out'[r] = out[r] \o <<>> \o <<>>
      BY <1>5, <2>3, <3>1
    <3>3. out'[r] = out[r]
      BY <2>1, <3>2, ConcatEmptySeq
    <3>4. generated'[r] = generated[r]
      BY <1>5, <2>3
    <3>5. st'[r] = "FINISHED" <=> st[r] = "FINISHED"
      BY <1>1, <1>3, <1>4, <1>5, <3>1
    <3>6. Unread(r)' = Unread(r)
      BY <2>1, <3>4, <3>5 DEF Unread, Stream
    <3> QED
      BY <2>1, <3>3, <3>4, <3>5, <3>6 DEF StreamExact
  <2> QED
    BY <2>2, <2>3
<1> QED
  BY <1>10, <1>11, <1>12, <1>13, <1>14, <1>15, <1>16

-----------------------------------------------------------------------------
(* One lemma per action.                                                   *)

(* start(), stop() and a stutter leave everything that the invariant is    *)
(* about, but loop.                                                        *)
LEMMA LoopKeepsInv ==
  ASSUME EngineInv, loop' \in {"none", "running", "dead"},
         UNCHANGED <<requestVars, streamVars, waiting, running, mode, admissionVars>>
  PROVE  EngineInv'
<1> USE DEF EngineInv, requestVars, streamVars
<1>1. AdmissionInv'
  BY AdmissionStutterKeepsInv
<1>2. EngineTypeOK'
  BY <1>1 DEF EngineTypeOK, AdmissionInv
<1>3. StreamExact'
  BY DEF StreamExact, Unread, Stream, FullLength
<1>4. OnePlace'
  BY DEF OnePlace, Items, Injective
<1>5. ChargedAreLive' /\ StillDue' /\ OffsetInPrompt'
  BY DEF ChargedAreLive, StillDue, OffsetInPrompt, admissionVars, EstimateKvBytes, FullLength
<1> QED
  BY <1>1, <1>2, <1>3, <1>4, <1>5

LEMMA AbandonKeepsInv ==
  ASSUME EngineInv, NEW r \in Ids, Abandon(r)
  PROVE  EngineInv'
<1> USE DEF EngineInv, requestVars
<1>1. /\ client[r] = "reading"
      /\ client' = [client EXCEPT ![r] = "gone"]
      /\ UNCHANGED <<requestVars, out, got, waiting, running, loop, mode, admissionVars>>
  BY DEF Abandon
<1>2. AdmissionInv'
  BY <1>1, AdmissionStutterKeepsInv
<1>3. EngineTypeOK'
  BY <1>1, <1>2 DEF EngineTypeOK, AdmissionInv
<1>4. \A i \in Ids : /\ (client'[i] = "ended") <=> (client[i] = "ended")
                     /\ (client'[i] = "rejected") <=> (client[i] = "rejected")
  BY <1>1 DEF EngineTypeOK
<1>5. StreamExact'
  BY <1>1, <1>4 DEF StreamExact, Unread, Stream, FullLength
<1>6. OnePlace'
  BY <1>1 DEF OnePlace, Items, Injective
<1>7. ChargedAreLive' /\ StillDue' /\ OffsetInPrompt'
  BY <1>1 DEF ChargedAreLive, StillDue, OffsetInPrompt, admissionVars, EstimateKvBytes, FullLength
<1> QED
  BY <1>2, <1>3, <1>5, <1>6, <1>7

LEMMA ReadKeepsInv ==
  ASSUME EngineInv, NEW r \in Ids, Read(r)
  PROVE  EngineInv'
<1> USE DEF EngineInv, requestVars
<1>1. /\ client[r] = "reading"
      /\ out[r] # <<>>
      /\ out' = [out EXCEPT ![r] = Tail(@)]
      /\ UNCHANGED <<requestVars, waiting, running, loop, mode, admissionVars>>
  BY DEF Read
<1>2. /\ out[r] \in Seq(Nat) /\ out[r] = Unread(r)
      /\ got[r] \in Nat /\ generated[r] \in Nat /\ got[r] <= generated[r]
  BY DEF EngineTypeOK, StreamExact
<1>3. Head(out[r]) \in Nat /\ Tail(out[r]) \in Seq(Nat)
  BY <1>1, <1>2, HeadTailProperties
<1>4. \/ Head(out[r]) = End /\ client' = [client EXCEPT ![r] = "ended"] /\ UNCHANGED got
      \/ Head(out[r]) # End /\ got' = [got EXCEPT ![r] = Head(out[r])] /\ UNCHANGED client
  BY DEF Read
<1>5. AdmissionInv'
  BY <1>1, AdmissionStutterKeepsInv
<1>6. EngineTypeOK'
  <2>1. out' \in [Ids -> Seq(Nat)]
    BY <1>1, <1>3 DEF EngineTypeOK
  <2>2. got' \in [Ids -> Nat] /\ client' \in [Ids -> {"idle", "reading", "ended", "rejected", "gone"}]
    BY <1>3, <1>4 DEF EngineTypeOK
  <2> QED
    BY <1>1, <1>5, <2>1, <2>2 DEF EngineTypeOK, AdmissionInv
<1>7. StreamExact'
  <2> SUFFICES ASSUME NEW i \in Ids
               PROVE  /\ got'[i] <= generated'[i]
                      /\ generated'[i] <= FullLength(i)
                      /\ out'[i] = Unread(i)'
                      /\ client'[i] = "ended" => st'[i] = "FINISHED" /\ got'[i] = generated'[i]
                      /\ st'[i] = "FINISHED" /\ client'[i] # "rejected" =>
                           generated'[i] = FullLength(i)
    BY DEF StreamExact, FullLength
  <2>1. CASE i # r
    <3>1. /\ got'[i] = got[i] /\ client'[i] = client[i] /\ out'[i] = out[i]
          /\ generated'[i] = generated[i] /\ st'[i] = st[i]
      BY <1>1, <1>4, <2>1 DEF EngineTypeOK
    <3>2. Unread(i)' = Unread(i)
      BY <3>1 DEF Unread, Stream
    <3> QED
      BY <3>1, <3>2 DEF StreamExact
  <2>2. CASE i = r
    <3> DEFINE ends == IF st[r] = "FINISHED" THEN 1 ELSE 0
    <3>1. out[r] = Stream(got[r], generated[r], ends)
      BY <1>1, <1>2 DEF Unread
    <3>2. out'[r] = Tail(out[r]) /\ generated'[r] = generated[r] /\ st'[r] = st[r]
      BY <1>1 DEF EngineTypeOK
    <3>3. CASE got[r] < generated[r]
      <4>1. ends \in Nat
        OBVIOUS
      <4> HIDE DEF ends
      <4>2. /\ Head(out[r]) = got[r] + 1
            /\ Tail(out[r]) = Stream(got[r] + 1, generated[r], ends)
        <5>1. /\ Head(Stream(got[r], generated[r], ends)) = got[r] + 1
              /\ Tail(Stream(got[r], generated[r], ends)) = Stream(got[r] + 1, generated[r], ends)
          BY <1>2, <3>3, <4>1, StreamTaken, Zenon
        <5> QED
          BY <3>1, <5>1
      <4>3. Head(out[r]) # End
        BY <1>2, <4>2 DEF End
      <4>4. got'[r] = got[r] + 1 /\ client'[r] = client[r]
        BY <1>4, <4>2, <4>3 DEF EngineTypeOK
      <4>5. Unread(r)' = Stream(got[r] + 1, generated[r], ends)
        BY <1>1, <3>2, <4>4 DEF Unread, Stream, ends
      <4>6. got'[r] <= generated'[r]
        BY <1>2, <3>2, <3>3, <4>4
      <4> QED
        BY <1>1, <2>2, <3>2, <4>2, <4>4, <4>5, <4>6 DEF StreamExact
    <3>4. CASE ~ (got[r] < generated[r])
      <4>1. got[r] = generated[r]
        BY <1>2, <3>4
      <4>2. st[r] = "FINISHED"
        <5>1. ASSUME st[r] # "FINISHED" PROVE FALSE
          BY <1>1, <1>2, <3>1, <4>1, <5>1, StreamTakenLast
        <5> QED
          BY <5>1
      <4>3. out[r] = Stream(generated[r], generated[r], 1)
        BY <3>1, <4>1, <4>2
      <4>4. Head(out[r]) = End /\ Tail(out[r]) = <<>>
        BY <1>2, <4>3, StreamTakenLast
      <4>5. got'[r] = got[r] /\ client'[r] = "ended"
        BY <1>4, <4>4 DEF EngineTypeOK
      <4>6. Unread(r)' = Stream(generated[r], generated[r], 0)
        BY <3>2, <4>1, <4>5 DEF Unread, Stream
      <4>7. Unread(r)' = <<>>
        BY <1>2, <4>6, StreamTakenLast
      <4> QED
        BY <1>1, <1>2, <2>2, <3>2, <4>1, <4>2, <4>4, <4>5, <4>7 DEF StreamExact
    <3> QED
      BY <3>3, <3>4
  <2> QED
    BY <2>1, <2>2
<1>8. OnePlace'
  BY <1>1 DEF OnePlace, Items, Injective
<1>9. ChargedAreLive' /\ StillDue' /\ OffsetInPrompt'
  BY <1>1 DEF ChargedAreLive, StillDue, OffsetInPrompt, admissionVars, EstimateKvBytes, FullLength
<1> QED
  BY <1>5, <1>6, <1>7, <1>8, <1>9

LEMMA SubmitKeepsInv ==
  ASSUME EngineInv, NEW r \in Ids, Submit(r)
  PROVE  EngineInv'
<1> DEFINE est == EstimateKvBytes(r, UseSvd[r])
<1>1. Vacant(r)
  BY DEF Submit
<1>2. est \in Nat
  BY EstimateType, EngineAssumption
<1>3. /\ <<>> \in Seq(Ids) /\ <<r>> \in Seq(Ids)
      /\ Items(<<>>) = {} /\ Injective(<<>>) /\ Items(<<r>>) = {r} /\ Injective(<<r>>)
  BY NoItems, OneItem, EmptySeq
<1>4. CASE Enter(<<>>, {r}, 0, "reading") /\ UNCHANGED admissionVars
  <2>1. AdmissionInv'
    BY <1>4, AdmissionStutterKeepsInv DEF EngineInv
  <2>2. \A i \in Ids : allocated'[i] = allocated[i]
    BY <1>4 DEF admissionVars
  <2> QED
    BY <1>1, <1>3, <1>4, <2>1, <2>2, EnterKeepsInv
<1>5. CASE Enter(<<r>>, {}, 0, "reading") /\ UNCHANGED admissionVars
  <2>1. AdmissionInv'
    BY <1>5, AdmissionStutterKeepsInv DEF EngineInv
  <2>2. \A i \in Ids : allocated'[i] = allocated[i]
    BY <1>5 DEF admissionVars
  <2> QED
    BY <1>1, <1>3, <1>5, <2>1, <2>2, EnterKeepsInv
<1>6. CASE Admit(r, est) /\ Enter(<<r>>, {}, 0, "reading")
  <2>1. AdmissionInv'
    BY <1>2, <1>6, AdmitKeepsInv DEF EngineInv
  <2>2. \A i \in Ids : \/ allocated'[i] = allocated[i]
                       \/ /\ i \in Items(<<r>>)
                          /\ allocated'[i] \in {EstimateKvBytes(i, UseSvd[i]),
                                               EstimateKvBytes(i, FALSE)}
    BY <1>3, <1>6 DEF Admit, EngineInv, EngineTypeOK, AdmissionTypeOK
  <2> QED
    BY <1>1, <1>3, <1>6, <2>1, <2>2, EnterKeepsInv
<1> QED
  BY <1>4, <1>5, <1>6 DEF Submit

LEMMA ForkKeepsInv ==
  ASSUME EngineInv, NEW x \in Ids, NEW y \in Ids, x # y, Fork(x, y)
  PROVE  EngineInv'
<1> DEFINE estX == EstimateKvBytes(x, FALSE)
           estY == EstimateKvBytes(y, FALSE)
           forX == Decision(allocatedTotal, estX)
           owedX == IF forX = "admit" THEN estX - allocated[x] ELSE 0
           afterX == [allocated EXCEPT ![x] = IF forX = "admit" THEN estX ELSE @]
           forY == Decision(allocatedTotal + owedX, estY)
           owedY == IF forY = "admit" THEN estY - allocated[y] ELSE 0
           afterY == [allocated EXCEPT ![x] = IF forX = "admit" THEN estX ELSE @,
                                       ![y] = IF forY = "admit" THEN estY ELSE @]
<1>1. Vacant(x) /\ Vacant(y)
  BY DEF Fork
<1>2. estX \in Nat /\ estY \in Nat
  BY EstimateType
<1>3. /\ allocated \in [Ids -> Nat] /\ allocatedTotal \in Nat
      /\ allocated[x] \in Nat /\ allocated[y] \in Nat
  BY DEF EngineInv, EngineTypeOK, AdmissionTypeOK
<1>4. Sound(allocated, allocatedTotal)
  BY InvIsSound DEF EngineInv
<1>5. Sound(afterX, allocatedTotal + owedX)
  <2>1. CASE forX = "admit"
    <3>1. Sound([allocated EXCEPT ![x] = estX], allocatedTotal + estX - allocated[x])
      BY <1>2, <1>4, <2>1, ChargeKeepsSound
    <3>2. allocatedTotal + estX - allocated[x] = allocatedTotal + owedX
      BY <1>2, <1>3, <2>1
    <3>3. afterX = [allocated EXCEPT ![x] = estX]
      BY <2>1
    <3> QED
      BY <3>1, <3>2, <3>3
  <2>2. CASE forX # "admit"
    <3>1. afterX = allocated /\ allocatedTotal + owedX = allocatedTotal
      BY <1>3, <2>2
    <3> QED
      BY <1>4, <3>1
  <2> QED
    BY <2>1, <2>2
<1>6. afterX \in [Ids -> Nat] /\ afterX[y] = allocated[y] /\ allocatedTotal + owedX \in Nat
  BY <1>2, <1>3, <1>5 DEF Sound
<1>7. Sound(afterY, allocatedTotal + owedX + owedY)
  <2>1. CASE forY = "admit"
    <3>1. Sound([afterX EXCEPT ![y] = estY], allocatedTotal + owedX + estY - afterX[y])
      BY <1>2, <1>5, <2>1, ChargeKeepsSound
    <3>2. allocatedTotal + owedX + estY - afterX[y] = allocatedTotal + owedX + owedY
      BY <1>2, <1>3, <1>6, <2>1
    <3>3. afterY = [afterX EXCEPT ![y] = estY]
      BY <1>3, <2>1
    <3> QED
      BY <3>1, <3>2, <3>3
  <2>2. CASE forY # "admit"
    <3>1. owedY = 0
      BY <2>2
    <3>2. allocatedTotal + owedX + owedY = allocatedTotal + owedX
      <4> HIDE DEF owedX, owedY
      <4> QED
        BY <1>6, <3>1
    <3>3. afterY = [afterX EXCEPT ![y] = allocated[y]]
      BY <1>3, <2>2
    <3>4. afterY = afterX
      <4> HIDE DEF afterX, afterY
      <4> QED
        BY <1>6, <3>3
    <3> HIDE DEF afterX, afterY, owedX, owedY, forX, forY
    <3> QED
      BY <1>5, <3>2, <3>4
  <2> QED
    BY <2>1, <2>2
<1>8. \A i \in Ids : afterX[i] = allocated[i] \/ (i = x /\ afterX[i] = estX)
  BY <1>3
<1>9. \A i \in Ids : \/ afterY[i] = allocated[i] \/ (i = x /\ afterY[i] = estX)
                     \/ (i = y /\ afterY[i] = estY)
  BY <1>3
<1>10. /\ <<>> \in Seq(Ids) /\ <<x>> \in Seq(Ids) /\ <<x, y>> \in Seq(Ids)
       /\ Items(<<>>) = {} /\ Injective(<<>>) /\ Items(<<x>>) = {x} /\ Injective(<<x>>)
       /\ Items(<<x, y>>) = {x, y} /\ Injective(<<x, y>>)
  BY NoItems, OneItem, TwoItems, EmptySeq
<1>11. \/ Enter(<<>>, {x}, PrefixLen, "reading") /\ UNCHANGED admissionVars
       \/ /\ Enter(<<x>>, {y}, PrefixLen, "gone")
          /\ allocated' = afterX /\ allocatedTotal' = allocatedTotal + owedX
       \/ /\ Enter(<<x, y>>, {}, PrefixLen, "reading")
          /\ allocated' = afterY /\ allocatedTotal' = allocatedTotal + owedX + owedY
  BY DEF Fork
<1> HIDE DEF afterX, afterY, owedX, owedY, forX, forY
<1>12. CASE Enter(<<>>, {x}, PrefixLen, "reading") /\ UNCHANGED admissionVars
  <2>1. AdmissionInv'
    BY <1>12, AdmissionStutterKeepsInv DEF EngineInv
  <2>2. \A i \in Ids : allocated'[i] = allocated[i]
    BY <1>12 DEF admissionVars
  <2> QED
    BY <1>1, <1>10, <1>12, <2>1, <2>2, EnterKeepsInv
<1>13. CASE /\ Enter(<<x>>, {y}, PrefixLen, "gone")
            /\ allocated' = afterX /\ allocatedTotal' = allocatedTotal + owedX
  <2>1. AdmissionInv'
    BY <1>5, <1>13, InvIsSoundNext
  <2>2. \A i \in Ids : \/ allocated'[i] = allocated[i]
                       \/ /\ i \in Items(<<x>>)
                          /\ allocated'[i] \in {EstimateKvBytes(i, UseSvd[i]),
                                               EstimateKvBytes(i, FALSE)}
    BY <1>8, <1>10, <1>13
  <2>3. /\ Items(<<x>>) \cap {y} = {} /\ {y} \in SUBSET Ids
        /\ \A i \in Items(<<x>>) \cup {y} : Vacant(i)
    BY <1>1, <1>10
  <2>4. PrefixLen \in {0, PrefixLen} /\ "gone" \in {"reading", "gone"}
    OBVIOUS
  <2> QED
    BY <1>10, <1>13, <2>1, <2>2, <2>3, <2>4, EnterKeepsInv
<1>14. CASE /\ Enter(<<x, y>>, {}, PrefixLen, "reading")
            /\ allocated' = afterY /\ allocatedTotal' = allocatedTotal + owedX + owedY
  <2>1. AdmissionInv'
    BY <1>7, <1>14, InvIsSoundNext
  <2>2. \A i \in Ids : \/ allocated'[i] = allocated[i]
                       \/ /\ i \in Items(<<x, y>>)
                          /\ allocated'[i] \in {EstimateKvBytes(i, UseSvd[i]),
                                               EstimateKvBytes(i, FALSE)}
    BY <1>9, <1>10, <1>14
  <2> QED
    BY <1>1, <1>10, <1>14, <2>1, <2>2, EnterKeepsInv
<1> QED
  BY <1>11, <1>12, <1>13, <1>14

LEMMA IterateKeepsInv ==
  ASSUME EngineInv, Iterate
  PROVE  EngineInv'
<1>1. loop = "running" /\ loop' = loop /\ mode' \in Modes
  BY GateType DEF Iterate, EngineInv, EngineTypeOK
<1>2. PICK order \in QueueSorts :
        /\ waiting' = Unseated(order)
        /\ IF Batch(order) = <<>>
           THEN UNCHANGED <<requestVars, streamVars, running, admissionVars>>
           ELSE StepBatch(Batch(order), StateIn(order), OffsetIn(order))
  BY DEF Iterate
<1>3. CASE Batch(order) = <<>>
  <2> USE DEF EngineInv, requestVars, streamVars
  <2>1. UNCHANGED <<requestVars, streamVars, running, admissionVars>>
    BY <1>2, <1>3
  <2>2. /\ Unseated(order) \in Seq(Ids) /\ Injective(Unseated(order))
        /\ Items(Unseated(order)) = {r \in Ids : st[r] = "WAITING"} \ Items(Seated(order))
        /\ Items(Batch(order)) = Items(running) \cup Items(Seated(order))
    BY PassLists
  <2>3. Items(Seated(order)) = {}
    BY <1>3, <2>2, NoItems
  <2>4. AdmissionInv'
    BY <2>1, AdmissionStutterKeepsInv
  <2>5. EngineTypeOK'
    BY <1>1, <1>2, <2>1, <2>2, <2>4 DEF EngineTypeOK, AdmissionInv
  <2>6. StreamExact'
    BY <2>1 DEF StreamExact, Unread, Stream, FullLength
  <2>7. OnePlace'
    <3>1. Items(waiting') = {r \in Ids : st'[r] = "WAITING"} /\ Injective(waiting')
      BY <1>2, <2>1, <2>2, <2>3
    <3> QED
      BY <2>1, <3>1 DEF OnePlace, Items, Injective
  <2>8. ChargedAreLive' /\ StillDue' /\ OffsetInPrompt'
    BY <2>1 DEF ChargedAreLive, StillDue, OffsetInPrompt, admissionVars, EstimateKvBytes, FullLength
  <2> QED
    BY <2>4, <2>5, <2>6, <2>7, <2>8
<1>4. CASE Batch(order) # <<>>
  <2> DEFINE P == Prefilled(Batch(order), StateIn(order))
             Done == {r \in P : ChunkEnd(r, OffsetIn(order)) >= PromptLen[r]}
             D == Decoders(Batch(order), StateIn(order))
  <2>1. /\ Effects(P, Done, D, Done \cup D, StateIn(order), OffsetIn(order))
        /\ running' \in Keeping(Batch(order), {r \in Ids : st'[r] # "FINISHED"})
    BY <1>2, <1>4 DEF StepBatch
  <2>2. P \subseteq In(Batch(order), StateIn(order), "PREFILLING")
    BY DEF Prefilled, FirstIn
  <2>3. Done \subseteq P /\ D = In(Batch(order), StateIn(order), "DECODING")
    BY DEF Decoders
  <2>4. Done \cup D \subseteq Done \cup In(Batch(order), StateIn(order), "DECODING")
    BY <2>3
  <2>5. loop' \in {"running", "dead"}
    BY <1>1
  <2> HIDE DEF P, Done, D
  <2> QED
    BY <1>1, <1>2, <2>1, <2>2, <2>3, <2>4, <2>5, PassKeepsInv
<1> QED
  BY <1>3, <1>4

LEMMA IterateRaisesKeepsInv ==
  ASSUME EngineInv, IterateRaises
  PROVE  EngineInv'
<1>1. loop' = "dead" /\ mode' \in Modes
  BY GateType DEF IterateRaises, EngineInv, EngineTypeOK
<1>2. PICK order \in QueueSorts :
        /\ waiting' = Unseated(order)
        /\ running' = Batch(order)
        /\ RaiseIn(Batch(order), StateIn(order), OffsetIn(order))
  BY DEF IterateRaises
<1> DEFINE b == Batch(order)
           s == StateIn(order)
           o == OffsetIn(order)
           P == Prefilled(b, s)
           Done == {r \in P : ChunkEnd(r, o) >= PromptLen[r]}
           D == Decoders(b, s)
<1>3. P \subseteq In(b, s, "PREFILLING")
  BY DEF Prefilled, FirstIn
<1>4. Done \subseteq P /\ D = In(b, s, "DECODING") /\ \A d : Before(b, D, d) \subseteq D
  BY DEF Decoders, Before
<1>5. ASSUME NEW Q, NEW F, NEW Fed, NEW Emit,
             Q \subseteq P, F \subseteq Q, Emit \subseteq F \cup D,
             Effects(Q, F, Fed, Emit, s, o)
      PROVE  EngineInv'
  <2>1. Q \subseteq In(b, s, "PREFILLING") /\ Emit \subseteq F \cup In(b, s, "DECODING")
    BY <1>3, <1>4, <1>5
  <2> QED
    BY <1>1, <1>2, <1>5, <2>1, PassKeepsInv
<1>6. \/ Effects({}, {}, {}, {}, s, o)
      \/ Effects(P, Done, {}, {}, s, o)
      \/ \E d \in D : \/ Effects(P, Done, Before(b, D, d), Done, s, o)
                      \/ Effects(P, Done, Before(b, D, d), Done \cup Before(b, D, d), s, o)
                      \/ Effects(P, Done, D, Done, s, o)
                      \/ Effects(P, Done, Before(b, D, d) \cup {d}, Done \cup Before(b, D, d), s, o)
  BY <1>2 DEF RaiseIn
<1> HIDE DEF P, Done, D
<1>7. CASE Effects({}, {}, {}, {}, s, o)
  BY <1>5, <1>7
<1>8. CASE Effects(P, Done, {}, {}, s, o)
  BY <1>4, <1>5, <1>8
<1>9. ASSUME NEW Fed, NEW Emit, Emit \subseteq Done \cup D, Effects(P, Done, Fed, Emit, s, o)
      PROVE  EngineInv'
  BY <1>4, <1>5, <1>9
<1>10. \A d : Done \cup Before(b, D, d) \subseteq Done \cup D
  BY <1>4
<1> QED
  BY <1>6, <1>7, <1>8, <1>9, <1>10

-----------------------------------------------------------------------------
LEMMA EngineInvariant == Spec => []EngineInv
<1>1. Init => EngineInv
  BY EngineInitInv
<1>2. EngineInv /\ [Next]_vars => EngineInv'
  <2> SUFFICES ASSUME EngineInv, [Next]_vars PROVE EngineInv'
    OBVIOUS
  <2>1. CASE Start
    BY <2>1, LoopKeepsInv DEF Start
  <2>2. CASE Stop
    BY <2>2, LoopKeepsInv DEF Stop
  <2>3. ASSUME NEW r \in Ids, Submit(r) PROVE EngineInv'
    BY <2>3, SubmitKeepsInv
  <2>4. ASSUME NEW f \in Forks, Fork(f[1], f[2]) PROVE EngineInv'
    <3>1. f[1] \in Ids /\ f[2] \in Ids /\ f[1] # f[2]
      BY EngineAssumption
    <3> QED
      BY <2>4, <3>1, ForkKeepsInv
  <2>5. ASSUME NEW r \in Ids, Read(r) PROVE EngineInv'
    BY <2>5, ReadKeepsInv
  <2>6. ASSUME NEW r \in Ids, Abandon(r) PROVE EngineInv'
    BY <2>6, AbandonKeepsInv
  <2>7. CASE Iterate
    BY <2>7, IterateKeepsInv
  <2>8. CASE IterateRaises
    BY <2>8, IterateRaisesKeepsInv
  <2>9. CASE UNCHANGED vars
    <3>1. loop' \in {"none", "running", "dead"}
      BY <2>9 DEF vars, EngineInv, EngineTypeOK
    <3> QED
      BY <2>9, <3>1, LoopKeepsInv DEF vars
  <2> QED
    BY <2>1, <2>2, <2>3, <2>4, <2>5, <2>6, <2>7, <2>8, <2>9 DEF Next
<1> QED
  BY <1>1, <1>2, PTL DEF Spec

(* The attributes of the engine and of its requests keep their types.      *)
THEOREM EngineTypeCorrect == Spec => []EngineTypeOK
<1>1. EngineInv => EngineTypeOK
  BY DEF EngineInv
<1> QED
  BY <1>1, EngineInvariant, PTL

(* Every client sees exactly the tokens that were generated for it, in     *)
(* order, and one None that comes with the last of them, however the       *)
(* scheduler, its exceptions, stop, restart and the clients interleave.    *)
THEOREM StreamsAreExact == Spec => []StreamExact
<1>1. EngineInv => StreamExact
  BY DEF EngineInv
<1> QED
  BY <1>1, EngineInvariant, PTL

(* Sorting, seating, filtering, exceptions and restarts neither lose nor   *)
(* duplicate a request, and the batch never outgrows max_batch_size.       *)
THEOREM RequestsInOnePlace == Spec => []OnePlace
<1>1. EngineInv => OnePlace
  BY DEF EngineInv
<1> QED
  BY <1>1, EngineInvariant, PTL

(* Budget is charged only to requests that are queued or running.          *)
THEOREM ChargesAreLive == Spec => []ChargedAreLive
<1>1. EngineInv => ChargedAreLive
  BY DEF EngineInv
<1> QED
  BY <1>1, EngineInvariant, PTL

(* The engine, which admits, forks and releases several requests in one    *)
(* step, never lets the running sum of the controller drift, and never     *)
(* charges beyond the high watermark.                                      *)
THEOREM EngineTotalNeverDrifts == Spec => [](TotalIsSum /\ ChargedBelowHigh)
<1>1. EngineInv => TotalIsSum /\ ChargedBelowHigh
  BY DEF EngineInv, AdmissionInv
<1> QED
  BY <1>1, EngineInvariant, PTL
=============================================================================
