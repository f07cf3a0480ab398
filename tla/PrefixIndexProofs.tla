--------------------------- MODULE PrefixIndexProofs ----------------------------
(***************************************************************************)
(* Proofs about what other processes and threads know of cached prefixes:  *)
(* no KV event is missed, for any number of publishers and events and any  *)
(* size of the replay buffer; the ids of the radix trie keep their         *)
(* sequences; and the routing trie of the spectral forest is exact, for    *)
(* any tokens and any paths.                                               *)
(***************************************************************************)
EXTENDS KvEventStream, RadixTrie, SpectralForest, ListLemmas

-----------------------------------------------------------------------------
(* KvEventStream.                                                          *)

(* The events that the subscriber has, or that a publisher holds for it.   *)
Reached(e) == e \in heard \/ \E p \in Publishers : toSend[p] = e

(* The buffer holds the newest events, in order and without a gap.         *)
Latest(buffer, n) ==
  /\ buffer \in Seq(Int)
  /\ n \in Nat
  /\ Len(buffer) <= n
  /\ \A i \in 1 .. Len(buffer) : buffer[i] = n - Len(buffer) + i

BufferIsLatest == Latest(replayBuffer, buffered)

(* During a replay, an event that the subscriber lacks is still to come,   *)
(* from the snapshot or from its publisher.                                *)
ReplayInFlight ==
  listener = "replaying" =>
    /\ subscriber = "asked"
    /\ ~lossy => \A e \in outOfReach + 1 .. buffered :
                   Reached(e) \/ \E i \in 1 .. Len(snapshot) : snapshot[i] = e

EventsInv ==
  /\ BufferIsLatest
  /\ snapshot \in Seq(Int)
  /\ outOfReach \in Nat
  /\ toSend \in [Publishers -> Nat]
  /\ ReplayInFlight
  /\ NoEventIsMissed

LEMMA EventsInitInv == EventsInit => EventsInv
BY DEF EventsInit, EventsInv, BufferIsLatest, Latest, ReplayInFlight, NoEventIsMissed

(* Appending the next event and dropping the oldest keeps the run.         *)
LEMMA KeptStaysLatest ==
  ASSUME NEW buffer, NEW n, Latest(buffer, n)
  PROVE  Latest(Kept(Append(buffer, n + 1)), n + 1)
<1> DEFINE longer == Append(buffer, n + 1)
           m == Len(buffer)
<1>1. /\ longer \in Seq(Int) /\ Len(longer) = m + 1
      /\ \A i \in 1 .. m + 1 : longer[i] = n - m + i
      /\ m \in Nat /\ n \in Nat /\ m <= n
  BY DEF Latest
<1> HIDE DEF longer, m
<1>2. Latest(longer, n + 1)
  <2>1. \A i \in 1 .. m + 1 : longer[i] = (n + 1) - (m + 1) + i
    BY <1>1
  <2> QED
    BY <1>1, <2>1 DEF Latest
<1>3. Latest(Tail(longer), n + 1)
  <2>1. Tail(longer) \in Seq(Int) /\ Len(Tail(longer)) = m
    BY <1>1
  <2>2. ASSUME NEW i \in 1 .. m PROVE Tail(longer)[i] = (n + 1) - m + i
    <3>1. Tail(longer)[i] = longer[i + 1] /\ i + 1 \in 1 .. m + 1
      BY <1>1
    <3> QED
      BY <1>1, <3>1
  <2> DEFINE shorter == Tail(longer)
  <2> HIDE DEF shorter
  <2>3. shorter \in Seq(Int) /\ Len(shorter) = m /\ m <= n + 1 /\ n + 1 \in Nat
    BY <1>1, <2>1 DEF shorter
  <2>4. \A i \in 1 .. m : shorter[i] = (n + 1) - m + i
    BY <2>2 DEF shorter
  <2>5. Latest(shorter, n + 1)
    BY <2>3, <2>4 DEF Latest
  <2> QED
    BY <2>5 DEF shorter
<1> QED
  BY <1>2, <1>3 DEF Kept, longer

(* A new event is held by its publisher, who held none, so that nothing    *)
(* that was reached is lost.                                               *)
LEMMA BufferEventKeepsInv ==
  ASSUME EventsInv, NEW p \in Publishers, BufferEvent(p)
  PROVE  EventsInv'
<1> USE DEF EventsInv, BufferEvent
<1>1. BufferIsLatest'
  <2>1. Latest(Kept(Append(replayBuffer, buffered + 1)), buffered + 1)
    BY KeptStaysLatest DEF BufferIsLatest
  <2> QED
    BY <2>1 DEF BufferIsLatest
<1>2. buffered \in Nat
  BY DEF BufferIsLatest, Latest
<1>3. toSend' \in [Publishers -> Nat] /\ toSend'[p] = buffered'
  BY <1>2
<1>4. \A e \in outOfReach + 1 .. buffered : Reached(e) => Reached(e)'
  BY <1>2 DEF Reached
<1>5. \A e \in {buffered'} : Reached(e)'
  BY <1>3 DEF Reached
<1>6. \A e \in outOfReach' + 1 .. buffered' : e \in outOfReach + 1 .. buffered \/ e = buffered'
  BY <1>2
<1>7. ReplayInFlight'
  BY <1>4, <1>5, <1>6 DEF ReplayInFlight
<1>8. NoEventIsMissed'
  BY <1>4, <1>5, <1>6 DEF NoEventIsMissed, Reached
<1> QED
  BY <1>1, <1>3, <1>7, <1>8

(* The event that leaves its publisher is heard, or the loss is known.     *)
LEMMA SendEventKeepsInv ==
  ASSUME EventsInv, NEW p \in Publishers, SendEvent(p)
  PROVE  EventsInv'
<1> USE DEF EventsInv, SendEvent
<1>1. BufferIsLatest' /\ toSend' \in [Publishers -> Nat]
  BY DEF BufferIsLatest
<1>2. ASSUME ~lossy', subscriber # "away" PROVE \A e \in outOfReach + 1 .. buffered : Reached(e) => Reached(e)'
  BY <1>1, <1>2 DEF Reached, Hear
<1>3. ReplayInFlight'
  BY <1>2 DEF ReplayInFlight, Hear
<1>4. NoEventIsMissed'
  BY <1>2 DEF NoEventIsMissed, Reached, Hear
<1> QED
  BY <1>1, <1>3, <1>4

(* The snapshot is the buffer: every event that is not out of reach.       *)
LEMMA StartReplayKeepsInv ==
  ASSUME EventsInv, StartReplay
  PROVE  EventsInv'
<1> USE DEF EventsInv, StartReplay
<1>1. /\ BufferIsLatest' /\ snapshot' \in Seq(Int) /\ outOfReach' \in Nat
      /\ toSend' \in [Publishers -> Nat]
  BY DEF BufferIsLatest, Latest, ReplayEvents
<1>2. ASSUME NEW e \in outOfReach' + 1 .. buffered'
      PROVE  \E i \in 1 .. Len(snapshot') : snapshot'[i] = e
  <2> DEFINE i == e - outOfReach'
  <2>1. /\ Len(replayBuffer) \in Nat /\ buffered \in Nat
        /\ outOfReach' = buffered - Len(replayBuffer) /\ buffered' = buffered
        /\ \A k \in 1 .. Len(replayBuffer) : replayBuffer[k] = buffered - Len(replayBuffer) + k
    BY DEF BufferIsLatest, Latest
  <2>2. i \in 1 .. Len(replayBuffer) /\ buffered - Len(replayBuffer) + i = e
    BY <1>2, <2>1
  <2>3. replayBuffer[i] = e
    BY <2>1, <2>2
  <2> QED
    BY <2>2, <2>3 DEF ReplayEvents
<1>3. ReplayInFlight' /\ NoEventIsMissed'
  BY <1>2 DEF ReplayInFlight, NoEventIsMissed
<1> QED
  BY <1>1, <1>3

LEMMA ReplayOneKeepsInv ==
  ASSUME EventsInv, ReplayOne
  PROVE  EventsInv'
<1> USE DEF EventsInv, ReplayOne
<1>0. snapshot' \in Seq(Int)
  <2>1. << >> \in Seq(Int) /\ (snapshot # << >> => Tail(snapshot) \in Seq(Int))
    OBVIOUS
  <2> QED
    BY <2>1
<1>1. BufferIsLatest' /\ snapshot' \in Seq(Int)
  BY <1>0 DEF BufferIsLatest
<1>2. subscriber' = "asked"
  BY DEF ReplayInFlight
<1>3. ASSUME ~lossy', NEW e \in outOfReach' + 1 .. buffered'
      PROVE  Reached(e)' \/ \E i \in 1 .. Len(snapshot') : snapshot'[i] = e
  <2>1. heard' = heard \cup {Head(snapshot)} /\ snapshot' = Tail(snapshot) /\ ~lossy
    BY <1>3
  <2>2. CASE Reached(e)
    BY <2>1, <2>2 DEF Reached
  <2>3. CASE \E i \in 1 .. Len(snapshot) : snapshot[i] = e
    <3>1. PICK i \in 1 .. Len(snapshot) : snapshot[i] = e
      BY <2>3
    <3>2. CASE i = 1
      BY <2>1, <3>1, <3>2 DEF Reached
    <3>3. CASE i # 1
      <4>1. i - 1 \in 1 .. Len(Tail(snapshot)) /\ Tail(snapshot)[i - 1] = e
        BY <3>1, <3>3
      <4> QED
        BY <2>1, <4>1
    <3> QED
      BY <3>2, <3>3
  <2> QED
    BY <1>3, <2>1, <2>2, <2>3 DEF ReplayInFlight
<1>4. ReplayInFlight' /\ NoEventIsMissed'
  BY <1>2, <1>3 DEF ReplayInFlight, NoEventIsMissed
<1> QED
  BY <1>1, <1>4

(* When the marker is sent the snapshot is empty: what was still to come   *)
(* is reached.                                                             *)
LEMMA EndReplayKeepsInv ==
  ASSUME EventsInv, EndReplay
  PROVE  EventsInv'
<1> USE DEF EventsInv, EndReplay
<1>1. BufferIsLatest' /\ ReplayInFlight'
  BY DEF BufferIsLatest, ReplayInFlight
<1>2. ASSUME ~lossy PROVE \A e \in outOfReach + 1 .. buffered : Reached(e)
  BY <1>2 DEF ReplayInFlight
<1>3. NoEventIsMissed'
  BY <1>2 DEF NoEventIsMissed, Reached
<1> QED
  BY <1>1, <1>3

(* Starting, stopping, joining and asking touch no event on its way.       *)
LEMMA ConnectionKeepsInv ==
  ASSUME EventsInv, StartPublisher \/ StopPublisher \/ Subscribe \/ AskReplay
  PROVE  EventsInv'
<1> USE DEF EventsInv, StartPublisher, StopPublisher, Subscribe, AskReplay
<1>0. << >> \in Seq(Int)
  OBVIOUS
<1>1. BufferIsLatest' /\ snapshot' \in Seq(Int)
  BY <1>0 DEF BufferIsLatest
<1>2. ReplayInFlight'
  BY DEF ReplayInFlight, Reached
<1>3. NoEventIsMissed'
  BY DEF NoEventIsMissed
<1> QED
  BY <1>1, <1>2, <1>3

(* No event falls between a replay and the live stream, for any number of  *)
(* publishers and any interleaving of their two steps with the listener's. *)
THEOREM ReplayLeavesNoGap == EventsSpec => []NoEventIsMissed
<1>1. EventsInit => EventsInv
  BY EventsInitInv
<1>2. EventsInv /\ [EventsNext]_eventVars => EventsInv'
  <2> SUFFICES ASSUME EventsInv, [EventsNext]_eventVars PROVE EventsInv'
    OBVIOUS
  <2>1. CASE StartPublisher \/ StopPublisher \/ Subscribe \/ AskReplay
    BY <2>1, ConnectionKeepsInv
  <2>2. ASSUME NEW p \in Publishers, BufferEvent(p) PROVE EventsInv'
    BY <2>2, BufferEventKeepsInv
  <2>3. ASSUME NEW p \in Publishers, SendEvent(p) PROVE EventsInv'
    BY <2>3, SendEventKeepsInv
  <2>4. CASE StartReplay
    BY <2>4, StartReplayKeepsInv
  <2>5. CASE ReplayOne
    BY <2>5, ReplayOneKeepsInv
  <2>6. CASE EndReplay
    BY <2>6, EndReplayKeepsInv
  <2>7. CASE UNCHANGED eventVars
    BY <2>7 DEF eventVars, EventsInv, BufferIsLatest, Latest, ReplayInFlight, NoEventIsMissed, Reached
  <2> QED
    BY <2>1, <2>2, <2>3, <2>4, <2>5, <2>6, <2>7 DEF EventsNext
<1>3. EventsInv => NoEventIsMissed
  BY DEF EventsInv
<1> QED
  BY <1>1, <1>2, <1>3, PTL DEF EventsSpec

-----------------------------------------------------------------------------
(* RadixTrie.                                                              *)

(* Paths of a tree: sequences of tokens.                                   *)
LEMMA PrefixIsPart ==
  ASSUME NEW T, NEW p \in Seq(T), NEW q \in Seq(T)
  PROVE  IsPrefix(p, q) <=> Len(p) <= Len(q) /\ \A i \in 1 .. Len(p) : p[i] = q[i]
<1>1. /\ Len(p) \in Nat /\ Len(q) \in Nat
      /\ p \in [1 .. Len(p) -> T] /\ q \in [1 .. Len(q) -> T]
  OBVIOUS
<1>2. SubSeq(p, 1, Len(p)) = [i \in 1 .. Len(p) |-> p[i]]
  BY <1>1
<1>3. SubSeq(q, 1, Len(p)) = [i \in 1 .. Len(p) |-> q[i]]
  BY <1>1
<1> QED
  BY <1>1, <1>2, <1>3 DEF IsPrefix

LEMMA PrefixFacts ==
  ASSUME NEW T, NEW p \in Seq(T), NEW q \in Seq(T), IsPrefix(p, q)
  PROVE  /\ Len(p) <= Len(q)
         /\ Len(p) = Len(q) => p = q
         /\ p = SubSeq(q, 1, Len(p))
<1>1. /\ Len(p) \in Nat /\ Len(q) \in Nat
      /\ p \in [1 .. Len(p) -> T] /\ q \in [1 .. Len(q) -> T]
  OBVIOUS
<1>2. Len(p) <= Len(q) /\ \A i \in 1 .. Len(p) : p[i] = q[i]
  BY PrefixIsPart
<1>3. SubSeq(q, 1, Len(p)) = [i \in 1 .. Len(p) |-> q[i]]
  BY <1>1
<1>4. p = [i \in 1 .. Len(p) |-> q[i]]
  BY <1>1, <1>2
<1>5. ASSUME Len(p) = Len(q) PROVE p = q
  <2>1. q = [i \in 1 .. Len(q) |-> q[i]]
    BY <1>1
  <2> QED
    BY <1>4, <1>5, <2>1
<1> QED
  BY <1>2, <1>3, <1>4, <1>5

LEMMA PrefixIsReflexive ==
  ASSUME NEW T, NEW p \in Seq(T)
  PROVE  IsPrefix(p, p) /\ IsPrefix(<< >>, p)
<1> DEFINE e == << >>
<1>1. e \in Seq(T) /\ Len(e) = 0 /\ Len(p) \in Nat
  OBVIOUS
<1> HIDE DEF e
<1>2. IsPrefix(e, p)
  <2>1. Len(e) <= Len(p) /\ \A i \in 1 .. Len(e) : e[i] = p[i]
    BY <1>1
  <2> QED
    BY <1>1, <2>1, PrefixIsPart
<1>3. IsPrefix(p, p)
  BY <1>1, PrefixIsPart
<1> QED
  BY <1>2, <1>3 DEF e

LEMMA PrefixIsTransitive ==
  ASSUME NEW T, NEW p \in Seq(T), NEW q \in Seq(T), NEW r \in Seq(T),
         IsPrefix(p, q), IsPrefix(q, r)
  PROVE  IsPrefix(p, r)
BY PrefixIsPart

(* Two prefixes of one path are prefixes of each other.                    *)
LEMMA PrefixesAreInLine ==
  ASSUME NEW T, NEW p \in Seq(T), NEW q \in Seq(T), NEW r \in Seq(T),
         IsPrefix(p, r), IsPrefix(q, r), Len(p) <= Len(q)
  PROVE  IsPrefix(p, q)
BY PrefixIsPart

(* The longest of a set of paths, if they are no longer than a bound.      *)
LEMMA LongestIsThere ==
  ASSUME NEW T, NEW S \in SUBSET Seq(T), S # {}, NEW n \in Nat, \A p \in S : Len(p) <= n
  PROVE  Longest(S) \in S /\ \A q \in S : Len(q) <= Len(Longest(S))
<1> DEFINE lengths == {Len(p) : p \in S}
<1>1. lengths \in SUBSET Nat /\ lengths # {} /\ \A k \in lengths : k <= n
  <2>1. \A p \in S : Len(p) \in Nat
    OBVIOUS
  <2> QED
    BY <2>1
<1>2. PICK k \in lengths : \A j \in lengths : j <= k
  <2> HIDE DEF lengths
  <2> QED
    BY <1>1, GreatestNatural
<1>3. \E p \in S : \A q \in S : Len(q) <= Len(p)
  BY <1>2
<1> QED
  BY <1>3 DEF Longest

(* A path that is the longest of a set, and the only one of its length.    *)
LEMMA LongestIs ==
  ASSUME NEW T, NEW S \in SUBSET Seq(T), NEW p \in S, \A q \in S : IsPrefix(q, p)
  PROVE  Longest(S) = p
<1>1. p \in Seq(T) /\ \A q \in S : q \in Seq(T) /\ Len(q) \in Nat
  OBVIOUS
<1>2. \A q \in S : Len(q) <= Len(p) /\ (Len(q) = Len(p) => q = p)
  BY <1>1, PrefixFacts
<1>3. Longest(S) \in S /\ \A q \in S : Len(q) <= Len(Longest(S))
  BY <1>2 DEF Longest
<1>4. Len(Longest(S)) = Len(p)
  BY <1>1, <1>2, <1>3
<1> QED
  BY <1>2, <1>3, <1>4

(* The common part of two paths: a prefix of both, and the longest one.    *)
LEMMA CommonPartIs ==
  ASSUME NEW T, NEW p \in Seq(T), NEW q \in Seq(T)
  PROVE  /\ CommonPart(p, q) \in Seq(T)
         /\ IsPrefix(CommonPart(p, q), p) /\ IsPrefix(CommonPart(p, q), q)
         /\ \/ CommonPart(p, q) = p \/ CommonPart(p, q) = q
            \/ /\ Len(CommonPart(p, q)) < Len(p) /\ Len(CommonPart(p, q)) < Len(q)
               /\ p[Len(CommonPart(p, q)) + 1] # q[Len(CommonPart(p, q)) + 1]
<1> DEFINE Same(k) == k <= Len(q) /\ \A i \in 1 .. k : p[i] = q[i]
           K == {k \in 0 .. Len(p) : Same(k)}
           Ends(k) == k = Len(p) \/ k = Len(q) \/ p[k + 1] # q[k + 1]
           n == CHOOSE k \in 0 .. Len(p) :
                  /\ k <= Len(q) /\ \A i \in 1 .. k : p[i] = q[i]
                  /\ k = Len(p) \/ k = Len(q) \/ p[k + 1] # q[k + 1]
           c == SubSeq(p, 1, n)
<1>0. Len(p) \in Nat /\ Len(q) \in Nat
  OBVIOUS
<1>1. /\ p \in [1 .. Len(p) -> T] /\ q \in [1 .. Len(q) -> T]
  OBVIOUS
<1>2. PICK k \in K : \A j \in K : j <= k
  <2>1. K \in SUBSET Nat /\ 0 \in K /\ \A j \in K : j <= Len(p)
    BY <1>0
  <2> HIDE DEF K
  <2> QED
    BY <1>0, <2>1, GreatestNatural
<1>3. k \in Nat /\ k <= Len(p) /\ k <= Len(q) /\ \A i \in 1 .. k : p[i] = q[i]
  BY <1>0, <1>2
<1>4. Ends(k)
  <2> SUFFICES ASSUME k # Len(p), k # Len(q), p[k + 1] = q[k + 1] PROVE FALSE
    OBVIOUS
  <2>1. k + 1 \in 0 .. Len(p) /\ k + 1 <= Len(q)
    BY <1>0, <1>3
  <2>2. \A i \in 1 .. k + 1 : p[i] = q[i]
    BY <1>3
  <2>3. k + 1 \in K
    BY <2>1, <2>2
  <2> HIDE DEF K
  <2> QED
    BY <1>2, <1>3, <2>3
<1>5. /\ n \in 0 .. Len(p)
      /\ n <= Len(q) /\ \A i \in 1 .. n : p[i] = q[i]
      /\ n = Len(p) \/ n = Len(q) \/ p[n + 1] # q[n + 1]
  <2>1. \E m \in 0 .. Len(p) :
          /\ m <= Len(q) /\ \A i \in 1 .. m : p[i] = q[i]
          /\ m = Len(p) \/ m = Len(q) \/ p[m + 1] # q[m + 1]
    <3>1. k \in 0 .. Len(p)
      BY <1>0, <1>3
    <3> QED
      BY <3>1, <1>3, <1>4
  <2> QED
    BY <2>1
<1>6. CommonPart(p, q) = c
  BY DEF CommonPart
<1> HIDE DEF n
<1>7. n \in Nat /\ n <= Len(p)
  <2>1. n \in 0 .. Len(p)
    BY <1>5
  <2> QED
    BY <2>1, <1>0
<1>8. c \in Seq(T) /\ Len(c) = n /\ \A i \in 1 .. n : c[i] = p[i]
  <2>1. c = [i \in 1 .. n |-> p[i]]
    BY <1>1, <1>7
  <2>2. \A i \in 1 .. n : p[i] \in T
    BY <1>1, <1>7
  <2> QED
    BY <1>7, <2>1, <2>2
<1> HIDE DEF c
<1>9. IsPrefix(c, p) /\ IsPrefix(c, q)
  <2>1. \A i \in 1 .. n : c[i] = q[i]
    BY <1>5, <1>8
  <2> QED
    BY <1>1, <1>5, <1>7, <1>8, <2>1, PrefixIsPart
<1>10. (n = Len(p) => c = p) /\ (n = Len(q) => c = q)
  BY <1>8, <1>9, PrefixFacts
<1>11. \/ c = p \/ c = q
       \/ Len(c) < Len(p) /\ Len(c) < Len(q) /\ p[Len(c) + 1] # q[Len(c) + 1]
  <2>1. n < Len(p) \/ n = Len(p)
    BY <1>0, <1>7
  <2>2. n < Len(q) \/ n = Len(q)
    <3>1. n <= Len(q)
      BY <1>5
    <3> QED
      BY <3>1, <1>0, <1>7
  <2> QED
    BY <1>5, <1>8, <1>10, <2>1, <2>2
<1> QED
  BY <1>6, <1>8, <1>9, <1>11

(* The nodes on the way down along q are its prefixes.                     *)
LEMMA OnTheWayIs ==
  ASSUME NEW T, NEW tree \in SUBSET Seq(T), NEW q \in Seq(T)
  PROVE  /\ OnTheWay(tree, q) \in SUBSET Seq(T)
         /\ << >> \in OnTheWay(tree, q)
         /\ \A p \in OnTheWay(tree, q) : Len(p) <= Len(q)
         /\ Longest(OnTheWay(tree, q)) \in OnTheWay(tree, q)
         /\ \A p \in OnTheWay(tree, q) : Len(p) <= Len(Longest(OnTheWay(tree, q)))
         /\ q \in tree \cup {<< >>} => Longest(OnTheWay(tree, q)) = q
<1>1. << >> \in Seq(T) /\ IsPrefix(<< >>, q) /\ IsPrefix(q, q) /\ Len(q) \in Nat
  BY PrefixIsReflexive
<1>2. OnTheWay(tree, q) \in SUBSET Seq(T) /\ << >> \in OnTheWay(tree, q)
      /\ \A p \in OnTheWay(tree, q) : IsPrefix(p, q)
  BY <1>1 DEF OnTheWay
<1>3. \A p \in OnTheWay(tree, q) : Len(p) <= Len(q)
  BY <1>2, PrefixFacts
<1>4. q \in tree \cup {<< >>} => q \in OnTheWay(tree, q)
  BY <1>1 DEF OnTheWay
<1> QED
  BY <1>1, <1>2, <1>3, <1>4, LongestIsThere, LongestIs

(* A node matches itself.                                                  *)
LEMMA LongestMatchIs ==
  ASSUME NEW T, NEW tree \in SUBSET Seq(T), NEW q \in Seq(T)
  PROVE  /\ \E p \in tree \cup {<< >>} : LongestMatch(tree, q) = CommonPart(p, q)
         /\ LongestMatch(tree, q) \in Seq(T)
         /\ IsPrefix(LongestMatch(tree, q), q)
         /\ \A p \in tree \cup {<< >>} : Len(CommonPart(p, q)) <= Len(LongestMatch(tree, q))
         /\ q \in tree \cup {<< >>} => LongestMatch(tree, q) = q
<1> DEFINE S == {CommonPart(p, q) : p \in tree \cup {<< >>}}
<1>1. << >> \in Seq(T) /\ Len(q) \in Nat
  OBVIOUS
<1>2. \A p \in tree \cup {<< >>} : CommonPart(p, q) \in Seq(T) /\ IsPrefix(CommonPart(p, q), q)
  BY <1>1, CommonPartIs
<1>3. S \in SUBSET Seq(T) /\ S # {} /\ \A c \in S : IsPrefix(c, q)
  BY <1>2
<1>4. \A c \in S : Len(c) <= Len(q)
  BY <1>3, PrefixFacts
<1>5. LongestMatch(tree, q) = Longest(S)
  BY DEF LongestMatch
<1>6. CommonPart(q, q) = q
  BY CommonPartIs
<1>7. q \in tree \cup {<< >>} => q \in S
  BY <1>6
<1>8. Longest(S) \in S /\ \A c \in S : Len(c) <= Len(Longest(S))
  <2> HIDE DEF S
  <2> QED
    BY <1>1, <1>3, <1>4, LongestIsThere
<1>9. q \in S => Longest(S) = q
  <2> HIDE DEF S
  <2> QED
    BY <1>3, LongestIs
<1> QED
  BY <1>3, <1>5, <1>7, <1>8, <1>9

-----------------------------------------------------------------------------
(* RadixTrie.                                                              *)

(* Every node is a path that is not empty, the ids are those below         *)
(* next_id_, each given once, and what insert() answered is what the node  *)
(* of the sequence still has.                                              *)
TrieInv ==
  /\ next_id_ \in Nat \ {0}
  /\ TrieNodes \in SUBSET (Seq(TrieTokens) \ {<< >>})
  /\ IsFiniteSet(TrieNodes) /\ Cardinality(TrieNodes) = next_id_ - 1
  /\ {nodeIds[p] : p \in TrieNodes} = 1 .. next_id_ - 1
  /\ DOMAIN answered \subseteq TrieNodes
  /\ \A p \in DOMAIN answered : answered[p] = nodeIds[p]
  /\ anchors_ \in [TrieKeys -> -1 .. next_id_ - 1]

LEMMA TrieListsAre ==
  TrieLists \subseteq Seq(TrieTokens) \ {<< >>}
<1> SUFFICES ASSUME NEW n \in 1 .. MaxTrieLength, NEW s \in [1 .. n -> TrieTokens]
             PROVE  s \in Seq(TrieTokens) /\ s # << >>
  BY DEF TrieLists
<1>1. n \in Nat /\ 1 \in 1 .. n
  OBVIOUS
<1>2. s \in Seq(TrieTokens) /\ Len(s) = n
  BY <1>1
<1> QED
  BY <1>1, <1>2

LEMMA TrieMatch ==
  ASSUME TrieInv, NEW q \in Seq(TrieTokens)
  PROVE  /\ MatchedNode(q) \in 0 .. next_id_ - 1
         /\ q \in TrieNodes => MatchedNode(q) = nodeIds[q] /\ MatchedLength(q) = Len(q)
         /\ LongestMatch(TrieNodes, q) \in Seq(TrieTokens)
<1> DEFINE p == Longest(OnTheWay(TrieNodes, q))
<1>1. TrieNodes \in SUBSET Seq(TrieTokens) /\ << >> \notin TrieNodes
  BY DEF TrieInv
<1>2. p \in OnTheWay(TrieNodes, q) /\ (q \in TrieNodes => p = q)
  BY <1>1, OnTheWayIs
<1>3. LongestMatch(TrieNodes, q) \in Seq(TrieTokens) /\ (q \in TrieNodes => LongestMatch(TrieNodes, q) = q)
  BY <1>1, LongestMatchIs
<1>4. p \in TrieNodes \cup {<< >>}
  BY <1>2 DEF OnTheWay
<1>5. MatchedNode(q) = IF p = << >> THEN 0 ELSE nodeIds[p]
  BY DEF MatchedNode
<1> HIDE DEF p
<1>6. p # << >> => nodeIds[p] \in 1 .. next_id_ - 1
  BY <1>4 DEF TrieInv
<1>7. next_id_ \in Nat \ {0}
  BY DEF TrieInv
<1> QED
  BY <1>1, <1>2, <1>3, <1>5, <1>6, <1>7 DEF MatchedLength

(* The nodes and ids after an insertion: those before, and one or two new  *)
(* ones with the next ids.                                                 *)
LEMMA TrieInsertAdds ==
  ASSUME TrieInv, NEW tokens \in TrieLists, Insert(tokens)
  PROVE  /\ next_id_' \in Nat \ {0} /\ next_id_' >= next_id_
         /\ TrieNodes' \in SUBSET (Seq(TrieTokens) \ {<< >>})
         /\ IsFiniteSet(TrieNodes') /\ Cardinality(TrieNodes') = next_id_' - 1
         /\ {nodeIds'[p] : p \in TrieNodes'} = 1 .. next_id_' - 1
         /\ tokens \in TrieNodes' /\ TrieNodes \subseteq TrieNodes'
         /\ \A p \in TrieNodes : nodeIds'[p] = nodeIds[p]
<1> DEFINE at == LongestMatch(TrieNodes, tokens)
<1>0. next_id_ \in Nat \ {0}
  BY DEF TrieInv
<1>1. /\ tokens \in Seq(TrieTokens) \ {<< >>}
      /\ next_id_ \in Nat \ {0}
      /\ TrieNodes \in SUBSET (Seq(TrieTokens) \ {<< >>})
      /\ IsFiniteSet(TrieNodes) /\ Cardinality(TrieNodes) = next_id_ - 1
      /\ {nodeIds[p] : p \in TrieNodes} = 1 .. next_id_ - 1
  BY TrieListsAre DEF TrieInv
<1>2. at \in Seq(TrieTokens)
  BY <1>1, TrieMatch
<1>3. next_id_' = next_id_ + Cardinality(TrieNodes') - Cardinality(TrieNodes)
  BY DEF Insert, TrieNodes
<1>4. CASE tokens \in TrieNodes
  <2>1. nodeIds' = nodeIds /\ TrieNodes' = TrieNodes
    BY <1>4 DEF Insert, TrieNodes
  <2>2. next_id_' = next_id_
    BY <1>1, <1>3, <2>1
  <2> QED
    BY <1>1, <1>4, <2>1, <2>2
<1>5. CASE tokens \notin TrieNodes /\ at \in TrieNodes \cup {<< >>}
  <2>1. nodeIds' = [p \in TrieNodes \cup {tokens} |-> IF p = tokens THEN next_id_ ELSE nodeIds[p]]
    BY <1>5 DEF Insert
  <2>2. TrieNodes' = TrieNodes \cup {tokens}
    BY <2>1 DEF TrieNodes
  <2>3. IsFiniteSet(TrieNodes') /\ Cardinality(TrieNodes') = Cardinality(TrieNodes) + 1
    BY <1>1, <1>5, <2>2, FS_AddElement
  <2>4. next_id_' = next_id_ + 1
    BY <1>1, <1>3, <2>3
  <2>5. nodeIds'[tokens] = next_id_ /\ \A p \in TrieNodes : nodeIds'[p] = nodeIds[p]
    BY <1>5, <2>1
  <2>6. {nodeIds'[p] : p \in TrieNodes'} = {nodeIds[p] : p \in TrieNodes} \cup {next_id_}
    BY <2>2, <2>5
  <2>7. {nodeIds'[p] : p \in TrieNodes'} = 1 .. next_id_' - 1
    <3>1. 1 .. next_id_' - 1 = (1 .. next_id_ - 1) \cup {next_id_}
      BY <1>0, <2>4
    <3> QED
      BY <1>1, <2>6, <3>1
  <2>8. Cardinality(TrieNodes') = next_id_' - 1 /\ next_id_' \in Nat \ {0} /\ next_id_' >= next_id_
    BY <1>1, <2>3, <2>4
  <2> QED
    BY <1>1, <2>2, <2>3, <2>5, <2>7, <2>8
<1>6. CASE tokens \notin TrieNodes /\ at \notin TrieNodes \cup {<< >>}
  <2>1. nodeIds' = [p \in TrieNodes \cup {at, tokens} |->
          IF p = at THEN next_id_ ELSE IF p = tokens THEN next_id_ + 1 ELSE nodeIds[p]]
    BY <1>6 DEF Insert, IdsWhenSplit
  <2> HIDE DEF at
  <2>2. TrieNodes' = (TrieNodes \cup {at}) \cup {tokens}
    BY <2>1 DEF TrieNodes
  <2>3. IsFiniteSet(TrieNodes \cup {at}) /\ Cardinality(TrieNodes \cup {at}) = Cardinality(TrieNodes) + 1
    BY <1>1, <1>6, FS_AddElement
  <2>4. nodeIds'[at] = next_id_ /\ \A p \in TrieNodes : nodeIds'[p] = nodeIds[p]
    BY <1>6, <2>1
  <2>5. CASE at = tokens
    <3>1. TrieNodes' = TrieNodes \cup {at}
      BY <2>2, <2>5
    <3>2. next_id_' = next_id_ + 1
      BY <1>1, <1>3, <2>3, <3>1
    <3>3. {nodeIds'[p] : p \in TrieNodes'} = {nodeIds[p] : p \in TrieNodes} \cup {next_id_}
      BY <2>4, <3>1
    <3>4. {nodeIds'[p] : p \in TrieNodes'} = 1 .. next_id_' - 1
      <4>1. 1 .. next_id_' - 1 = (1 .. next_id_ - 1) \cup {next_id_}
        BY <1>0, <3>2
      <4> QED
        BY <1>1, <3>3, <4>1
    <3>5. Cardinality(TrieNodes') = next_id_' - 1 /\ next_id_' \in Nat \ {0} /\ next_id_' >= next_id_
      BY <1>1, <2>3, <3>1, <3>2
    <3> QED
      BY <1>1, <1>2, <1>6, <2>2, <2>3, <2>4, <3>1, <3>4, <3>5
  <2>6. CASE at # tokens
    <3>1. IsFiniteSet(TrieNodes') /\ Cardinality(TrieNodes') = Cardinality(TrieNodes \cup {at}) + 1
      BY <1>6, <2>2, <2>3, <2>6, FS_AddElement
    <3>2. next_id_' = next_id_ + 2
      BY <1>1, <1>3, <2>3, <3>1
    <3>3. nodeIds'[tokens] = next_id_ + 1
      BY <2>1, <2>6
    <3>4. {nodeIds'[p] : p \in TrieNodes'}
            = {nodeIds[p] : p \in TrieNodes} \cup {next_id_, next_id_ + 1}
      BY <2>2, <2>4, <3>3
    <3>5. {nodeIds'[p] : p \in TrieNodes'} = 1 .. next_id_' - 1
      <4>1. 1 .. next_id_' - 1 = (1 .. next_id_ - 1) \cup {next_id_, next_id_ + 1}
        BY <1>0, <3>2
      <4> QED
        BY <1>1, <3>4, <4>1
    <3>6. Cardinality(TrieNodes') = next_id_' - 1 /\ next_id_' \in Nat \ {0} /\ next_id_' >= next_id_
      BY <1>1, <2>3, <3>1, <3>2
    <3> QED
      BY <1>1, <1>2, <1>6, <2>2, <2>4, <3>1, <3>5, <3>6
  <2> QED
    BY <2>5, <2>6
<1> QED
  BY <1>4, <1>5, <1>6

LEMMA TrieInitInv ==
  ASSUME TrieInit
  PROVE  TrieInv
<1>1. TrieNodes = {} /\ DOMAIN answered = {} /\ next_id_ = 1
  BY DEF TrieInit, TrieNodes
<1>2. {nodeIds[p] : p \in TrieNodes} = 1 .. next_id_ - 1
  BY <1>1
<1>3. IsFiniteSet(TrieNodes) /\ Cardinality(TrieNodes) = next_id_ - 1
  BY <1>1, FS_EmptySet
<1>4. anchors_ \in [TrieKeys -> -1 .. next_id_ - 1]
  BY <1>1 DEF TrieInit
<1> QED
  BY <1>1, <1>2, <1>3, <1>4 DEF TrieInv

LEMMA TrieNextInv ==
  ASSUME TrieInv, [TrieNext]_trieVars
  PROVE  TrieInv'
<1>1. ASSUME NEW tokens \in TrieLists, Insert(tokens) PROVE TrieInv'
  <2>1. /\ DOMAIN answered' = DOMAIN answered \cup {tokens}
        /\ \A p \in DOMAIN answered' : answered'[p] = IF p = tokens THEN nodeIds'[p] ELSE answered[p]
    BY <1>1 DEF Insert
  <2>2. DOMAIN answered \subseteq TrieNodes /\ \A p \in DOMAIN answered : answered[p] = nodeIds[p]
    BY DEF TrieInv
  <2>3. DOMAIN answered' \subseteq TrieNodes' /\ \A p \in DOMAIN answered' : answered'[p] = nodeIds'[p]
    BY <1>1, <2>1, <2>2, TrieInsertAdds
  <2>4. next_id_ \in Nat /\ next_id_' \in Nat /\ next_id_' >= next_id_
    BY <1>1, TrieInsertAdds DEF TrieInv
  <2>5. anchors_' = anchors_ /\ anchors_ \in [TrieKeys -> -1 .. next_id_ - 1]
    BY <1>1 DEF Insert, TrieInv
  <2>6. anchors_' \in [TrieKeys -> -1 .. next_id_' - 1]
    BY <2>4, <2>5
  <2> QED
    BY <1>1, <2>3, <2>6, TrieInsertAdds DEF TrieInv
<1>2. ASSUME NEW tokens \in TrieLists, NEW key \in TrieKeys, SetAnchor(key, MatchedNode(tokens))
      PROVE  TrieInv'
  <2>1. MatchedNode(tokens) \in 0 .. next_id_ - 1
    BY TrieListsAre, TrieMatch
  <2>2. anchors_' \in [TrieKeys -> -1 .. next_id_ - 1]
    BY <1>2, <2>1 DEF SetAnchor, TrieInv
  <2> QED
    BY <1>2, <2>2 DEF SetAnchor, TrieInv, TrieNodes
<1>3. ASSUME UNCHANGED trieVars PROVE TrieInv'
  BY <1>3 DEF trieVars, TrieInv, TrieNodes
<1> QED
  BY <1>1, <1>2, <1>3 DEF TrieNext

LEMMA TrieInvImplies ==
  ASSUME TrieInv
  PROVE  IdsKeepTheirSequence
<1>1. \A p \in DOMAIN answered :
        p \in TrieNodes /\ p \in Seq(TrieTokens) /\ answered[p] = nodeIds[p]
  BY DEF TrieInv
<1>2. \A p \in DOMAIN answered : MatchedNode(p) = answered[p] /\ MatchedLength(p) = Len(p)
  BY <1>1, TrieMatch
<1> QED
  BY <1>2 DEF IdsKeepTheirSequence, TrieInv

(* An id that insert() returned names its sequence for ever.               *)
THEOREM TrieIdsKeepTheirSequence ==
  TrieSpec => []IdsKeepTheirSequence
<1>1. TrieInit => TrieInv
  BY TrieInitInv
<1>2. TrieInv /\ [TrieNext]_trieVars => TrieInv'
  BY TrieNextInv
<1>3. TrieInv => IdsKeepTheirSequence
  BY TrieInvImplies
<1> QED
  BY <1>1, <1>2, <1>3, PTL DEF TrieSpec

-----------------------------------------------------------------------------
(* SpectralForest.                                                         *)

(* Below every node, or at it, there is a child of the root.               *)
LEMMA TopBelow ==
  ASSUME NEW T, NEW tree \in SUBSET Seq(T), NEW p \in tree
  PROVE  \E t \in TopNodes(tree) : IsPrefix(t, p)
<1> DEFINE S == {q \in tree : IsPrefix(q, p)}
           lengths == {Len(q) : q \in S}
<1>1. p \in S /\ \A q \in tree : q \in Seq(T) /\ Len(q) \in Nat
  BY PrefixIsReflexive
<1>2. PICK k \in lengths : \A j \in lengths : k <= j
  <2>1. lengths \in SUBSET Nat /\ lengths # {}
    BY <1>1
  <2> HIDE DEF lengths
  <2> QED
    BY <2>1, LeastNatural
<1>3. PICK q \in S : \A r \in S : Len(q) <= Len(r)
  BY <1>2
<1>4. ASSUME NEW r \in tree, IsPrefix(r, q) PROVE r = q
  <2>1. IsPrefix(r, p) /\ Len(r) <= Len(q)
    BY <1>1, <1>4, PrefixIsTransitive, PrefixFacts
  <2>2. Len(q) <= Len(r)
    BY <1>3, <2>1
  <2>3. Len(r) = Len(q)
    BY <1>1, <2>1, <2>2
  <2> QED
    BY <1>1, <1>4, <2>3, PrefixFacts
<1> QED
  BY <1>4 DEF TopNodes

(* The parent of a node: the longest of the nodes that are its prefixes,   *)
(* all of which are prefixes of each other.                                *)
LEMMA ParentIs ==
  ASSUME NEW T, NEW tree \in SUBSET Seq(T), NEW q \in Seq(T) \ {<< >>}
  PROVE  /\ ParentPath(tree, q) \in OnTheWay(tree, q) \ {q}
         /\ \A p \in OnTheWay(tree, q) \ {q} : IsPrefix(p, ParentPath(tree, q))
         /\ ParentPath(tree, q) \in Seq(T)
         /\ Len(ParentPath(tree, q)) < Len(q)
<1> DEFINE S == OnTheWay(tree, q) \ {q}
           r == ParentPath(tree, q)
<1>1. /\ S \in SUBSET Seq(T) /\ << >> \in S
      /\ \A p \in S : Len(p) <= Len(q) /\ p # q /\ IsPrefix(p, q)
  BY OnTheWayIs DEF OnTheWay
<1>2. Len(q) \in Nat /\ \A p \in S : Len(p) \in Nat
  BY <1>1
<1>3. r = Longest(S)
  BY DEF ParentPath
<1> HIDE DEF S, r
<1>4. r \in S /\ \A p \in S : Len(p) <= Len(r)
  BY <1>1, <1>2, <1>3, LongestIsThere
<1>5. \A p \in S : IsPrefix(p, r)
  BY <1>1, <1>4, PrefixesAreInLine
<1>6. Len(r) # Len(q)
  BY <1>1, <1>4, PrefixFacts
<1>7. Len(r) < Len(q)
  BY <1>1, <1>2, <1>4, <1>6
<1> QED
  BY <1>1, <1>4, <1>5, <1>7 DEF S, r

(* A node whose prefixes among the nodes all are prefixes of one of them.  *)
LEMMA ParentIsThis ==
  ASSUME NEW T, NEW tree \in SUBSET Seq(T), NEW q \in Seq(T),
         NEW r \in OnTheWay(tree, q) \ {q},
         \A p \in OnTheWay(tree, q) \ {q} : IsPrefix(p, r)
  PROVE  ParentPath(tree, q) = r
<1>1. OnTheWay(tree, q) \ {q} \in SUBSET Seq(T)
  BY OnTheWayIs
<1> QED
  BY <1>1, LongestIs DEF ParentPath

LEMMA ParentIsRoot ==
  ASSUME NEW tree, NEW q, OnTheWay(tree, q) \ {q} = {<< >>}
  PROVE  ParentPath(tree, q) = << >>
<1>1. Longest({<< >>}) \in {<< >>}
  BY DEF Longest
<1> QED
  BY <1>1 DEF ParentPath

LEMMA ParentIsOnlyOne ==
  ASSUME NEW T, NEW r \in Seq(T), NEW tree, NEW q, OnTheWay(tree, q) \ {q} = {<< >>, r}
  PROVE  ParentPath(tree, q) = r
<1>1. {<< >>, r} \in SUBSET Seq(T) /\ r \in {<< >>, r} /\ \A p \in {<< >>, r} : IsPrefix(p, r)
  BY PrefixIsReflexive
<1>2. Longest({<< >>, r}) = r
  BY <1>1, LongestIs
<1> QED
  BY <1>2 DEF ParentPath

(* The common part of two paths is empty when their first tokens differ,   *)
(* and only then.                                                          *)
LEMMA CommonPartStarts ==
  ASSUME NEW T, NEW p \in Seq(T) \ {<< >>}, NEW q \in Seq(T) \ {<< >>}
  PROVE  CommonPart(p, q) = << >> <=> p[1] # q[1]
<1> DEFINE c == CommonPart(p, q)
<1>1. /\ c \in Seq(T) /\ IsPrefix(c, p) /\ IsPrefix(c, q)
      /\ \/ c = p \/ c = q
         \/ Len(c) < Len(p) /\ Len(c) < Len(q) /\ p[Len(c) + 1] # q[Len(c) + 1]
  BY CommonPartIs
<1> HIDE DEF c
<1>2. CASE c = << >>
  BY <1>1, <1>2 DEF c
<1>3. CASE c # << >>
  <2>1. Len(c) \in Nat \ {0}
    BY <1>1, <1>3
  <2>2. c[1] = p[1] /\ c[1] = q[1]
    BY <1>1, <2>1, PrefixIsPart
  <2> QED
    BY <1>3, <2>2 DEF c
<1> QED
  BY <1>2, <1>3

(* The end of a sequence.                                                  *)
LEMMA EndsWithIs ==
  ASSUME NEW T, NEW s \in Seq(T), NEW t \in Seq(T)
  PROVE  EndsWith(s, t) <=>
           Len(t) <= Len(s) /\ \A i \in 1 .. Len(t) : s[Len(s) - Len(t) + i] = t[i]
<1> DEFINE d == Len(s) - Len(t)
<1>1. Len(s) \in Nat /\ Len(t) \in Nat
  OBVIOUS
<1>2. s \in [1 .. Len(s) -> T] /\ t \in [1 .. Len(t) -> T]
  OBVIOUS
<1>3. ASSUME Len(t) <= Len(s)
      PROVE  SubSeq(s, d + 1, Len(s)) = t <=> \A i \in 1 .. Len(t) : s[d + i] = t[i]
  <2>1. d \in Nat /\ Len(s) = d + Len(t)
    BY <1>1, <1>3
  <2> HIDE DEF d
  <2>2. SubSeq(s, d + 1, Len(s)) = [i \in 1 .. Len(t) |-> s[i + d]]
    BY <1>1, <1>2, <2>1
  <2>3. t = [i \in 1 .. Len(t) |-> t[i]]
    BY <1>2
  <2>4. \A i \in 1 .. Len(t) : i + d = d + i
    BY <1>1, <2>1
  <2> QED
    BY <2>2, <2>3, <2>4
<1> QED
  BY <1>1, <1>3 DEF EndsWith

LEMMA WithoutIs ==
  ASSUME NEW T, NEW r \in Seq(T), NEW p \in Seq(T), Len(r) <= Len(p)
  PROVE  /\ Without(r, p) \in Seq(T)
         /\ Len(Without(r, p)) = Len(p) - Len(r)
         /\ \A i \in 1 .. Len(p) - Len(r) : Without(r, p)[i] = p[Len(r) + i]
<1>1. Len(r) \in Nat /\ Len(p) \in Nat
  OBVIOUS
<1>2. p \in [1 .. Len(p) -> T]
  OBVIOUS
<1> DEFINE k == Len(r) d == Len(p) - Len(r)
<1>3. k \in Nat /\ d \in Nat /\ Len(p) = k + d
  BY <1>1
<1>4. Without(r, p) = SubSeq(p, k + 1, Len(p))
  BY DEF Without
<1> HIDE DEF k, d
<1>5. SubSeq(p, k + 1, Len(p)) = [i \in 1 .. d |-> p[k + i]]
  BY <1>1, <1>2, <1>3
<1>6. \A i \in 1 .. d : p[k + i] \in T
  BY <1>1, <1>2, <1>3
<1>7. Without(r, p) \in Seq(T) /\ Len(Without(r, p)) = d
  BY <1>3, <1>4, <1>5, <1>6
<1> QED
  BY <1>4, <1>5, <1>7 DEF k, d

(* What is left of an end when its first part is taken off is an end.      *)
LEMMA EndOfEnd ==
  ASSUME NEW T, NEW s \in Seq(T), NEW r \in Seq(T), NEW p \in Seq(T),
         EndsWith(s, p), Len(r) <= Len(p)
  PROVE  EndsWith(s, Without(r, p))
<1> DEFINE w == Without(r, p) k == Len(r) a == Len(p) b == Len(s)
<1>1. k \in Nat /\ a \in Nat /\ b \in Nat /\ k <= a
  OBVIOUS
<1>2. w \in Seq(T) /\ Len(w) = a - k /\ \A i \in 1 .. a - k : w[i] = p[k + i]
  BY WithoutIs
<1>3. a <= b /\ \A i \in 1 .. a : s[b - a + i] = p[i]
  BY EndsWithIs
<1> HIDE DEF w, k, a, b
<1>4. Len(w) <= b
  BY <1>1, <1>2, <1>3
<1>5. ASSUME NEW i \in 1 .. Len(w) PROVE s[b - Len(w) + i] = w[i]
  <2>1. i \in 1 .. a - k /\ k + i \in 1 .. a /\ b - Len(w) + i = b - a + (k + i)
    BY <1>1, <1>2
  <2> QED
    BY <1>2, <1>3, <2>1
<1> QED
  BY <1>2, <1>4, <1>5, EndsWithIs DEF w, b

(* What is left of the tokens is an end of them, and no child of the root  *)
(* matches it as a whole.                                                  *)
LEMMA RemainderIs ==
  ASSUME ForestNodes \in SUBSET (Seq(PrefixTokens) \ {<< >>}), NEW tokens \in Seq(PrefixTokens)
  PROVE  /\ Remainder(tokens) \in Seq(PrefixTokens)
         /\ EndsWith(tokens, Remainder(tokens))
         /\ \A t \in TopNodes(ForestNodes) : ~ IsPrefix(t, Remainder(tokens))
<1> DEFINE n == Len(tokens)
           tops == TopNodes(ForestNodes)
           rest(o) == SubSeq(tokens, o + 1, n)
           whole(o) == {p \in tops : IsPrefix(p, rest(o))}
           Stops == {o \in 0 .. n : whole(o) = {}}
           at == [o \in 0 .. n |-> rest(o)]
           next == [o \in 0 .. n |-> o + Len(Longest(whole(o)))]
           V == {r \in Seq(PrefixTokens) : EndsWith(tokens, r) /\ \A t \in tops : ~ IsPrefix(t, r)}
           Peels(f) == f = [o \in 0 .. n |-> IF whole(o) = {} THEN rest(o)
                                             ELSE f[o + Len(Longest(whole(o)))]]
           peel == CHOOSE f : Peels(f)
<1>1. n \in Nat /\ tops \in SUBSET (Seq(PrefixTokens) \ {<< >>})
  BY DEF TopNodes
<1>2. ASSUME NEW o \in 0 .. n
      PROVE  rest(o) \in Seq(PrefixTokens) /\ Len(rest(o)) = n - o /\ EndsWith(tokens, rest(o))
  <2>1. tokens \in [1 .. n -> PrefixTokens]
    OBVIOUS
  <2> DEFINE d == n - o
  <2>2. d \in Nat /\ n = o + d /\ o \in Nat
    BY <1>1
  <2> HIDE DEF d
  <2>3. rest(o) = [i \in 1 .. d |-> tokens[o + i]]
    BY <1>1, <2>1, <2>2
  <2>4. \A i \in 1 .. d : tokens[o + i] \in PrefixTokens
    BY <1>1, <2>1, <2>2
  <2>5. rest(o) \in Seq(PrefixTokens) /\ Len(rest(o)) = d
    BY <2>2, <2>3, <2>4
  <2>6. n - d = o /\ d <= n
    BY <1>1, <2>2
  <2>7. EndsWith(tokens, rest(o))
    BY <2>3, <2>5, <2>6, EndsWithIs
  <2> QED
    BY <2>5, <2>7 DEF d
<1>3. ASSUME NEW o \in 0 .. n, whole(o) # {}
      PROVE  o + Len(Longest(whole(o))) \in o + 1 .. n
  <2>1. whole(o) \in SUBSET Seq(PrefixTokens) /\ \A p \in whole(o) : Len(p) <= Len(rest(o))
    BY <1>1, <1>2, PrefixFacts
  <2>2. n - o \in Nat /\ o \in Nat /\ Len(rest(o)) = n - o
    BY <1>1, <1>2
  <2> DEFINE w == whole(o)
  <2>3. w # {} /\ w \in SUBSET Seq(PrefixTokens) /\ \A p \in w : Len(p) <= n - o
    BY <1>3, <2>1, <2>2
  <2>4. w \in SUBSET tops
    OBVIOUS
  <2> HIDE DEF w
  <2>5. Longest(w) \in w
    BY <2>2, <2>3, LongestIsThere
  <2>6. Longest(w) \in Seq(PrefixTokens) \ {<< >>} /\ Len(Longest(w)) <= n - o
    BY <1>1, <2>3, <2>4, <2>5
  <2>7. Len(Longest(w)) \in Nat \ {0}
    BY <2>6
  <2> QED
    BY <1>1, <2>2, <2>6, <2>7 DEF w
<1>4. JumpsForward(n, V, Stops, at, next)
  <2>1. \A o \in 0 .. n : o \in Stops => at[o] \in V
    BY <1>2
  <2>2. \A o \in 0 .. n : o \notin Stops => next[o] \in o + 1 .. n
    BY <1>3
  <2> QED
    BY <2>1, <2>2 DEF JumpsForward
<1>6. \E f : Peels(f)
  <2>0. n \in Nat
    BY <1>1
  <2> HIDE DEF n, V, Stops, at, next
  <2>1. PICK f \in [0 .. n -> V] : FollowsJumps(f, n, Stops, at, next)
    BY <2>0, <1>4, JumpingFunction
  <2> HIDE DEF rest, whole, tops
  <2>2. \A o \in 0 .. n : f[o] = IF whole(o) = {} THEN rest(o) ELSE f[o + Len(Longest(whole(o)))]
    BY <2>1 DEF Stops, at, next, FollowsJumps
  <2>3. f = [o \in 0 .. n |-> f[o]]
    OBVIOUS
  <2>4. Peels(f)
    BY <2>2, <2>3
  <2> QED
    BY <2>4
<1>7. Remainder(tokens) = peel[0]
  BY DEF Remainder
<1>8. Peels(peel)
  <2> HIDE DEF Peels
  <2> QED
    BY <1>6
<1>9. FollowsJumps(peel, n, Stops, at, next)
  <2> HIDE DEF peel, rest, whole
  <2>1. \A o \in 0 .. n : peel[o] = IF whole(o) = {} THEN rest(o) ELSE peel[o + Len(Longest(whole(o)))]
    BY <1>8
  <2> QED
    BY <2>1 DEF FollowsJumps
<1>10. peel[0] \in V
  <2>0. n \in Nat
    BY <1>1
  <2> HIDE DEF n, V, Stops, at, next, peel
  <2>1. \A o \in 0 .. n : peel[o] \in V
    BY <2>0, <1>4, <1>9, JumpingValue
  <2> QED
    BY <2>0, <2>1
<1> QED
  BY <1>7, <1>10

(* The child of the root that is split: the one with the same first token. *)
LEMMA SplitPointIs ==
  ASSUME ForestNodes \in SUBSET (Seq(PrefixTokens) \ {<< >>}),
         \A p, q \in TopNodes(ForestNodes) : p[1] = q[1] => p = q,
         NEW rest \in Seq(PrefixTokens), rest # << >>,
         \A t \in TopNodes(ForestNodes) : ~ IsPrefix(t, rest)
  PROVE  \/ /\ SplitPoint(rest) = << >>
            /\ \A t \in TopNodes(ForestNodes) : t[1] # rest[1]
         \/ /\ SplitPoint(rest) # << >> /\ SplitPoint(rest) \in Seq(PrefixTokens)
            /\ IsPrefix(SplitPoint(rest), rest)
            /\ \E t \in TopNodes(ForestNodes) :
                 /\ IsPrefix(SplitPoint(rest), t) /\ Len(SplitPoint(rest)) < Len(t)
                 /\ t[1] = rest[1]
                 /\ \/ SplitPoint(rest) = rest
                    \/ /\ Len(SplitPoint(rest)) < Len(rest)
                       /\ t[Len(SplitPoint(rest)) + 1] # rest[Len(SplitPoint(rest)) + 1]
<1> DEFINE tops == TopNodes(ForestNodes)
           s == SplitPoint(rest)
<1>1. tops \in SUBSET Seq(PrefixTokens) /\ << >> \in Seq(PrefixTokens) /\ << >> \notin tops
  BY DEF TopNodes
<1>0. s = LongestMatch(tops, rest)
  BY DEF SplitPoint
<1> HIDE DEF s, tops
<1>2. PICK t \in tops \cup {<< >>} : s = CommonPart(t, rest)
  <2>1. \E p \in tops \cup {<< >>} : LongestMatch(tops, rest) = CommonPart(p, rest)
    <3>1. ASSUME NEW tree \in SUBSET Seq(PrefixTokens)
          PROVE  \E p \in tree \cup {<< >>} : LongestMatch(tree, rest) = CommonPart(p, rest)
      BY LongestMatchIs
    <3> QED
      BY <1>1, <3>1
  <2> QED
    BY <1>0, <2>1
<1>3. /\ s \in Seq(PrefixTokens) /\ IsPrefix(s, rest)
      /\ \A p \in tops \cup {<< >>} : Len(CommonPart(p, rest)) <= Len(s)
  BY <1>1, <1>0, LongestMatchIs
<1>4. /\ t \in Seq(PrefixTokens) /\ IsPrefix(s, t)
      /\ \/ s = t \/ s = rest
         \/ Len(s) < Len(t) /\ Len(s) < Len(rest) /\ t[Len(s) + 1] # rest[Len(s) + 1]
  <2>1. t \in Seq(PrefixTokens)
    BY <1>1
  <2> QED
    BY <1>2, <2>1, CommonPartIs
<1>5. CASE s = << >>
  <2>1. ASSUME NEW p \in tops PROVE p[1] # rest[1]
    <3>1. CommonPart(p, rest) \in Seq(PrefixTokens) /\ Len(CommonPart(p, rest)) <= 0
      BY <1>1, <1>3, <1>5, CommonPartIs
    <3>2. CommonPart(p, rest) = << >>
      BY <3>1
    <3> QED
      BY <1>1, <3>2, CommonPartStarts
  <2> QED
    BY <1>5, <2>1 DEF s, tops
<1>6. CASE s # << >>
  <2>1. Len(s) \in Nat \ {0} /\ Len(t) \in Nat /\ Len(rest) \in Nat
    BY <1>3, <1>4, <1>6
  <2>2. t # << >>
    BY <1>4, <2>1, PrefixFacts
  <2>3. t \in tops /\ s # t
    BY <1>2, <1>3, <2>2 DEF tops
  <2>4. Len(s) < Len(t)
    BY <1>3, <1>4, <2>1, <2>3, PrefixFacts
  <2>5. t[1] = rest[1]
    <3>1. s[1] = t[1] /\ s[1] = rest[1]
      BY <1>3, <1>4, <2>1, PrefixIsPart
    <3> QED
      BY <3>1
  <2> QED
    BY <1>3, <1>4, <1>6, <2>3, <2>4, <2>5 DEF s, tops
<1> QED
  BY <1>5, <1>6

(* A new child of the root whose first token no other has.                 *)
StartsAlone(tree, rest) == \A t \in TopNodes(tree) : t[1] # rest[1]

IsLeaf(tree, rest) ==
  /\ rest \notin tree
  /\ \A q \in tree : ParentPath(tree \cup {rest}, q) = ParentPath(tree, q)
  /\ ParentPath(tree \cup {rest}, rest) = << >>
  /\ TopNodes(tree \cup {rest}) = TopNodes(tree) \cup {rest}

LEMMA NewLeaf ==
  ASSUME NEW T, NEW tree \in SUBSET (Seq(T) \ {<< >>}), NEW rest \in Seq(T) \ {<< >>},
         StartsAlone(tree, rest)
  PROVE  IsLeaf(tree, rest)
<1> DEFINE tree2 == tree \cup {rest}
<1>1. tree \in SUBSET Seq(T) /\ tree2 \in SUBSET Seq(T) /\ << >> \in Seq(T) /\ rest \in Seq(T)
  OBVIOUS
<1>2. ASSUME NEW a \in Seq(T) \ {<< >>}, NEW b \in Seq(T), IsPrefix(a, b)
      PROVE  a[1] = b[1]
  <2>1. Len(a) \in Nat \ {0}
    OBVIOUS
  <2> QED
    BY <1>2, <2>1, PrefixIsPart
<1>3. ASSUME NEW q \in tree PROVE q[1] # rest[1]
  <2>1. PICK t \in TopNodes(tree) : IsPrefix(t, q)
    BY <1>1, TopBelow
  <2>2. t \in tree
    BY DEF TopNodes
  <2> QED
    BY <1>2, <2>1, <2>2 DEF StartsAlone
<1>4. rest \notin tree /\ \A q \in tree : ~ IsPrefix(rest, q) /\ ~ IsPrefix(q, rest)
  BY <1>2, <1>3
<1>5. ASSUME NEW q \in tree PROVE ParentPath(tree2, q) = ParentPath(tree, q)
  <2>1. OnTheWay(tree2, q) = OnTheWay(tree, q)
    BY <1>4 DEF OnTheWay
  <2> QED
    BY <2>1 DEF ParentPath
<1>6. ParentPath(tree2, rest) = << >>
  <2>1. OnTheWay(tree2, rest) \ {rest} = {<< >>}
    BY <1>1, <1>4, PrefixIsReflexive DEF OnTheWay
  <2> QED
    BY <2>1, ParentIsRoot
<1>7. TopNodes(tree2) = TopNodes(tree) \cup {rest}
  BY <1>1, <1>4, PrefixIsReflexive DEF TopNodes
<1> QED
  BY <1>4, <1>5, <1>6, <1>7 DEF IsLeaf

(* The child p of the root is split at a part that it has in common with   *)
(* rest.                                                                   *)
SplitsAt(tree, p, split, rest) ==
  /\ p \in TopNodes(tree)
  /\ \A t, u \in TopNodes(tree) : t[1] = u[1] => t = u
  /\ \A t \in TopNodes(tree) : ~ IsPrefix(t, rest)
  /\ split # << >> /\ IsPrefix(split, p) /\ IsPrefix(split, rest) /\ Len(split) < Len(p)
  /\ split = rest \/ (Len(split) < Len(rest) /\ p[Len(split) + 1] # rest[Len(split) + 1])

WithSplit(tree, split, rest) == tree \cup {split, rest}

IsSplit(tree, p, split, rest) ==
  /\ split \notin tree /\ rest \notin tree /\ p \in tree
  /\ ParentPath(tree, p) = << >>
  /\ \A q \in tree \ {p} : ParentPath(WithSplit(tree, split, rest), q) = ParentPath(tree, q)
  /\ ParentPath(WithSplit(tree, split, rest), p) = split
  /\ ParentPath(WithSplit(tree, split, rest), split) = << >>
  /\ rest # split => ParentPath(WithSplit(tree, split, rest), rest) = split
  /\ TopNodes(WithSplit(tree, split, rest)) = (TopNodes(tree) \ {p}) \cup {split}

LEMMA SplitNode ==
  ASSUME NEW T, NEW tree \in SUBSET (Seq(T) \ {<< >>}), NEW p,
         NEW split \in Seq(T), NEW rest \in Seq(T), SplitsAt(tree, p, split, rest)
  PROVE  IsSplit(tree, p, split, rest)
<1> USE DEF SplitsAt, WithSplit
<1> DEFINE tree2 == WithSplit(tree, split, rest)
<1>1. /\ tree \in SUBSET Seq(T) /\ tree2 \in SUBSET Seq(T) /\ << >> \in Seq(T)
      /\ << >> \notin tree2 /\ p \in tree /\ p \in Seq(T)
  <2>1. rest # << >>
    <3>1. Len(split) \in Nat \ {0} /\ Len(split) <= Len(rest)
      BY PrefixFacts
    <3> QED
      BY <3>1
  <2> QED
    BY <2>1 DEF TopNodes
<1>2. ASSUME NEW a \in Seq(T) \ {<< >>}, NEW b \in Seq(T), IsPrefix(a, b)
      PROVE  a[1] = b[1]
  <2>1. Len(a) \in Nat \ {0}
    OBVIOUS
  <2> QED
    BY <1>2, <2>1, PrefixIsPart
<1>3. ASSUME NEW q \in tree PROVE ~ IsPrefix(q, rest) /\ ~ IsPrefix(q, split)
  <2>1. PICK t \in TopNodes(tree) : IsPrefix(t, q)
    BY <1>1, TopBelow
  <2>2. t \in Seq(T) /\ q \in Seq(T)
    BY <1>1 DEF TopNodes
  <2>3. ~ IsPrefix(q, rest)
    BY <2>1, <2>2, PrefixIsTransitive
  <2> QED
    BY <2>2, <2>3, PrefixIsTransitive
<1>4. split \notin tree /\ rest \notin tree
  BY <1>3, PrefixIsReflexive
<1>5. ASSUME NEW q \in tree, IsPrefix(split, q) PROVE IsPrefix(p, q)
  <2>1. PICK t \in TopNodes(tree) : IsPrefix(t, q)
    BY <1>1, TopBelow
  <2>2. t \in Seq(T) \ {<< >>} /\ q \in Seq(T)
    BY <1>1 DEF TopNodes
  <2>3. t[1] = q[1] /\ split[1] = q[1] /\ split[1] = p[1]
    BY <1>1, <1>2, <1>5, <2>1, <2>2
  <2> QED
    BY <2>1, <2>3
<1>6. ASSUME NEW q \in tree, rest # split PROVE ~ IsPrefix(rest, q)
  <2> SUFFICES ASSUME IsPrefix(rest, q) PROVE FALSE
    OBVIOUS
  <2> DEFINE k == Len(split) + 1
  <2>1. q \in Seq(T) /\ IsPrefix(split, q)
    BY <1>1, PrefixIsTransitive
  <2>2. IsPrefix(p, q)
    BY <1>5, <2>1
  <2>3. k \in 1 .. Len(p) /\ k \in 1 .. Len(rest)
    BY <1>1, <1>6
  <2>4. p[k] # rest[k]
    BY <1>6
  <2> HIDE DEF k
  <2>5. p[k] = q[k] /\ rest[k] = q[k]
    BY <1>1, <2>1, <2>2, <2>3, PrefixIsPart
  <2> QED
    BY <2>4, <2>5
<1>7. \A q \in tree : OnTheWay(tree2, q)
                       = OnTheWay(tree, q) \cup (IF IsPrefix(split, q) THEN {split} ELSE {})
  BY <1>6 DEF OnTheWay
<1>8. OnTheWay(tree, p) \ {p} = {<< >>}
  <2>1. \A q \in tree : IsPrefix(q, p) => q = p
    BY DEF TopNodes
  <2> QED
    BY <1>1, <2>1, PrefixIsReflexive DEF OnTheWay
<1>9. ParentPath(tree, p) = << >>
  BY <1>8, ParentIsRoot
<1>10. ASSUME NEW q \in tree \ {p} PROVE ParentPath(tree2, q) = ParentPath(tree, q)
  <2>1. CASE ~ IsPrefix(split, q)
    <3>1. OnTheWay(tree2, q) = OnTheWay(tree, q)
      BY <1>7, <2>1
    <3> QED
      BY <3>1 DEF ParentPath
  <2>2. CASE IsPrefix(split, q)
    <3> DEFINE r == ParentPath(tree, q)
    <3>1. /\ q \in Seq(T) \ {<< >>} /\ IsPrefix(p, q) /\ q # split
          /\ OnTheWay(tree2, q) = OnTheWay(tree, q) \cup {split}
      BY <1>1, <1>4, <1>5, <1>7, <2>2
    <3>2. p \in OnTheWay(tree, q) \ {q}
      BY <1>1, <3>1 DEF OnTheWay
    <3>3. r \in Seq(T) /\ r \in OnTheWay(tree, q) \ {q}
          /\ \A x \in OnTheWay(tree, q) \ {q} : IsPrefix(x, r)
      BY <1>1, <3>1, ParentIs
    <3> HIDE DEF r
    <3>4. IsPrefix(split, r)
      BY <1>1, <3>2, <3>3, PrefixIsTransitive
    <3>5. r \in OnTheWay(tree2, q) \ {q} /\ \A x \in OnTheWay(tree2, q) \ {q} : IsPrefix(x, r)
      BY <3>1, <3>3, <3>4
    <3>6. tree2 \in SUBSET Seq(T) /\ q \in Seq(T)
      BY <1>1
    <3> HIDE DEF tree2, SplitsAt, WithSplit
    <3>7. ParentPath(tree2, q) = r
      BY <3>5, <3>6, ParentIsThis
    <3> QED
      BY <3>7 DEF r
  <2> QED
    BY <2>1, <2>2
<1>11. ParentPath(tree2, p) = split
  <2>1. split # p
    BY <1>1, <1>4
  <2>2. OnTheWay(tree2, p) \ {p} = {<< >>, split}
    BY <1>1, <1>7, <1>8, <2>1
  <2> QED
    BY <2>2, ParentIsOnlyOne
<1>12. ASSUME rest # split PROVE ~ IsPrefix(rest, split)
  <2>1. Len(split) < Len(rest) /\ Len(split) \in Nat /\ Len(rest) \in Nat
    BY <1>12
  <2> QED
    BY <2>1, PrefixFacts
<1>13. ParentPath(tree2, split) = << >>
  <2>1. OnTheWay(tree2, split) \ {split} = {<< >>}
    BY <1>1, <1>3, <1>12, PrefixIsReflexive DEF OnTheWay
  <2> QED
    BY <2>1, ParentIsRoot
<1>14. ASSUME rest # split PROVE ParentPath(tree2, rest) = split
  <2>1. OnTheWay(tree2, rest) \ {rest} = {<< >>, split}
    BY <1>1, <1>3, <1>14, PrefixIsReflexive DEF OnTheWay
  <2> QED
    BY <2>1, ParentIsOnlyOne
<1>15. TopNodes(tree2) = (TopNodes(tree) \ {p}) \cup {split}
  <2>1. p \notin TopNodes(tree2) /\ (rest # split => rest \notin TopNodes(tree2))
    BY <1>1, <1>4 DEF TopNodes
  <2>2. split \in TopNodes(tree2)
    BY <1>3, <1>12 DEF TopNodes
  <2>3. ASSUME NEW q \in tree \ {p} PROVE q \in TopNodes(tree2) <=> q \in TopNodes(tree)
    <3>1. CASE q \in TopNodes(tree)
      <4>1. ~ IsPrefix(p, q)
        BY <1>1, <3>1 DEF TopNodes
      <4>2. ~ IsPrefix(split, q) /\ ~ IsPrefix(rest, q)
        BY <1>5, <1>6, <4>1
      <4> QED
        BY <3>1, <4>2 DEF TopNodes
    <3>2. CASE q \notin TopNodes(tree)
      BY <3>2 DEF TopNodes
    <3> QED
      BY <3>1, <3>2
  <2>4. TopNodes(tree2) \subseteq tree2 /\ TopNodes(tree) \subseteq tree
    BY DEF TopNodes
  <2> QED
    BY <1>4, <2>1, <2>2, <2>3, <2>4
<1> QED
  BY <1>1, <1>4, <1>9, <1>10, <1>11, <1>13, <1>14, <1>15 DEF IsSplit

(* The rows of the nodes of a tree, and those of one node from a length on.*)
RowsFrom(p, a, b) == {p} \X (a + 1 .. b)

RowsOf(tree) == UNION {RowsFrom(p, Len(ParentPath(tree, p)), Len(p)) : p \in tree}

LEMMA RowsAre ==
  ASSUME NEW tree, NEW row
  PROVE  row \in RowsOf(tree) <=>
           \E p \in tree : row \in RowsFrom(p, Len(ParentPath(tree, p)), Len(p))
BY DEF RowsOf

LEMMA RowsFromAre ==
  ASSUME NEW p, NEW a \in Nat, NEW b \in Nat, a <= b
  PROVE  /\ IsFiniteSet(RowsFrom(p, a, b))
         /\ Cardinality(RowsFrom(p, a, b)) = b - a
         /\ \A row \in RowsFrom(p, a, b) : row[1] = p
         /\ \A c \in a .. b : /\ RowsFrom(p, a, b) \ RowsFrom(p, a, c) = RowsFrom(p, c, b)
                              /\ RowsFrom(p, a, c) \subseteq RowsFrom(p, a, b)
<1>1. IsFiniteSet(a + 1 .. b) /\ Cardinality(a + 1 .. b) = b - a
  <2>1. a + 1 \in Int /\ b \in Int
    OBVIOUS
  <2>2. IsFiniteSet(a + 1 .. b) /\ Cardinality(a + 1 .. b) = IF a + 1 > b THEN 0 ELSE b - (a + 1) + 1
    BY <2>1, FS_Interval
  <2> QED
    BY <2>2
<1>2. IsFiniteSet({p}) /\ Cardinality({p}) = 1
  BY FS_Singleton
<1>3. /\ IsFiniteSet({p} \X (a + 1 .. b))
      /\ Cardinality({p} \X (a + 1 .. b)) = Cardinality({p}) * Cardinality(a + 1 .. b)
  BY <1>1, <1>2, FS_Product
<1>4. b - a \in Nat
  OBVIOUS
<1>5. \A c \in a .. b : (a + 1 .. b) \ (a + 1 .. c) = c + 1 .. b /\ a + 1 .. c \subseteq a + 1 .. b
  OBVIOUS
<1>6. \A c \in a .. b : RowsFrom(p, a, b) \ RowsFrom(p, a, c) = {p} \X ((a + 1 .. b) \ (a + 1 .. c))
  BY DEF RowsFrom
<1>7. \A c \in a .. b : RowsFrom(p, a, b) \ RowsFrom(p, a, c) = RowsFrom(p, c, b)
  BY <1>5, <1>6 DEF RowsFrom
<1>8. \A c \in a .. b : RowsFrom(p, a, c) \subseteq RowsFrom(p, a, b)
  BY <1>5 DEF RowsFrom
<1> QED
  BY <1>1, <1>2, <1>3, <1>4, <1>7, <1>8 DEF RowsFrom

LEMMA RowsFromStart ==
  ASSUME NEW p, NEW b \in Nat
  PROVE  /\ IsFiniteSet(RowsFrom(p, 0, b))
         /\ Cardinality(RowsFrom(p, 0, b)) = b
         /\ \A row \in RowsFrom(p, 0, b) : row[1] = p
<1> DEFINE a == 0
<1>1. a \in Nat /\ a <= b /\ b - a = b
  OBVIOUS
<1> HIDE DEF a
<1>2. /\ IsFiniteSet(RowsFrom(p, a, b))
      /\ Cardinality(RowsFrom(p, a, b)) = b - a
      /\ \A row \in RowsFrom(p, a, b) : row[1] = p
  BY <1>1, RowsFromAre
<1> QED
  BY <1>1, <1>2 DEF a

LEMMA CountOfTwo ==
  ASSUME NEW S, IsFiniteSet(S), NEW R, IsFiniteSet(R), \A x \in R : x \notin S
  PROVE  IsFiniteSet(S \cup R) /\ Cardinality(S \cup R) = Cardinality(S) + Cardinality(R)
<1>1. S \cap R = {}
  OBVIOUS
<1>2. /\ IsFiniteSet(S \cup R)
      /\ Cardinality(S \cup R) = Cardinality(S) + Cardinality(R) - Cardinality(S \cap R)
  BY FS_Union
<1>3. Cardinality(S) \in Nat /\ Cardinality(R) \in Nat /\ Cardinality({}) = 0
  BY FS_CardinalityType, FS_EmptySet
<1>4. Cardinality(S \cap R) = 0
  BY <1>1, <1>3
<1> QED
  BY <1>2, <1>3, <1>4

LEMMA CountOfRest ==
  ASSUME NEW S, IsFiniteSet(S), NEW R \in SUBSET S
  PROVE  IsFiniteSet(S \ R) /\ Cardinality(S \ R) = Cardinality(S) - Cardinality(R)
<1>1. S \cap R = R
  OBVIOUS
<1> QED
  BY <1>1, FS_Difference

LEMMA RowsOfLeaf ==
  ASSUME NEW T, NEW tree \in SUBSET (Seq(T) \ {<< >>}), NEW rest \in Seq(T) \ {<< >>},
         StartsAlone(tree, rest), IsFiniteSet(RowsOf(tree))
  PROVE  /\ IsFiniteSet(RowsOf(tree \cup {rest}))
         /\ Cardinality(RowsOf(tree \cup {rest})) = Cardinality(RowsOf(tree)) + Len(rest)
<1>1. /\ rest \notin tree
      /\ \A q \in tree : ParentPath(tree \cup {rest}, q) = ParentPath(tree, q)
      /\ ParentPath(tree \cup {rest}, rest) = << >>
  <2>1. IsLeaf(tree, rest)
    BY NewLeaf
  <2> QED
    BY <2>1 DEF IsLeaf
<1>2. Len(rest) \in Nat /\ 0 <= Len(rest) /\ 0 \in Nat /\ Len(<< >>) = 0
  OBVIOUS
<1> DEFINE tree2 == tree \cup {rest}
           R == RowsFrom(rest, 0, Len(rest))
           old == RowsOf(tree)
<1>3. IsFiniteSet(R) /\ Cardinality(R) = Len(rest) /\ \A row \in R : row[1] = rest
  BY <1>2, RowsFromStart
<1>4. RowsOf(tree2) = old \cup R
  BY <1>1, <1>2, RowsAre
<1>5. \A row \in R : row \notin old
  <2> SUFFICES ASSUME NEW row \in R, row \in old PROVE FALSE
    OBVIOUS
  <2>1. PICK p \in tree : row \in RowsFrom(p, Len(ParentPath(tree, p)), Len(p))
    BY RowsAre
  <2>2. row[1] = p
    BY <2>1 DEF RowsFrom
  <2> QED
    BY <1>1, <1>3, <2>2
<1> HIDE DEF R, old
<1>6. Cardinality(old \cup R) = Cardinality(old) + Cardinality(R) /\ IsFiniteSet(old \cup R)
  <2>1. IsFiniteSet(old)
    BY DEF old
  <2> QED
    BY <1>3, <1>5, <2>1, CountOfTwo
<1> QED
  BY <1>3, <1>4, <1>6 DEF old

(* The head takes over the first rows of the node that is split.           *)
LEMMA RowsOfSplit ==
  ASSUME NEW T, NEW tree \in SUBSET (Seq(T) \ {<< >>}), NEW p,
         NEW split \in Seq(T), NEW rest \in Seq(T), SplitsAt(tree, p, split, rest),
         IsFiniteSet(RowsOf(tree))
  PROVE  /\ IsFiniteSet(RowsOf(WithSplit(tree, split, rest)))
         /\ Cardinality(RowsOf(WithSplit(tree, split, rest)))
              = Cardinality(RowsOf(tree)) + (Len(rest) - Len(split))
<1>1. /\ split \notin tree /\ rest \notin tree /\ p \in tree
      /\ ParentPath(tree, p) = << >>
      /\ \A q \in tree \ {p} : ParentPath(WithSplit(tree, split, rest), q) = ParentPath(tree, q)
      /\ ParentPath(WithSplit(tree, split, rest), p) = split
      /\ ParentPath(WithSplit(tree, split, rest), split) = << >>
      /\ rest # split => ParentPath(WithSplit(tree, split, rest), rest) = split
  <2>1. IsSplit(tree, p, split, rest)
    BY SplitNode
  <2> QED
    BY <2>1 DEF IsSplit
<1> DEFINE tree2 == WithSplit(tree, split, rest)
           s == Len(split)
           A == RowsFrom(p, 0, s)
           B == RowsFrom(split, 0, s)
           C == RowsFrom(rest, s, Len(rest))
           old == RowsOf(tree)
           new == RowsOf(tree2)
<1>0. tree2 = tree \cup {split, rest}
  BY DEF WithSplit
<1>2. s \in Nat /\ Len(rest) \in Nat /\ Len(p) \in Nat /\ s <= Len(rest) /\ s < Len(p) /\ Len(<< >>) = 0
  <2>1. p \in Seq(T) /\ IsPrefix(split, rest)
    BY <1>1 DEF SplitsAt
  <2>2. s <= Len(rest) /\ s < Len(p)
    BY <2>1, PrefixFacts DEF SplitsAt
  <2> QED
    BY <2>1, <2>2
<1>3. 0 \in Nat /\ 0 <= s /\ 0 <= Len(p) /\ s \in 0 .. Len(p)
  BY <1>2
<1>4. /\ IsFiniteSet(A) /\ Cardinality(A) = s
      /\ IsFiniteSet(B) /\ Cardinality(B) = s /\ \A row \in B : row[1] = split
      /\ IsFiniteSet(C) /\ Cardinality(C) = Len(rest) - s /\ \A row \in C : row[1] = rest
  <2>1. IsFiniteSet(A) /\ Cardinality(A) = s
    BY <1>2, RowsFromStart
  <2>2. IsFiniteSet(B) /\ Cardinality(B) = s /\ \A row \in B : row[1] = split
    BY <1>2, RowsFromStart
  <2>3. IsFiniteSet(C) /\ Cardinality(C) = Len(rest) - s /\ \A row \in C : row[1] = rest
    BY <1>2, RowsFromAre
  <2> HIDE DEF A, B, C, s
  <2> QED
    BY <2>1, <2>2, <2>3
<1>5. RowsFrom(p, 0, Len(p)) \ A = RowsFrom(p, s, Len(p)) /\ A \subseteq RowsFrom(p, 0, Len(p))
  BY <1>2, <1>3, RowsFromAre
<1>6. \A q \in tree : \A row \in RowsFrom(q, Len(ParentPath(tree, q)), Len(q)) : row[1] = q
  BY DEF RowsFrom
<1>7. \A row \in A : row[1] = p
  BY DEF RowsFrom
<1>8. rest = split => C = {}
  BY <1>2 DEF RowsFrom
<1>9. A \in SUBSET old
  BY <1>1, <1>2, <1>5, RowsAre
<1>10. ASSUME NEW row PROVE row \in new <=> row \in (old \ A) \cup (B \cup C)
  <2> DEFINE Of(q) == row \in RowsFrom(q, Len(ParentPath(tree, q)), Len(q))
             Of2(q) == row \in RowsFrom(q, Len(ParentPath(tree2, q)), Len(q))
  <2>1. (row \in old <=> \E q \in tree : Of(q)) /\ (row \in new <=> \E q \in tree2 : Of2(q))
    BY RowsAre
  <2>2. \A q \in tree \ {p} : Of2(q) <=> Of(q)
    BY <1>1
  <2>3. (Of2(split) <=> row \in B) /\ (rest # split => (Of2(rest) <=> row \in C))
    BY <1>1, <1>2
  <2>4. Of2(p) <=> Of(p) /\ row \notin A
    BY <1>1, <1>2, <1>5
  <2>5. \A q \in tree \ {p} : Of(q) => row \notin A
    BY <1>6, <1>7
  <2> HIDE DEF Of, Of2, A, B, C, old, new
  <2>6. row \in old \ A <=> \E q \in tree : Of2(q)
    BY <1>1, <2>1, <2>2, <2>4, <2>5
  <2>7. row \in B \cup C <=> Of2(split) \/ Of2(rest)
    BY <1>8, <2>3
  <2> QED
    BY <1>0, <2>1, <2>6, <2>7
<1>11. new = (old \ A) \cup (B \cup C)
  <2> HIDE DEF old, new, A, B, C
  <2> QED
    BY <1>10
<1>12. \A row \in C : row \notin B
  BY <1>4, <1>8
<1>13. \A row \in B \cup C : row \notin old \ A
  <2> SUFFICES ASSUME NEW row \in B \cup C, row \in old PROVE FALSE
    OBVIOUS
  <2>1. PICK q \in tree : row \in RowsFrom(q, Len(ParentPath(tree, q)), Len(q))
    BY RowsAre
  <2>2. row[1] = q
    BY <1>6, <2>1
  <2> QED
    BY <1>1, <1>4, <2>2
<1>14. IsFiniteSet(old)
  OBVIOUS
<1>15. Cardinality(old) \in Nat
  BY <1>14, FS_CardinalityType
<1>19. s \in Nat /\ Len(rest) \in Nat
  BY <1>2
<1> HIDE DEF A, B, C, old, new, s
<1>16. IsFiniteSet(B \cup C) /\ Cardinality(B \cup C) = s + (Len(rest) - s)
  BY <1>4, <1>12, CountOfTwo
<1>17. IsFiniteSet(old \ A) /\ Cardinality(old \ A) = Cardinality(old) - s
  BY <1>4, <1>9, <1>14, CountOfRest
<1>18. IsFiniteSet(new)
       /\ Cardinality(new) = (Cardinality(old) - s) + (s + (Len(rest) - s))
  BY <1>11, <1>13, <1>16, <1>17, CountOfTwo
<1> QED
  BY <1>19, <1>15, <1>18 DEF old, new, s

(* The nodes are paths that are not empty; the children of the root start  *)
(* with different tokens, so that at most one can match and be split; and  *)
(* the rows of a node end with the tokens of its edge.                     *)
ForestInv ==
  /\ ForestNodes \in SUBSET (Seq(PrefixTokens) \ {<< >>})
  /\ \A p \in ForestNodes : contexts[p] \in Seq(PrefixTokens)
  /\ \A t, u \in TopNodes(ForestNodes) : t[1] = u[1] => t = u
  /\ \A p \in ForestNodes : EndsWith(contexts[p], Without(ParentPath(ForestNodes, p), p))
  /\ IsFiniteSet(RowsHeld) /\ cachedTokens = Cardinality(RowsHeld)
  /\ anchorRegistry \in [AnchorTags -> ForestNodes \cup {<< >>}]

LEMMA PrefixListsAre ==
  PrefixLists \subseteq Seq(PrefixTokens)
<1> SUFFICES ASSUME NEW n \in 1 .. MaxPrefix, NEW s \in [1 .. n -> PrefixTokens]
             PROVE  s \in Seq(PrefixTokens)
  BY DEF PrefixLists
<1>1. n \in Nat
  OBVIOUS
<1> QED
  BY <1>1

LEMMA RowsHeldAre ==
  RowsHeld = RowsOf(ForestNodes)
BY DEF RowsHeld, RowsOf, RowsFrom

LEMMA WithoutNothing ==
  ASSUME NEW T, NEW p \in Seq(T)
  PROVE  Without(<< >>, p) = p
<1> DEFINE e == << >> w == Without(e, p)
<1>1. e \in Seq(T) /\ Len(e) = 0 /\ Len(p) \in Nat
  OBVIOUS
<1> HIDE DEF e
<1>2. Len(e) <= Len(p)
  BY <1>1
<1>3. w \in Seq(T) /\ Len(w) = Len(p) - Len(e) /\ \A i \in 1 .. Len(p) - Len(e) : w[i] = p[Len(e) + i]
  BY <1>1, <1>2, WithoutIs
<1>4. Len(p) - Len(e) = Len(p) /\ \A i \in 1 .. Len(p) : Len(e) + i = i
  BY <1>1
<1>5. Len(w) = Len(p) /\ \A i \in 1 .. Len(p) : w[i] = p[i]
  BY <1>3, <1>4
<1>6. IsPrefix(w, p)
  BY <1>1, <1>3, <1>5, PrefixIsPart
<1>7. w = p
  BY <1>3, <1>5, <1>6, PrefixFacts
<1> QED
  BY <1>7 DEF e

(* The head of a node that is split keeps the rows that were computed for  *)
(* its tokens.                                                             *)
LEMMA HeadKeepsItsRows ==
  ASSUME NEW T, NEW s \in Seq(T), NEW p \in Seq(T), NEW h \in Seq(T),
         EndsWith(s, p), IsPrefix(h, p)
  PROVE  /\ SubSeq(s, 1, Len(s) - (Len(p) - Len(h))) \in Seq(T)
         /\ EndsWith(SubSeq(s, 1, Len(s) - (Len(p) - Len(h))), h)
<1> DEFINE a == Len(p) b == Len(s) k == Len(h) n == b - (a - k) c == SubSeq(s, 1, n)
<1>1. a \in Nat /\ b \in Nat /\ k \in Nat /\ k <= a /\ \A i \in 1 .. k : h[i] = p[i]
  BY PrefixIsPart
<1>2. a <= b /\ \A i \in 1 .. a : s[b - a + i] = p[i]
  BY EndsWithIs
<1>3. s \in [1 .. b -> T]
  OBVIOUS
<1> HIDE DEF a, b, k
<1>4. n \in Nat /\ n <= b /\ k <= n /\ n - k = b - a
  BY <1>1, <1>2
<1> HIDE DEF n
<1>5. c = [i \in 1 .. n |-> s[i]] /\ \A i \in 1 .. n : s[i] \in T
  BY <1>1, <1>3, <1>4
<1>6. c \in Seq(T) /\ Len(c) = n /\ \A i \in 1 .. n : c[i] = s[i]
  BY <1>4, <1>5
<1> HIDE DEF c
<1>7. \A i \in 1 .. k : c[n - k + i] = h[i]
  <2> SUFFICES ASSUME NEW i \in 1 .. k PROVE c[n - k + i] = h[i]
    OBVIOUS
  <2>1. i \in 1 .. a /\ b - a + i \in 1 .. n /\ n - k + i = b - a + i
    BY <1>1, <1>2, <1>4
  <2> QED
    BY <1>1, <1>2, <1>6, <2>1
<1>8. EndsWith(c, h)
  BY <1>4, <1>6, <1>7, EndsWithIs DEF k
<1> QED
  BY <1>6, <1>8 DEF a, b, k, n, c

(* What an insertion does to the nodes: nothing, one more child of the     *)
(* root, or a split.                                                       *)
LEMMA InsertInv ==
  ASSUME ForestInv, NEW tokens \in Seq(PrefixTokens), InsertRows(tokens)
  PROVE  ForestInv'
<1> DEFINE rest == Remainder(tokens)
           split == SplitPoint(rest)
           tree == ForestNodes
           added == {rest, split} \ {<< >>}
<1>1. /\ tree \in SUBSET (Seq(PrefixTokens) \ {<< >>})
      /\ \A p \in tree : contexts[p] \in Seq(PrefixTokens)
      /\ \A t, u \in TopNodes(tree) : t[1] = u[1] => t = u
      /\ \A p \in tree : EndsWith(contexts[p], Without(ParentPath(tree, p), p))
      /\ IsFiniteSet(RowsOf(tree)) /\ cachedTokens = Cardinality(RowsOf(tree))
      /\ anchorRegistry \in [AnchorTags -> tree \cup {<< >>}]
  BY RowsHeldAre DEF ForestInv
<1>2. /\ rest \in Seq(PrefixTokens) /\ EndsWith(tokens, rest)
      /\ \A t \in TopNodes(tree) : ~ IsPrefix(t, rest)
  BY <1>1, RemainderIs
<1>3. /\ contexts' = [p \in tree \cup added |->
           IF p \in tree THEN contexts[p] ELSE IF p = split THEN HeadContext(split) ELSE tokens]
      /\ cachedTokens' = cachedTokens + (Len(rest) - Len(split))
      /\ anchorRegistry' = anchorRegistry
  BY DEF InsertRows, NewRows
<1>4. ForestNodes' = tree \cup added
  BY <1>3 DEF ForestNodes
<1>5. /\ \A p \in tree : contexts'[p] = contexts[p]
      /\ \A p \in added \ tree : contexts'[p] = IF p = split THEN HeadContext(split) ELSE tokens
  BY <1>3
<1>6. split \in Seq(PrefixTokens) /\ IsPrefix(split, rest)
  <2>1. TopNodes(tree) \in SUBSET Seq(PrefixTokens)
    BY <1>1 DEF TopNodes
  <2>2. split = LongestMatch(TopNodes(tree), rest)
    BY DEF SplitPoint
  <2> HIDE DEF rest, split, tree
  <2> QED
    BY <1>2, <2>1, <2>2, LongestMatchIs
<1>7. anchorRegistry' \in [AnchorTags -> ForestNodes' \cup {<< >>}]
  BY <1>1, <1>3, <1>4
<1>8. ForestNodes' \in SUBSET (Seq(PrefixTokens) \ {<< >>})
  BY <1>1, <1>2, <1>4, <1>6
<1>9. RowsHeld' = RowsOf(ForestNodes')
  BY DEF RowsHeld, RowsOf, RowsFrom
<1> SUFFICES /\ \A p \in ForestNodes' : contexts'[p] \in Seq(PrefixTokens)
             /\ \A t, u \in TopNodes(ForestNodes') : t[1] = u[1] => t = u
             /\ \A p \in ForestNodes' : EndsWith(contexts'[p], Without(ParentPath(ForestNodes', p), p))
             /\ IsFiniteSet(RowsOf(ForestNodes')) /\ cachedTokens' = Cardinality(RowsOf(ForestNodes'))
  BY <1>7, <1>8, <1>9 DEF ForestInv
<1> HIDE DEF rest, split, tree, added
<1>10. Len(rest) \in Nat /\ Len(split) \in Nat /\ Cardinality(RowsOf(tree)) \in Nat
  BY <1>1, <1>2, <1>6, FS_CardinalityType
<1>11. CASE rest = << >>
  <2>1. Len(rest) = 0 /\ Len(split) <= 0
    <3>1. Len(split) <= Len(rest)
      BY <1>2, <1>6, PrefixFacts
    <3>2. Len(rest) = 0
      BY <1>11
    <3> QED
      BY <3>1, <3>2
  <2>2. Len(split) = 0
    BY <1>10, <2>1
  <2>3. added = {}
    BY <1>6, <1>11, <2>2 DEF added
  <2>4. ForestNodes' = tree /\ cachedTokens' = cachedTokens
    BY <1>1, <1>3, <1>4, <1>10, <2>1, <2>2, <2>3
  <2> QED
    BY <1>1, <1>5, <2>4
<1>12. CASE rest # << >> /\ split = << >>
  <2>1. StartsAlone(tree, rest)
    BY <1>1, <1>2, <1>12, SplitPointIs DEF split, tree, StartsAlone
  <2>2. added = {rest}
    BY <1>12 DEF added
  <2>3. ForestNodes' = tree \cup {rest}
    BY <1>4, <2>2
  <2>4. /\ rest \notin tree
        /\ \A q \in tree : ParentPath(tree \cup {rest}, q) = ParentPath(tree, q)
        /\ ParentPath(tree \cup {rest}, rest) = << >>
        /\ TopNodes(tree \cup {rest}) = TopNodes(tree) \cup {rest}
    <3>1. rest \in Seq(PrefixTokens) \ {<< >>}
      BY <1>2, <1>12
    <3>2. IsLeaf(tree, rest)
      BY <1>1, <2>1, <3>1, NewLeaf
    <3> QED
      BY <3>2 DEF IsLeaf
  <2>5. contexts'[rest] = tokens
    BY <1>5, <1>12, <2>2, <2>4
  <2>6. \A p \in ForestNodes' : contexts'[p] \in Seq(PrefixTokens)
    BY <1>1, <1>5, <2>3, <2>5
  <2>7. \A t, u \in TopNodes(ForestNodes') : t[1] = u[1] => t = u
    BY <1>1, <2>1, <2>3, <2>4 DEF StartsAlone
  <2>8. EndsWith(tokens, Without(<< >>, rest))
    BY <1>2, WithoutNothing
  <2>9. \A p \in ForestNodes' : EndsWith(contexts'[p], Without(ParentPath(ForestNodes', p), p))
    BY <1>1, <1>5, <2>3, <2>4, <2>5, <2>8
  <2>10. IsFiniteSet(RowsOf(ForestNodes')) /\ Cardinality(RowsOf(ForestNodes')) = Cardinality(RowsOf(tree)) + Len(rest)
    BY <1>1, <1>2, <1>12, <2>1, <2>3, RowsOfLeaf
  <2>11. Len(split) = 0
    BY <1>12
  <2>12. cachedTokens' = Cardinality(RowsOf(ForestNodes'))
    BY <1>1, <1>3, <1>10, <2>10, <2>11
  <2> QED
    BY <2>6, <2>7, <2>9, <2>10, <2>12
<1>13. CASE rest # << >> /\ split # << >>
  <2>1. PICK p \in TopNodes(tree) :
          /\ IsPrefix(split, p) /\ Len(split) < Len(p) /\ p[1] = rest[1]
          /\ \/ split = rest
             \/ Len(split) < Len(rest) /\ p[Len(split) + 1] # rest[Len(split) + 1]
    BY <1>1, <1>2, <1>13, SplitPointIs DEF split, tree
  <2>2. SplitsAt(tree, p, split, rest)
    BY <1>1, <1>2, <1>6, <1>13, <2>1 DEF SplitsAt
  <2>3. IsSplit(tree, p, split, rest)
    BY <1>1, <1>2, <1>6, <2>2, SplitNode
  <2>4. ForestNodes' = WithSplit(tree, split, rest) /\ added = {split, rest}
    BY <1>4, <1>13 DEF added, WithSplit
  <2>5. /\ split \notin tree /\ rest \notin tree /\ p \in tree
        /\ ParentPath(tree, p) = << >>
        /\ \A q \in tree \ {p} : ParentPath(ForestNodes', q) = ParentPath(tree, q)
        /\ ParentPath(ForestNodes', p) = split
        /\ ParentPath(ForestNodes', split) = << >>
        /\ rest # split => ParentPath(ForestNodes', rest) = split
        /\ TopNodes(ForestNodes') = (TopNodes(tree) \ {p}) \cup {split}
    BY <2>3, <2>4 DEF IsSplit
  <2>6. p \in Seq(PrefixTokens) /\ contexts[p] \in Seq(PrefixTokens) /\ EndsWith(contexts[p], p)
    <3>1. p \in Seq(PrefixTokens)
      BY <1>1, <2>5
    <3>2. EndsWith(contexts[p], Without(<< >>, p))
      BY <1>1, <2>5
    <3> QED
      BY <1>1, <2>5, <3>1, <3>2, WithoutNothing
  <2>7. split[1] = p[1]
    <3>1. 1 \in 1 .. Len(split)
      BY <1>6, <1>13
    <3> QED
      BY <1>6, <2>1, <2>6, <3>1, PrefixIsPart
  <2>8. HeadContext(split) = SubSeq(contexts[p], 1, Len(contexts[p]) - (Len(p) - Len(split)))
    <3>1. ASSUME NEW x \in TopNodes(tree), IsPrefix(split, x) PROVE x = p
      <4>1. x \in Seq(PrefixTokens) /\ 1 \in 1 .. Len(split)
        BY <1>1, <1>6, <1>13 DEF TopNodes
      <4>2. split[1] = x[1]
        BY <1>6, <3>1, <4>1, PrefixIsPart
      <4> QED
        BY <1>1, <2>7, <4>2
    <3>2. (CHOOSE x \in TopNodes(tree) : IsPrefix(split, x)) = p
      BY <2>1, <3>1
    <3> QED
      BY <3>2 DEF HeadContext, tree
  <2>9. HeadContext(split) \in Seq(PrefixTokens) /\ EndsWith(HeadContext(split), split)
    BY <1>6, <2>1, <2>6, <2>8, HeadKeepsItsRows
  <2>10. contexts'[split] = HeadContext(split) /\ (rest # split => contexts'[rest] = tokens)
    BY <1>5, <2>4, <2>5
  <2>11. ForestNodes' = tree \cup {split, rest}
    BY <2>4 DEF WithSplit
  <2>12. \A q \in ForestNodes' : contexts'[q] \in Seq(PrefixTokens)
    BY <1>1, <1>5, <2>9, <2>10, <2>11
  <2>13. \A t, u \in TopNodes(ForestNodes') : t[1] = u[1] => t = u
    BY <1>1, <2>1, <2>5, <2>7
  <2>14. EndsWith(contexts'[p], Without(ParentPath(ForestNodes', p), p))
    <3>1. EndsWith(contexts[p], Without(split, p))
      BY <1>6, <2>1, <2>6, EndOfEnd
    <3> QED
      BY <1>5, <2>5, <3>1
  <2>15. EndsWith(contexts'[split], Without(ParentPath(ForestNodes', split), split))
    BY <1>6, <2>5, <2>9, <2>10, WithoutNothing
  <2>16. rest # split => EndsWith(contexts'[rest], Without(ParentPath(ForestNodes', rest), rest))
    <3>1. Len(split) <= Len(rest)
      BY <1>2, <1>6, PrefixFacts
    <3>2. EndsWith(tokens, Without(split, rest))
      BY <1>2, <1>6, <3>1, EndOfEnd
    <3> QED
      BY <2>5, <2>10, <3>2
  <2>17. \A q \in ForestNodes' : EndsWith(contexts'[q], Without(ParentPath(ForestNodes', q), q))
    BY <1>1, <1>5, <2>5, <2>11, <2>14, <2>15, <2>16
  <2>18. /\ IsFiniteSet(RowsOf(ForestNodes'))
         /\ Cardinality(RowsOf(ForestNodes')) = Cardinality(RowsOf(tree)) + (Len(rest) - Len(split))
    BY <1>1, <1>2, <1>6, <2>2, <2>4, RowsOfSplit
  <2> QED
    BY <1>1, <1>3, <2>12, <2>13, <2>17, <2>18
<1> QED
  BY <1>11, <1>12, <1>13

LEMMA ForestInitInv ==
  ASSUME ForestInit
  PROVE  ForestInv
<1>1. ForestNodes = {} /\ cachedTokens = 0
  BY DEF ForestInit, ForestNodes
<1>2. RowsHeld = {} /\ TopNodes(ForestNodes) = {}
  BY <1>1 DEF RowsHeld, TopNodes
<1>3. IsFiniteSet(RowsHeld) /\ Cardinality(RowsHeld) = 0
  BY <1>2, FS_EmptySet
<1>4. anchorRegistry \in [AnchorTags -> ForestNodes \cup {<< >>}]
  BY DEF ForestInit
<1> QED
  BY <1>1, <1>2, <1>3, <1>4 DEF ForestInv

LEMMA ForestNextInv ==
  ASSUME ForestInv, [ForestNext]_forestVars
  PROVE  ForestInv'
<1>1. ASSUME NEW tokens \in PrefixLists, InsertPrefix(tokens) \/ InsertCompressedNode(tokens)
      PROVE  ForestInv'
  BY <1>1, PrefixListsAre, InsertInv DEF InsertPrefix, InsertCompressedNode
<1>2. ASSUME NEW tokens \in PrefixLists, NEW tag \in AnchorTags, MarkSemanticAnchor(tokens, tag)
      PROVE  ForestInv'
  <2>1. contexts' = contexts /\ cachedTokens' = cachedTokens
    BY <1>2 DEF MarkSemanticAnchor
  <2>2. anchorRegistry' \in [AnchorTags -> ForestNodes \cup {<< >>}]
    BY <1>2 DEF MarkSemanticAnchor, ForestInv
  <2> QED
    BY <2>1, <2>2 DEF ForestInv, ForestNodes, RowsHeld
<1>3. ASSUME UNCHANGED forestVars PROVE ForestInv'
  BY <1>3 DEF forestVars, ForestInv, ForestNodes, RowsHeld
<1> QED
  BY <1>1, <1>2, <1>3 DEF ForestNext

LEMMA ForestInvImplies ==
  ASSUME ForestInv
  PROVE  ForestExact
<1>1. ASSUME NEW tag \in AnchorTags PROVE MatchAnchorPrefix(tag) = anchorRegistry[tag]
  <2>1. anchorRegistry[tag] \in ForestNodes \cup {<< >>} /\ ForestNodes \in SUBSET Seq(PrefixTokens)
    BY DEF ForestInv
  <2>2. << >> \in Seq(PrefixTokens)
    OBVIOUS
  <2>3. anchorRegistry[tag] \in Seq(PrefixTokens)
    BY <2>1, <2>2
  <2> QED
    BY <2>1, <2>3, OnTheWayIs DEF MatchAnchorPrefix, MatchPrefix
<1> QED
  BY <1>1 DEF ForestInv, ForestExact

(* The books of the forest are exact through every split.                  *)
THEOREM ForestIsExact ==
  ForestSpec => []ForestExact
<1>1. ForestInit => ForestInv
  BY ForestInitInv
<1>2. ForestInv /\ [ForestNext]_forestVars => ForestInv'
  BY ForestNextInv
<1>3. ForestInv => ForestExact
  BY ForestInvImplies
<1> QED
  BY <1>1, <1>2, <1>3, PTL DEF ForestSpec
=================================================================================
