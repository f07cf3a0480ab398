----------------------------- MODULE KvEventStream ------------------------------
(***************************************************************************)
(* class KVBlockEventPublisher of turing/serving/kv_events.py, one of its  *)
(* subscribers, and the replay of past events with which it recovers.      *)
(*                                                                         *)
(* Events are numbered in the order in which the replay buffer gets them.  *)
(* _publish() is two steps, as the lock covers only the first: the event   *)
(* is buffered, and then sent without blocking, which may drop it.  The    *)
(* subscriber and the sockets are external: live messages arrive in the    *)
(* order in which they were sent, at a subscriber that was there by then.  *)
(***************************************************************************)
EXTENDS Integers, FiniteSets, Sequences, SequencesExt

CONSTANTS
  Publishers,        (* threads that call on_block_stored and its siblings  *)
  ReplayBufferSize,  (* replay_buffer_size                                  *)
  MaxEvents          (* bound of the model on the number of events          *)

ASSUME EventsAssumption == ReplayBufferSize \in Nat \ {0} /\ MaxEvents \in Nat

VARIABLES
  started,           (* _started, the sockets being bound                   *)
  replayBuffer,      (* _replay_buffer                                      *)
  buffered,          (* history: the number of events so far                *)
  toSend,            (* the event a publisher has yet to send, or 0         *)
  snapshot,          (* what the replay listener has yet to send            *)
  listener,          (* "idle" or "replaying"                               *)
  subscriber,        (* "away", "subscribed", "asked" or "recovered"        *)
  heard,             (* events the subscriber has, replayed or live         *)
  outOfReach,        (* events that had left the buffer at the snapshot     *)
  lossy              (* a message for the subscriber was dropped            *)

eventVars == <<started, replayBuffer, buffered, toSend, snapshot, listener,
               subscriber, heard, outOfReach, lossy>>

EventsInit ==
  /\ started = FALSE
  /\ replayBuffer = << >>
  /\ buffered = 0
  /\ toSend = [p \in Publishers |-> 0]
  /\ snapshot = << >>
  /\ listener = "idle"
  /\ subscriber = "away"
  /\ heard = {}
  /\ outOfReach = 0
  /\ lossy = FALSE

(* start() and stop().  Closing the sockets cuts the subscriber off, and a *)
(* replay that is under way with it.                                       *)
StartPublisher ==
  /\ ~started
  /\ started' = TRUE
  /\ UNCHANGED <<replayBuffer, buffered, toSend, snapshot, listener,
                 subscriber, heard, outOfReach, lossy>>

StopPublisher ==
  /\ started
  /\ started' = FALSE
  /\ listener' = "idle"
  /\ snapshot' = << >>
  /\ lossy' = TRUE
  /\ UNCHANGED <<replayBuffer, buffered, toSend, subscriber, heard, outOfReach>>

(* The deque drops its oldest event when it is full.                       *)
Kept(buffer) ==
  IF Len(buffer) > ReplayBufferSize THEN Tail(buffer) ELSE buffer

Hear(e) ==
  IF subscriber = "away" THEN heard' = heard ELSE heard' = heard \cup {e}

(* _publish() up to the end of the lock.                                   *)
BufferEvent(p) ==
  /\ toSend[p] = 0
  /\ buffered < MaxEvents
  /\ buffered' = buffered + 1
  /\ replayBuffer' = Kept(Append(replayBuffer, buffered + 1))
  /\ toSend' = [toSend EXCEPT ![p] = buffered + 1]
  /\ UNCHANGED <<started, snapshot, listener, subscriber, heard, outOfReach, lossy>>

(* The rest of _publish(): nothing without sockets, a send that is dropped *)
(* when the high-water mark is reached, or a send.                         *)
SendEvent(p) ==
  /\ toSend[p] # 0
  /\ toSend' = [toSend EXCEPT ![p] = 0]
  /\ \/ started /\ Hear(toSend[p]) /\ UNCHANGED lossy
     \/ lossy' = TRUE /\ UNCHANGED heard
  /\ UNCHANGED <<started, replayBuffer, buffered, snapshot, listener,
                 subscriber, outOfReach>>

(* The subscriber joins, anew if it was there, asks for a replay, leaves.  *)
Subscribe ==
  /\ started
  /\ subscriber' = "subscribed"
  /\ heard' = {}
  /\ lossy' = FALSE
  /\ listener' = "idle"
  /\ snapshot' = << >>
  /\ UNCHANGED <<started, replayBuffer, buffered, toSend, outOfReach>>

AskReplay ==
  /\ started
  /\ subscriber = "subscribed"
  /\ subscriber' = "asked"
  /\ UNCHANGED <<started, replayBuffer, buffered, toSend, snapshot, listener,
                 heard, outOfReach, lossy>>

(* Mutant: the listener copies the buffer without its newest event.        *)
AllButNewest(buffer) == IF buffer = << >> THEN buffer ELSE Front(buffer)

ReplayEvents(buffer) == buffer

(* _replay_listener(): the buffer is copied under the lock and sent        *)
(* without it, one message after the other, then the END_REPLAY marker.    *)
StartReplay ==
  /\ started
  /\ subscriber = "asked"
  /\ listener = "idle"
  /\ listener' = "replaying"
  /\ snapshot' = ReplayEvents(replayBuffer)
  /\ outOfReach' = buffered - Len(replayBuffer)
  /\ UNCHANGED <<started, replayBuffer, buffered, toSend, subscriber, heard, lossy>>

ReplayOne ==
  /\ listener = "replaying"
  /\ snapshot # << >>
  /\ \/ /\ heard' = heard \cup {Head(snapshot)}
        /\ snapshot' = Tail(snapshot)
        /\ UNCHANGED lossy
     \/ /\ snapshot' = << >>
        /\ lossy' = TRUE
        /\ UNCHANGED heard
  /\ UNCHANGED <<started, replayBuffer, buffered, toSend, listener,
                 subscriber, outOfReach>>

(* The marker may be dropped as well: the subscriber has to ask again.     *)
EndReplay ==
  /\ listener = "replaying"
  /\ snapshot = << >>
  /\ listener' = "idle"
  /\ subscriber' \in {"recovered", "subscribed"}
  /\ UNCHANGED <<started, replayBuffer, buffered, toSend, snapshot, heard,
                 outOfReach, lossy>>

EventsNext ==
  \/ StartPublisher \/ StopPublisher
  \/ \E p \in Publishers : BufferEvent(p) \/ SendEvent(p)
  \/ Subscribe \/ AskReplay \/ StartReplay \/ ReplayOne \/ EndReplay

EventsSpec == EventsInit /\ [][EventsNext]_eventVars

-----------------------------------------------------------------------------
(* A subscriber that has joined before it asked for the replay has, once   *)
(* it sees the end marker, every event that was in reach of the buffer, or *)
(* is about to be sent it, unless a message was dropped: no event falls    *)
(* between the replay and the live stream, wherever the publishers are     *)
(* between buffering and sending (_publish, _replay_listener).             *)
NoEventIsMissed ==
  subscriber = "recovered" /\ ~lossy =>
    \A e \in outOfReach + 1 .. buffered :
      e \in heard \/ \E p \in Publishers : toSend[p] = e
=============================================================================
