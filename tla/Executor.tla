-------------------------------- MODULE Executor --------------------------------
(***************************************************************************)
(* What a worker pool promises the threads that use it: a task that was    *)
(* accepted is executed once, and when the pool has been closed nothing is *)
(* left to execute.  There are no workers, no queue and no wake-ups.       *)
(***************************************************************************)
CONSTANT Tasks

VARIABLES
  accepted,   (* tasks whose submission returned a future     *)
  finished,   (* tasks whose future is ready                  *)
  closed      (* the pool's destructor has returned           *)

ExecutorInit == accepted = {} /\ finished = {} /\ closed = FALSE

Accept(t) ==
  /\ ~closed
  /\ t \notin accepted
  /\ accepted' = accepted \cup {t}
  /\ UNCHANGED <<finished, closed>>

Finish(t) ==
  /\ t \in accepted \ finished
  /\ finished' = finished \cup {t}
  /\ UNCHANGED <<accepted, closed>>

Close ==
  /\ ~closed
  /\ accepted = finished
  /\ closed' = TRUE
  /\ UNCHANGED <<accepted, finished>>

ExecutorNext == (\E t \in Tasks : Accept(t) \/ Finish(t)) \/ Close

ExecutorSpec == ExecutorInit /\ [][ExecutorNext]_<<accepted, finished, closed>>
=============================================================================
