------------------------------- MODULE LogWriter -------------------------------
(***************************************************************************)
(* The writer of observability events (backend/app/core/observability.py). *)
(* Any thread emits; a bounded queue leads to one daemon thread that       *)
(* appends the events to a file and then indexes them in batches in the    *)
(* database.  A batch the database refuses is kept in a pending file that  *)
(* is replayed at the start, at the stop and every minute.  What finds the *)
(* queue full goes to an emergency file.                                   *)
(***************************************************************************)
EXTENDS Naturals, Sequences, FiniteSets, SequencesExt

CONSTANTS
  Events,       \* events to emit
  QueueSize,    \* observability_queue_size
  BatchSize,    \* _INDEX_BATCH_SIZE
  MaxFaults,    \* bound on crashes, failing files and a refusing database
  MaxReplays    \* bound on replays the scheduler asks for

VARIABLES
  running,      \* _running
  stopping,     \* what stop has done: no, due, told, given_up
  queue,        \* _queue: events, the replay request, the stop marker
  thread,       \* the writer thread
  emitting,     \* events that passed the test of _running and are not yet queued
  seen,         \* events emitted while the writer was running
  file,         \* events in the category's files
  index,        \* events indexed in t_log_records
  pending,      \* events in index-pending.jsonl
  emergency,    \* events in emergency.jsonl
  late,         \* events queued behind the stop marker
  gone,         \* events that a fault destroyed: crash, failing file, the end of the process
  faults, replays

vars == <<running, stopping, queue, thread, emitting, seen, file, index, pending, emergency, late, gone, faults, replays>>
disk == <<file, index, pending, emergency>>

Stop == "stop"
Replay == "replay"
ASSUME LogAssumption ==
  {Stop, Replay} \cap Events = {} /\ QueueSize \in Nat /\ BatchSize \in Nat \ {0}

Off == [at |-> "off", batch |-> <<>>, indexable |-> {}, stops |-> FALSE, done |-> {}, then |-> "off"]
Ready == [Off EXCEPT !.at = "ready"]

Fault == faults < MaxFaults /\ faults' = faults + 1

\* start: the thread begins with a replay of what an earlier process left
Start ==
  /\ ~running /\ stopping = "no"
  /\ running' = TRUE
  /\ thread' = [Off EXCEPT !.at = "replay", !.then = "ready"]
  /\ UNCHANGED <<stopping, queue, emitting, seen, disk, late, gone, faults, replays>>

\* emit: tests _running without the lock ...
Emit(e) ==
  /\ running /\ e \notin seen
  /\ seen' = seen \cup {e} /\ emitting' = emitting \cup {e}
  /\ UNCHANGED <<running, stopping, queue, thread, disk, late, gone, faults, replays>>
\* ... and queues the event without waiting; what does not fit is an emergency.
Put(e) ==
  /\ e \in emitting /\ emitting' = emitting \ {e}
  /\ IF Len(queue) < QueueSize
     THEN queue' = Append(queue, e) /\ UNCHANGED emergency
     ELSE emergency' = emergency \cup {e} /\ UNCHANGED queue
  /\ late' = IF stopping = "told" THEN late \cup {e} ELSE late
  /\ UNCHANGED <<running, stopping, thread, seen, file, index, pending, gone, faults, replays>>

\* retry_pending, called by the scheduler
RetryPending ==
  /\ running /\ replays < MaxReplays /\ replays' = replays + 1
  /\ queue' = IF Len(queue) < QueueSize THEN Append(queue, Replay) ELSE queue
  /\ UNCHANGED <<running, stopping, thread, emitting, seen, disk, late, gone, faults>>

\* stop: _running is cleared, the marker waits a second for its place or is given up.
StopBegins ==
  /\ running /\ running' = FALSE /\ stopping' = "due"
  /\ UNCHANGED <<queue, thread, emitting, seen, disk, late, gone, faults, replays>>
StopPut ==
  /\ stopping = "due"
  /\ \/ Len(queue) < QueueSize /\ queue' = Append(queue, Stop) /\ stopping' = "told"
     \/ Len(queue) = QueueSize /\ stopping' = "given_up" /\ UNCHANGED queue
  /\ UNCHANGED <<running, thread, emitting, seen, disk, late, gone, faults, replays>>

InMemory == ToSet(queue) \cup ToSet(thread.batch) \cup thread.indexable \cup emitting
ProcessEnds == running' = FALSE /\ stopping' = "no" /\ queue' = <<>> /\ emitting' = {} /\ thread' = Off
\* The service exits after the join: the daemon thread has ended, or the ten seconds
\* are over and what it still had in hand is gone.
Exit ==
  /\ stopping \in {"told", "given_up"} /\ ProcessEnds
  /\ IF thread.at = "off"
     THEN late' = late \cup emitting /\ UNCHANGED gone
     ELSE gone' = gone \cup (InMemory \cap Events) /\ UNCHANGED late
  /\ UNCHANGED <<seen, disk, faults, replays>>
Crash ==
  /\ running \/ stopping # "no"
  /\ Fault /\ ProcessEnds
  /\ gone' = gone \cup (InMemory \cap Events)
  /\ UNCHANGED <<seen, disk, late, replays>>

\* _run takes what is queued, up to a batch.
Take ==
  /\ thread.at = "ready" /\ queue # <<>>
  /\ LET n == IF Len(queue) < BatchSize THEN Len(queue) ELSE BatchSize
         batch == SubSeq(queue, 1, n) IN
       /\ queue' = SubSeq(queue, n + 1, Len(queue))
       /\ thread' = IF Head(batch) = Stop
                    THEN [Off EXCEPT !.at = "replay"]
                    ELSE [Off EXCEPT !.at = "items", !.batch = batch]
  /\ UNCHANGED <<running, stopping, emitting, seen, disk, late, gone, faults, replays>>

Rest == Tail(thread.batch)
\* Mutant: the marker ends the thread at once
TakesStop_AtOnce == [Off EXCEPT !.at = "replay"]
\* The stop marker is noted, the batch is finished first.
TakesStop == [thread EXCEPT !.batch = Rest, !.stops = TRUE]
Item ==
  /\ thread.at = "items" /\ thread.batch # <<>>
  /\ LET item == Head(thread.batch) IN
       \/ /\ item = Stop
          /\ thread' = TakesStop
          /\ UNCHANGED <<file, gone, faults>>
       \/ /\ item = Replay
          /\ thread' = [thread EXCEPT !.batch = Rest, !.at = "replay", !.then = "items"]
          /\ UNCHANGED <<file, gone, faults>>
       \/ /\ item \in Events
          /\ file' = file \cup {item}
          /\ thread' = [thread EXCEPT !.batch = Rest, !.indexable = @ \cup {item}]
          /\ UNCHANGED <<gone, faults>>
       \/ \* _write_event raises: the emergency entry holds the error, not the event
          /\ item \in Events /\ Fault
          /\ thread' = [thread EXCEPT !.batch = Rest]
          /\ gone' = gone \cup {item}
          /\ UNCHANGED file
  /\ UNCHANGED <<running, stopping, queue, emitting, seen, index, pending, emergency, late, replays>>

AfterBatch == IF thread.stops THEN [Off EXCEPT !.at = "replay"] ELSE Ready
\* _persist_index_batch: one transaction for the batch, without those already there ...
Persist ==
  /\ thread.at = "items" /\ thread.batch = <<>>
  /\ index' = index \cup thread.indexable
  /\ thread' = AfterBatch
  /\ UNCHANGED <<running, stopping, queue, emitting, seen, file, pending, emergency, late, gone, faults, replays>>
\* ... and when it raises, whether or not it was committed, _append_pending.
PersistFails ==
  /\ thread.at = "items" /\ thread.batch = <<>> /\ thread.indexable # {} /\ Fault
  /\ pending' = pending \cup thread.indexable
  /\ \E committed \in BOOLEAN : index' = IF committed THEN index \cup thread.indexable ELSE index
  /\ thread' = AfterBatch
  /\ UNCHANGED <<running, stopping, queue, emitting, seen, file, emergency, late, gone, replays>>

\* _replay_pending indexes the lines one by one ...
ReplayLine(e) ==
  /\ thread.at = "replay" /\ e \in pending \ thread.done
  /\ index' = index \cup {e}
  /\ thread' = [thread EXCEPT !.done = @ \cup {e}]
  /\ UNCHANGED <<running, stopping, queue, emitting, seen, file, pending, emergency, late, gone, faults, replays>>
\* ... and replaces the file by the lines the database refused.
Unresolved == pending \ thread.done
ReplayEnds ==
  /\ thread.at = "replay"
  /\ IF pending \subseteq thread.done THEN UNCHANGED faults ELSE Fault
  /\ pending' = Unresolved
  /\ thread' = [thread EXCEPT !.at = thread.then, !.done = {}, !.then = "off"]
  /\ UNCHANGED <<running, stopping, queue, emitting, seen, file, index, emergency, late, gone, replays>>

Init ==
  /\ running = FALSE /\ stopping = "no" /\ queue = <<>> /\ thread = Off /\ emitting = {} /\ seen = {}
  /\ file = {} /\ index = {} /\ pending = {} /\ emergency = {} /\ late = {} /\ gone = {}
  /\ faults = 0 /\ replays = 0

Next ==
  \/ Start \/ StopBegins \/ StopPut \/ Exit \/ Crash \/ RetryPending
  \/ \E e \in Events : Emit(e) \/ Put(e) \/ ReplayLine(e)
  \/ Take \/ Item \/ Persist \/ PersistFails \/ ReplayEnds

Spec == Init /\ [][Next]_vars

-------------------------------------------------------------------------------
(* Properties *)

\* The queue keeps its bound, the thread its batch; stored events were emitted.
TypeOK ==
  /\ running \in BOOLEAN /\ stopping \in {"no", "due", "told", "given_up"} /\ Len(queue) <= QueueSize
  /\ ToSet(queue) \subseteq Events \cup {Stop, Replay}
  /\ thread.at \in {"off", "ready", "items", "replay"} /\ Len(thread.batch) <= BatchSize
  /\ thread.indexable \subseteq file /\ thread.stops \in BOOLEAN
  /\ file \cup emergency \cup late \cup gone \cup emitting \subseteq seen /\ index \subseteq file /\ pending \subseteq file

\* No event is lost in silence: what was emitted is on its way, in a file, or in the
\* emergency file, and what is in a file is indexed, waits for the index, or is in the
\* thread's hands, through full queues, a refusing database, replays cut short by a
\* crash and orderly stops; excused are events queued behind the stop marker and what
\* a fault destroyed.
NothingIsLost ==
  /\ seen \subseteq InMemory \cup file \cup emergency \cup late \cup gone
  /\ file \subseteq index \cup pending \cup thread.indexable \cup gone
===============================================================================
