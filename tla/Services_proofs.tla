-------------------------- MODULE Services_proofs --------------------------
(***************************************************************************)
(* What holds of the services around a run for every value of their        *)
(* constants.  Each service has its own invariant, and a behaviour of      *)
(* MCServices is one of theirs.                                            *)
(***************************************************************************)
EXTENDS MCServices, SequenceTheorems, FiniteSetTheorems, TLAPS

-----------------------------------------------------------------------------
(* The log writer: what holds an event at any time.  The marker of a stop  *)
(* divides the queue; what is behind it is late.                           *)

Items == Events \cup {Stop, Replay}
Threads ==
  [at : {"off", "ready", "items", "replay"}, batch : Seq(Items), indexable : SUBSET Events,
   stops : BOOLEAN, done : SUBSET Events, then : {"off", "ready", "items"}]

LogTyped ==
  /\ queue \in Seq(Items) /\ thread \in Threads
  /\ stopping \in {"no", "due", "told", "given_up"} /\ running \in BOOLEAN
  /\ emitting \subseteq Events /\ seen \subseteq Events /\ pending \subseteq Events
  /\ late \subseteq Events

\* What the thread holds, it holds while it works on a batch.
ThreadFits ==
  /\ thread.at \in {"off", "ready"} \/ (thread.at = "replay" /\ thread.then # "items") =>
       thread.batch = <<>> /\ thread.indexable = {} /\ ~thread.stops
  /\ thread.at # "replay" => thread.then = "off" /\ thread.done = {}
  /\ thread.done \subseteq index /\ thread.indexable \subseteq file

\* The thread has the marker in hand, or had it.
Ending ==
  \/ thread.at = "off" \/ thread.stops \/ Stop \in ToSet(thread.batch)
  \/ thread.at = "replay" /\ thread.then = "off"

\* A process that is not there holds nothing; one whose thread ends was told to stop.
ProcessFits ==
  /\ ~running /\ stopping = "no" => queue = <<>> /\ emitting = {} /\ thread = Off
  /\ running => stopping = "no"
  /\ Ending => ~running /\ stopping \in {"no", "told"}

\* Behind the marker, and behind a thread that has it, everything is late.
BehindTheMarker ==
  /\ Stop \in ToSet(queue) => stopping = "told"
  /\ \A i, j \in DOMAIN queue : i < j /\ queue[i] = Stop => queue[j] \in late
  /\ Ending => ToSet(queue) \subseteq late

LogIInv == LogTyped /\ ThreadFits /\ ProcessFits /\ BehindTheMarker /\ NothingIsLost

LEMMA AppendHolds ==
  ASSUME NEW s \in Seq(Items), NEW e \in Items
  PROVE  /\ Append(s, e) \in Seq(Items) /\ ToSet(Append(s, e)) = ToSet(s) \cup {e}
         /\ Append(s, e)[Len(s) + 1] = e /\ DOMAIN Append(s, e) = 1..(Len(s) + 1)
         /\ \A i \in DOMAIN s : Append(s, e)[i] = s[i]
         /\ DOMAIN s = 1..Len(s) /\ Len(s) \in Nat
<1>1. /\ Append(s, e) \in Seq(Items) /\ DOMAIN Append(s, e) = 1..(Len(s) + 1)
      /\ DOMAIN s = 1..Len(s) /\ Len(s) \in Nat
      /\ Append(s, e)[Len(s) + 1] = e /\ \A i \in DOMAIN s : Append(s, e)[i] = s[i]
  OBVIOUS
<1>2. ToSet(Append(s, e)) = ToSet(s) \cup {e}
  <2>1. ASSUME NEW x \in ToSet(Append(s, e))
        PROVE  x \in ToSet(s) \cup {e}
    BY <1>1 DEF ToSet
  <2>2. ASSUME NEW x \in ToSet(s)
        PROVE  x \in ToSet(Append(s, e))
    BY <1>1 DEF ToSet
  <2>3. e \in ToSet(Append(s, e))
    BY <1>1 DEF ToSet
  <2> QED
    BY <2>1, <2>2, <2>3
<1> QED
  BY <1>1, <1>2

LEMMA TailHolds ==
  ASSUME NEW s \in Seq(Items), s # <<>>
  PROVE  /\ Tail(s) \in Seq(Items) /\ Head(s) \in Items
         /\ ToSet(s) = {Head(s)} \cup ToSet(Tail(s))
<1>1. /\ Tail(s) \in Seq(Items) /\ Head(s) \in Items /\ Head(s) = s[1]
      /\ DOMAIN s = 1..Len(s) /\ Len(s) \in Nat \ {0}
      /\ DOMAIN Tail(s) = 1..(Len(s) - 1) /\ \A i \in DOMAIN Tail(s) : Tail(s)[i] = s[i + 1]
  OBVIOUS
<1>2. ASSUME NEW i \in DOMAIN s
      PROVE  s[i] \in {Head(s)} \cup ToSet(Tail(s))
  <2>1. CASE i = 1
    BY <1>1, <2>1
  <2>2. CASE i # 1
    <3>1. i - 1 \in DOMAIN Tail(s) /\ Tail(s)[i - 1] = s[i]
      BY <1>1, <2>2
    <3> QED
      BY <3>1 DEF ToSet
  <2> QED
    BY <2>1, <2>2
<1>3. \A i \in DOMAIN Tail(s) : Tail(s)[i] \in ToSet(s)
  BY <1>1 DEF ToSet
<1>4. Head(s) \in ToSet(s)
  BY <1>1 DEF ToSet
<1> QED
  BY <1>1, <1>2, <1>3, <1>4 DEF ToSet

LEMMA SplitHolds ==
  ASSUME NEW s \in Seq(Items), NEW n \in 0..Len(s)
  PROVE  /\ SubSeq(s, 1, n) \in Seq(Items) /\ SubSeq(s, n + 1, Len(s)) \in Seq(Items)
         /\ ToSet(s) = ToSet(SubSeq(s, 1, n)) \cup ToSet(SubSeq(s, n + 1, Len(s)))
         /\ Len(SubSeq(s, 1, n)) = n /\ \A i \in 1..n : SubSeq(s, 1, n)[i] = s[i]
         /\ Len(SubSeq(s, n + 1, Len(s))) = Len(s) - n
         /\ \A i \in 1..(Len(s) - n) : SubSeq(s, n + 1, Len(s))[i] = s[i + n]
<1> DEFINE a == SubSeq(s, 1, n)
           b == SubSeq(s, n + 1, Len(s))
<1>1. /\ a \in Seq(Items) /\ Len(a) = n /\ \A i \in 1..n : a[i] = s[i]
      /\ DOMAIN a = 1..n
  OBVIOUS
<1>2. /\ b \in Seq(Items) /\ Len(b) = Len(s) - n /\ \A i \in 1..(Len(s) - n) : b[i] = s[i + n]
      /\ DOMAIN b = 1..(Len(s) - n)
  OBVIOUS
<1>3. DOMAIN s = 1..Len(s) /\ Len(s) \in Nat /\ n \in Nat /\ n <= Len(s)
  OBVIOUS
<1> HIDE DEF a, b
<1>4. ASSUME NEW i \in DOMAIN s
      PROVE  s[i] \in ToSet(a) \cup ToSet(b)
  <2>1. CASE i <= n
    BY <1>1, <1>3, <2>1 DEF ToSet
  <2>2. CASE i > n
    <3>1. i - n \in DOMAIN b /\ b[i - n] = s[i]
      BY <1>2, <1>3, <2>2
    <3> QED
      BY <3>1 DEF ToSet
  <2> QED
    BY <1>3, <2>1, <2>2
<1>5. \A i \in DOMAIN a : a[i] \in ToSet(s)
  BY <1>1, <1>3 DEF ToSet
<1>6. \A i \in DOMAIN b : b[i] \in ToSet(s)
  BY <1>2, <1>3, SMTT(20) DEF ToSet
<1>7. ToSet(s) = ToSet(a) \cup ToSet(b)
  BY <1>4, <1>5, <1>6 DEF ToSet
<1> QED
  BY <1>1, <1>2, <1>7 DEF a, b

LEMMA NothingHeld == ToSet(<<>>) = {}
BY DEF ToSet

Working(a, b, x, s, d, t) ==
  [at |-> a, batch |-> b, indexable |-> x, stops |-> s, done |-> d, then |-> t]

LEMMA ThreadIs ==
  ASSUME NEW f \in Threads
  PROVE  f = Working(f.at, f.batch, f.indexable, f.stops, f.done, f.then)
BY DEF Threads, Working

\* A thread with some of its fields changed.
LEMMA DoneSet ==
  ASSUME NEW f \in Threads, NEW n
  PROVE  [f EXCEPT !.done = n]
           = Working(f.at, f.batch, f.indexable, f.stops, n, f.then)
<1> DEFINE a == f.at  b == f.batch  x == f.indexable  s == f.stops  d == f.done  t == f.then
<1>1. f = Working(a, b, x, s, d, t)
  BY ThreadIs
<1> HIDE DEF a, b, x, s, d, t
<1>2. [f EXCEPT !.done = n] = Working(a, b, x, s, n, t)
  BY <1>1 DEF Working
<1> QED
  BY <1>2, Zenon DEF a, b, x, s, d, t

LEMMA BatchSet ==
  ASSUME NEW f \in Threads, NEW n
  PROVE  [f EXCEPT !.batch = n]
           = Working(f.at, n, f.indexable, f.stops, f.done, f.then)
<1> DEFINE a == f.at  b == f.batch  x == f.indexable  s == f.stops  d == f.done  t == f.then
<1>1. f = Working(a, b, x, s, d, t)
  BY ThreadIs
<1> HIDE DEF a, b, x, s, d, t
<1>2. [f EXCEPT !.batch = n] = Working(a, n, x, s, d, t)
  BY <1>1 DEF Working
<1> QED
  BY <1>2, Zenon DEF a, b, x, s, d, t

LEMMA BatchStopsSet ==
  ASSUME NEW f \in Threads, NEW n, NEW m
  PROVE  [f EXCEPT !.batch = n, !.stops = m]
           = Working(f.at, n, f.indexable, m, f.done, f.then)
<1> DEFINE a == f.at  b == f.batch  x == f.indexable  s == f.stops  d == f.done  t == f.then
<1>1. f = Working(a, b, x, s, d, t)
  BY ThreadIs
<1> HIDE DEF a, b, x, s, d, t
<1>2. [f EXCEPT !.batch = n] = Working(a, n, x, s, d, t)
  BY <1>1 DEF Working
<1>3. [Working(a, n, x, s, d, t) EXCEPT !.stops = m] = Working(a, n, x, m, d, t)
  BY DEF Working
<1> QED
  BY <1>2, <1>3, Zenon DEF a, b, x, s, d, t

LEMMA BatchIndexableSet ==
  ASSUME NEW f \in Threads, NEW n, NEW m
  PROVE  [f EXCEPT !.batch = n, !.indexable = m]
           = Working(f.at, n, m, f.stops, f.done, f.then)
<1> DEFINE a == f.at  b == f.batch  x == f.indexable  s == f.stops  d == f.done  t == f.then
<1>1. f = Working(a, b, x, s, d, t)
  BY ThreadIs
<1> HIDE DEF a, b, x, s, d, t
<1>2. [f EXCEPT !.batch = n] = Working(a, n, x, s, d, t)
  BY <1>1 DEF Working
<1>3. [Working(a, n, x, s, d, t) EXCEPT !.indexable = m] = Working(a, n, m, s, d, t)
  BY DEF Working
<1> QED
  BY <1>2, <1>3, Zenon DEF a, b, x, s, d, t

TurnsToReplay(f, rest) == [f EXCEPT !.batch = rest, !.at = "replay", !.then = "items"]
LEMMA TurnsToReplayIs ==
  ASSUME NEW f \in Threads, NEW rest
  PROVE  TurnsToReplay(f, rest)
           = Working("replay", rest, f.indexable, f.stops, f.done, "items")
<1> DEFINE a == f.at  b == f.batch  x == f.indexable  s == f.stops  d == f.done  t == f.then
           replay == "replay"  items == "items"
<1>1. f = Working(a, b, x, s, d, t)
  BY ThreadIs
<1> HIDE DEF a, b, x, s, d, t, replay, items
<1>2. [f EXCEPT !.batch = rest] = Working(a, rest, x, s, d, t)
  BY <1>1 DEF Working
<1>3. [Working(a, rest, x, s, d, t) EXCEPT !.at = replay] = Working(replay, rest, x, s, d, t)
  BY DEF Working
<1>4. [Working(replay, rest, x, s, d, t) EXCEPT !.then = items]
        = Working(replay, rest, x, s, d, items)
  BY DEF Working
<1> QED
  BY <1>2, <1>3, <1>4, Zenon DEF TurnsToReplay, a, b, x, s, d, t, replay, items

LeavesReplay(f) == [f EXCEPT !.at = f.then, !.done = {}, !.then = "off"]
LEMMA LeavesReplayIs ==
  ASSUME NEW f \in Threads
  PROVE  LeavesReplay(f) = Working(f.then, f.batch, f.indexable, f.stops, {}, "off")
<1> DEFINE a == f.at  b == f.batch  x == f.indexable  s == f.stops  d == f.done  t == f.then
           none == {}  off == "off"
<1>1. f = Working(a, b, x, s, d, t)
  BY ThreadIs
<1> HIDE DEF a, b, x, s, d, t, none, off
<1>2. [f EXCEPT !.at = t] = Working(t, b, x, s, d, t)
  BY <1>1 DEF Working
<1>3. [Working(t, b, x, s, d, t) EXCEPT !.done = none] = Working(t, b, x, s, none, t)
  BY DEF Working
<1>4. [Working(t, b, x, s, none, t) EXCEPT !.then = off] = Working(t, b, x, s, none, off)
  BY DEF Working
<1> QED
  BY <1>2, <1>3, <1>4, Zenon DEF LeavesReplay, a, b, x, s, d, t, none, off

LEMMA EmptyThreads ==
  ASSUME NEW a \in {"off", "ready", "items", "replay"}, NEW t \in {"off", "ready", "items"}
  PROVE  Working(a, <<>>, {}, FALSE, {}, t) \in Threads
<1>1. <<>> \in Seq(Items)
  OBVIOUS
<1> QED
  BY <1>1 DEF Threads, Working

\* The states that a thread begins or ends with, field by field.
LEMMA OffIs ==
  /\ Off = Working("off", <<>>, {}, FALSE, {}, "off") /\ Off \in Threads
  /\ Ready = Working("ready", <<>>, {}, FALSE, {}, "off")
  /\ [Off EXCEPT !.at = "replay"] = Working("replay", <<>>, {}, FALSE, {}, "off")
  /\ [Off EXCEPT !.at = "replay", !.then = "ready"] =
       Working("replay", <<>>, {}, FALSE, {}, "ready")
  /\ \A b : [Off EXCEPT !.at = "items", !.batch = b] =
              Working("items", b, {}, FALSE, {}, "off")
<1> DEFINE empty == <<>>  none == {}  no == FALSE  off == "off"
<1>1. Off = Working(off, empty, none, no, none, off) /\ Off \in Threads
  BY EmptyThreads DEF Off, Working
<1> HIDE DEF empty, none, no, off
<1>2. ASSUME NEW a
      PROVE  [Off EXCEPT !.at = a] = Working(a, empty, none, no, none, off)
  BY <1>1 DEF Working
<1>3. ASSUME NEW a, NEW b
      PROVE  [Off EXCEPT !.at = a, !.batch = b] = Working(a, b, none, no, none, off)
  <2>1. [Working(a, empty, none, no, none, off) EXCEPT !.batch = b]
          = Working(a, b, none, no, none, off)
    BY DEF Working
  <2> QED
    BY <1>2, <2>1, Zenon
<1>4. ASSUME NEW a, NEW t
      PROVE  [Off EXCEPT !.at = a, !.then = t] = Working(a, empty, none, no, none, t)
  <2>1. [Working(a, empty, none, no, none, off) EXCEPT !.then = t]
          = Working(a, empty, none, no, none, t)
    BY DEF Working
  <2> QED
    BY <1>2, <2>1, Zenon
<1> QED
  BY <1>1, <1>2, <1>3, <1>4, Zenon DEF Ready, empty, none, no, off

LEMMA LogStarts == Init => LogIInv
<1> SUFFICES ASSUME Init PROVE LogIInv
  OBVIOUS
<1>0. <<>> \in Seq(Items)
  OBVIOUS
<1>1. Off \in Threads /\ <<>> \in Seq(Items)
  BY <1>0, OffIs, Zenon
<1>5. LogTyped
  BY <1>1 DEF Init, LogTyped
<1>2. ThreadFits /\ ProcessFits
  BY DEF Init, ThreadFits, ProcessFits, Off
<1>3. BehindTheMarker
  BY NothingHeld DEF Init, BehindTheMarker
<1>4. NothingIsLost
  BY NothingHeld DEF Init, NothingIsLost
<1> QED
  BY <1>2, <1>3, <1>4, <1>5 DEF LogIInv

LEMMA LogStartKept == ASSUME LogIInv, Start PROVE LogIInv'
<1>1. /\ ~running /\ stopping = "no" /\ queue = <<>> /\ emitting = {} /\ thread = Off
      /\ running' = TRUE
      /\ UNCHANGED <<stopping, queue, emitting, seen, disk, late, gone>>
  BY DEF Start, LogIInv, ProcessFits
<1>2. thread' = Working("replay", <<>>, {}, FALSE, {}, "ready")
  BY OffIs, Zenon DEF Start
<1>3. thread' \in Threads
  BY <1>2, EmptyThreads
<1>4. LogTyped'
  BY <1>1, <1>3 DEF LogIInv, LogTyped, disk
<1>5. thread.batch = <<>> /\ thread.indexable = {}
  BY <1>1, OffIs DEF Working
<1>6. ThreadFits'
  BY <1>1, <1>2 DEF ThreadFits, Working
<1>7. ~Ending' /\ ProcessFits'
  BY <1>1, <1>2, NothingHeld DEF Ending, ProcessFits, Working
<1>8. BehindTheMarker'
  BY <1>1, <1>7, NothingHeld DEF BehindTheMarker
<1>9. NothingIsLost'
  BY <1>1, <1>2, <1>5 DEF LogIInv, NothingIsLost, InMemory, disk, Working
<1> QED
  BY <1>4, <1>6, <1>7, <1>8, <1>9 DEF LogIInv

LEMMA EmitKept == ASSUME LogIInv, NEW e \in Events, Emit(e) PROVE LogIInv'
<1>1. /\ running /\ seen' = seen \cup {e} /\ emitting' = emitting \cup {e}
      /\ UNCHANGED <<running, stopping, queue, thread, disk, late, gone>>
  BY DEF Emit
<1>2. LogTyped' /\ ThreadFits' /\ ProcessFits'
  BY <1>1 DEF LogIInv, LogTyped, ThreadFits, ProcessFits, Ending, disk
<1>3. BehindTheMarker'
  BY <1>1 DEF LogIInv, BehindTheMarker, Ending
<1>4. NothingIsLost'
  BY <1>1 DEF LogIInv, NothingIsLost, InMemory, disk
<1> QED
  BY <1>2, <1>3, <1>4 DEF LogIInv

\* Nothing is put behind the marker but what is late, and a replay not at all.
LEMMA QueuedKept ==
  ASSUME LogIInv, NEW e \in Events \cup {Replay}, queue' = Append(queue, e),
         UNCHANGED <<running, stopping, thread>>, late \subseteq late', late' \subseteq Events,
         stopping \in {"told"} => e \in late', running \/ stopping # "no"
  PROVE  /\ queue' \in Seq(Items) /\ ToSet(queue') = ToSet(queue) \cup {e}
         /\ ProcessFits' /\ BehindTheMarker'
<1>1. queue \in Seq(Items) /\ e \in Items /\ e # Stop
  BY LogAssumption DEF LogIInv, LogTyped, Items, Stop, Replay
<1>2. /\ queue' \in Seq(Items) /\ ToSet(queue') = ToSet(queue) \cup {e}
      /\ queue'[Len(queue) + 1] = e /\ DOMAIN queue' = 1..(Len(queue) + 1)
      /\ \A i \in DOMAIN queue : queue'[i] = queue[i]
      /\ DOMAIN queue = 1..Len(queue) /\ Len(queue) \in Nat
  BY <1>1, AppendHolds
<1>3. Ending' <=> Ending
  BY DEF Ending
<1>4. ProcessFits'
  BY <1>3 DEF LogIInv, ProcessFits
<1>5. Stop \in ToSet(queue') => stopping' = "told"
  BY <1>1, <1>2 DEF LogIInv, BehindTheMarker
<1>6. ASSUME NEW i \in DOMAIN queue', NEW j \in DOMAIN queue', i < j, queue'[i] = Stop
      PROVE  queue'[j] \in late'
  <2>1. i \in DOMAIN queue /\ queue[i] = Stop
    BY <1>2, <1>6
  <2>2. stopping = "told"
    BY <2>1 DEF LogIInv, BehindTheMarker, ToSet
  <2>3. CASE j \in DOMAIN queue
    BY <1>2, <1>6, <2>1, <2>3 DEF LogIInv, BehindTheMarker
  <2>4. CASE j \notin DOMAIN queue
    BY <1>2, <2>2, <2>4
  <2> QED
    BY <2>3, <2>4
<1>7. Ending' => ToSet(queue') \subseteq late'
  <2>1. Ending => stopping = "told"
    BY DEF LogIInv, ProcessFits
  <2> QED
    BY <1>2, <1>3, <2>1 DEF LogIInv, BehindTheMarker
<1> QED
  BY <1>2, <1>4, <1>5, <1>6, <1>7 DEF BehindTheMarker

LEMMA PutKept == ASSUME LogIInv, NEW e \in Events, Put(e) PROVE LogIInv'
<1>1. /\ e \in emitting /\ emitting' = emitting \ {e}
      /\ UNCHANGED <<running, stopping, thread, seen, file, index, pending, gone>>
      /\ \/ queue' = Append(queue, e) /\ emergency' = emergency
         \/ queue' = queue /\ emergency' = emergency \cup {e}
      /\ late' = IF stopping = "told" THEN late \cup {e} ELSE late
  BY DEF Put
<1>2. running \/ stopping # "no"
  BY <1>1 DEF LogIInv, ProcessFits
<1>3. late \subseteq late' /\ late' \subseteq Events /\ (stopping \in {"told"} => e \in late')
  BY <1>1 DEF LogIInv, LogTyped
<1>4. ThreadFits'
  BY <1>1 DEF LogIInv, ThreadFits
<1>5. CASE queue' = Append(queue, e) /\ emergency' = emergency
  <2>1. /\ queue' \in Seq(Items) /\ ToSet(queue') = ToSet(queue) \cup {e}
        /\ ProcessFits' /\ BehindTheMarker'
    <3>1. UNCHANGED <<running, stopping, thread>>
      BY <1>1
    <3> QED
      BY <1>2, <1>3, <1>5, <3>1, QueuedKept
  <2>2. LogTyped'
    BY <1>1, <1>3, <2>1 DEF LogIInv, LogTyped
  <2>3. NothingIsLost'
    BY <1>1, <1>3, <1>5, <2>1 DEF LogIInv, NothingIsLost, InMemory
  <2> QED
    BY <1>4, <2>1, <2>2, <2>3 DEF LogIInv
<1>6. CASE queue' = queue /\ emergency' = emergency \cup {e}
  <2>1. LogTyped'
    BY <1>1, <1>3, <1>6 DEF LogIInv, LogTyped
  <2>2. Ending' <=> Ending
    BY <1>1 DEF Ending
  <2>3. ProcessFits'
    BY <1>1, <1>2, <2>2 DEF LogIInv, ProcessFits
  <2>4. BehindTheMarker'
    BY <1>1, <1>3, <1>6, <2>2 DEF LogIInv, BehindTheMarker
  <2>5. NothingIsLost'
    BY <1>1, <1>3, <1>6 DEF LogIInv, NothingIsLost, InMemory
  <2> QED
    BY <1>4, <2>1, <2>3, <2>4, <2>5 DEF LogIInv
<1> QED
  BY <1>1, <1>5, <1>6

LEMMA RetryKept == ASSUME LogIInv, RetryPending PROVE LogIInv'
<1>1. /\ running /\ UNCHANGED <<running, stopping, thread, emitting, seen, disk, late, gone>>
      /\ queue' = Append(queue, Replay) \/ queue' = queue
  BY DEF RetryPending
<1>2. stopping = "no"
  BY <1>1 DEF LogIInv, ProcessFits
<1>3. ThreadFits'
  BY <1>1 DEF LogIInv, ThreadFits, disk
<1>4. CASE queue' = Append(queue, Replay)
  <2>1. /\ queue' \in Seq(Items) /\ ToSet(queue') = ToSet(queue) \cup {Replay}
        /\ ProcessFits' /\ BehindTheMarker'
    <3>1. /\ UNCHANGED <<running, stopping, thread>> /\ late \subseteq late'
          /\ late' \subseteq Events /\ stopping \notin {"told"}
      BY <1>1, <1>2 DEF LogIInv, LogTyped
    <3> QED
      BY <1>1, <1>4, <3>1, QueuedKept
  <2>2. LogTyped' /\ NothingIsLost'
    BY <1>1, <2>1 DEF LogIInv, LogTyped, NothingIsLost, InMemory, disk
  <2> QED
    BY <1>3, <2>1, <2>2 DEF LogIInv
<1>5. CASE queue' = queue
  BY <1>1, <1>3, <1>5 DEF LogIInv, LogTyped, ProcessFits, BehindTheMarker, NothingIsLost,
                          InMemory, Ending, disk
<1> QED
  BY <1>1, <1>4, <1>5

LEMMA StopBeginsKept == ASSUME LogIInv, StopBegins PROVE LogIInv'
<1>1. /\ running /\ running' = FALSE /\ stopping' = "due"
      /\ UNCHANGED <<queue, thread, emitting, seen, disk, late, gone>>
  BY DEF StopBegins
<1>2. stopping = "no" /\ ~Ending /\ Stop \notin ToSet(queue)
  BY <1>1 DEF LogIInv, ProcessFits, BehindTheMarker
<1>3. ~Ending'
  BY <1>1, <1>2 DEF Ending
<1>4. LogTyped' /\ ThreadFits' /\ ProcessFits'
  BY <1>1, <1>2, <1>3 DEF LogIInv, LogTyped, ThreadFits, ProcessFits, disk
<1>5. BehindTheMarker'
  BY <1>1, <1>2, <1>3 DEF LogIInv, BehindTheMarker
<1>6. NothingIsLost'
  BY <1>1 DEF LogIInv, NothingIsLost, InMemory, disk
<1> QED
  BY <1>4, <1>5, <1>6 DEF LogIInv

LEMMA StopPutKept == ASSUME LogIInv, StopPut PROVE LogIInv'
<1>1. /\ stopping = "due" /\ UNCHANGED <<running, thread, emitting, seen, disk, late, gone>>
      /\ \/ queue' = Append(queue, Stop) /\ stopping' = "told"
         \/ queue' = queue /\ stopping' = "given_up"
  BY DEF StopPut
<1>2. ~running /\ ~Ending /\ Stop \notin ToSet(queue)
  BY <1>1 DEF LogIInv, ProcessFits, BehindTheMarker
<1>3. ~Ending'
  BY <1>1, <1>2 DEF Ending
<1>4. queue \in Seq(Items) /\ Stop \in Items /\ Stop \notin Events
  BY LogAssumption DEF LogIInv, LogTyped, Items
<1>5. queue' \in Seq(Items) /\ (ToSet(queue') = ToSet(queue) \/ ToSet(queue') = ToSet(queue) \cup {Stop})
  BY <1>1, <1>4, AppendHolds
<1>6. LogTyped' /\ ThreadFits' /\ ProcessFits'
  BY <1>1, <1>2, <1>3, <1>5 DEF LogIInv, LogTyped, ThreadFits, ProcessFits, disk
<1>7. NothingIsLost'
  BY <1>1, <1>4, <1>5 DEF LogIInv, LogTyped, NothingIsLost, InMemory, disk
<1>8. CASE queue' = Append(queue, Stop) /\ stopping' = "told"
  <2>1. /\ DOMAIN queue' = 1..(Len(queue) + 1) /\ \A i \in DOMAIN queue : queue'[i] = queue[i]
        /\ DOMAIN queue = 1..Len(queue) /\ Len(queue) \in Nat
    BY <1>4, <1>8, AppendHolds
  <2>2. ASSUME NEW i \in DOMAIN queue', NEW j \in DOMAIN queue', i < j
        PROVE  queue'[i] # Stop
    <3>1. i \in DOMAIN queue /\ queue'[i] = queue[i]
      BY <2>1, <2>2
    <3> QED
      BY <1>2, <3>1 DEF ToSet
  <2>3. BehindTheMarker'
    BY <1>3, <1>8, <2>2 DEF BehindTheMarker
  <2> QED
    BY <1>6, <1>7, <2>3 DEF LogIInv
<1>9. CASE queue' = queue /\ stopping' = "given_up"
  <2>1. BehindTheMarker'
    BY <1>1, <1>2, <1>3, <1>9 DEF LogIInv, BehindTheMarker
  <2> QED
    BY <1>6, <1>7, <2>1 DEF LogIInv
<1> QED
  BY <1>1, <1>8, <1>9

\* What the process held is late or gone when it ends.
LEMMA ProcessEndsKept ==
  ASSUME LogIInv, ProcessEnds, UNCHANGED <<seen, disk>>, late \subseteq late', late' \subseteq Events,
         gone \subseteq gone', InMemory \cap Events \subseteq late' \cup gone',
         thread.indexable \subseteq gone'
  PROVE  LogIInv'
<1>1. /\ running' = FALSE /\ stopping' = "no" /\ queue' = <<>> /\ emitting' = {}
      /\ thread' = Working("off", <<>>, {}, FALSE, {}, "off") /\ thread' = Off /\ thread' \in Threads
  BY OffIs DEF ProcessEnds
<1>2. <<>> \in Seq(Items)
  OBVIOUS
<1>3. LogTyped'
  BY <1>1, <1>2 DEF LogIInv, LogTyped, disk
<1>4. ThreadFits' /\ ProcessFits'
  BY <1>1 DEF ThreadFits, ProcessFits, Working
<1>5. BehindTheMarker'
  BY <1>1, NothingHeld DEF BehindTheMarker
<1>6. seen \subseteq Events
  BY DEF LogIInv, LogTyped
<1>7. NothingIsLost'
  BY <1>6 DEF LogIInv, NothingIsLost, disk
<1> QED
  BY <1>3, <1>4, <1>5, <1>7 DEF LogIInv

LEMMA ExitKept == ASSUME LogIInv, Exit PROVE LogIInv'
<1>1. /\ ProcessEnds /\ UNCHANGED <<seen, disk>>
      /\ \/ thread.at = "off" /\ late' = late \cup emitting /\ gone' = gone
         \/ gone' = gone \cup (InMemory \cap Events) /\ late' = late
  BY DEF Exit
<1>2. late \subseteq Events /\ emitting \subseteq Events /\ thread.indexable \subseteq Events
  BY DEF LogIInv, LogTyped, Threads
<1>3. CASE thread.at = "off" /\ late' = late \cup emitting /\ gone' = gone
  <2>1. thread.batch = <<>> /\ thread.indexable = {} /\ ToSet(queue) \subseteq late
    BY <1>3 DEF LogIInv, ThreadFits, BehindTheMarker, Ending
  <2>2. InMemory \cap Events \subseteq late' \cup gone'
    BY <1>3, <2>1, NothingHeld DEF InMemory
  <2> QED
    BY <1>1, <1>2, <1>3, <2>1, <2>2, ProcessEndsKept
<1>4. CASE gone' = gone \cup (InMemory \cap Events) /\ late' = late
  <2>1. thread.indexable \subseteq gone'
    BY <1>2, <1>4 DEF InMemory
  <2> QED
    BY <1>1, <1>2, <1>4, <2>1, ProcessEndsKept
<1> QED
  BY <1>1, <1>3, <1>4

LEMMA CrashKept == ASSUME LogIInv, Crash PROVE LogIInv'
<1>1. /\ ProcessEnds /\ UNCHANGED <<seen, disk, late>>
      /\ gone' = gone \cup (InMemory \cap Events)
  BY DEF Crash
<1>2. late \subseteq Events /\ thread.indexable \subseteq Events
  BY DEF LogIInv, LogTyped, Threads
<1>3. thread.indexable \subseteq gone'
  BY <1>1, <1>2 DEF InMemory
<1> QED
  BY <1>1, <1>2, <1>3, ProcessEndsKept

\* A step of the thread that leaves the queue alone and ends nothing anew.
LEMMA WorkKept ==
  ASSUME LogIInv, thread' \in Threads, ThreadFits', thread.at # "off",
         UNCHANGED <<running, stopping, queue, emitting, seen, late>>,
         Ending' => Ending, NothingIsLost', pending' \subseteq Events
  PROVE  LogIInv'
<1>1. LogTyped'
  BY DEF LogIInv, LogTyped
<1>2. thread # Off
  BY DEF Off
<1>3. ProcessFits'
  BY <1>2 DEF LogIInv, ProcessFits
<1>4. BehindTheMarker'
  BY DEF LogIInv, BehindTheMarker
<1> QED
  BY <1>1, <1>3, <1>4 DEF LogIInv

LEMMA TakeKept == ASSUME LogIInv, Take PROVE LogIInv'
<1> DEFINE n == IF Len(queue) < BatchSize THEN Len(queue) ELSE BatchSize
           batch == SubSeq(queue, 1, n)
           left == SubSeq(queue, n + 1, Len(queue))
<1>1. /\ thread.at = "ready" /\ queue # <<>> /\ queue' = left
      /\ \/ Head(batch) = Stop /\ thread' = [Off EXCEPT !.at = "replay"]
         \/ Head(batch) # Stop /\ thread' = [Off EXCEPT !.at = "items", !.batch = batch]
      /\ UNCHANGED <<running, stopping, emitting, seen, disk, late, gone>>
  BY DEF Take
<1>2. /\ queue \in Seq(Items) /\ thread.batch = <<>> /\ thread.indexable = {} /\ thread # Off
      /\ running \/ stopping # "no"
  BY <1>1 DEF LogIInv, LogTyped, ThreadFits, ProcessFits, Off
<1>3. /\ n \in 1..Len(queue) /\ n \in 0..Len(queue) /\ n \in Nat /\ Len(queue) \in Nat
      /\ DOMAIN queue = 1..Len(queue)
  BY <1>1, <1>2, LogAssumption
<1> HIDE DEF n
<1>4. /\ batch \in Seq(Items) /\ left \in Seq(Items)
      /\ ToSet(queue) = ToSet(batch) \cup ToSet(left)
      /\ Len(batch) = n /\ \A i \in 1..n : batch[i] = queue[i]
      /\ Len(left) = Len(queue) - n
      /\ \A i \in 1..(Len(queue) - n) : left[i] = queue[i + n]
  BY <1>2, <1>3, SplitHolds
<1> HIDE DEF batch, left
<1>5. Head(batch) = queue[1] /\ DOMAIN batch = 1..n /\ DOMAIN left = 1..(Len(queue) - n)
  <2>1. DOMAIN batch = 1..n /\ DOMAIN left = 1..(Len(queue) - n)
    BY <1>3, <1>4
  <2>2. Head(batch) = batch[1]
    BY <1>3, <1>4
  <2> QED
    BY <1>3, <1>4, <2>1, <2>2
<1>6. \A i, j \in DOMAIN queue : i < j /\ queue[i] = Stop => queue[j] \in late
  BY DEF LogIInv, BehindTheMarker
<1>7. ASSUME Stop \in ToSet(batch)
      PROVE  ToSet(left) \subseteq late /\ stopping = "told" /\ ~running
  <2>1. PICK i \in 1..n : queue[i] = Stop
    BY <1>4, <1>5, <1>7 DEF ToSet
  <2>2. stopping = "told" /\ ~running
    BY <1>4, <1>7 DEF LogIInv, BehindTheMarker, ProcessFits
  <2>3. ASSUME NEW j \in DOMAIN left
        PROVE  left[j] \in late
    <3>1. j + n \in DOMAIN queue /\ i < j + n /\ left[j] = queue[j + n] /\ i \in DOMAIN queue
      BY <1>3, <1>4, <1>5, <2>1, <2>3
    <3> QED
      BY <1>6, <2>1, <3>1
  <2> QED
    BY <2>2, <2>3 DEF ToSet
<1>8. /\ Stop \in ToSet(left) => stopping = "told"
      /\ \A i, j \in DOMAIN left : i < j /\ left[i] = Stop => left[j] \in late
  <2>1. Stop \in ToSet(left) => stopping = "told"
    BY <1>4 DEF LogIInv, BehindTheMarker
  <2>2. ASSUME NEW i \in DOMAIN left, NEW j \in DOMAIN left, i < j, left[i] = Stop
        PROVE  left[j] \in late
    <3>1. /\ i + n \in DOMAIN queue /\ j + n \in DOMAIN queue /\ i + n < j + n
          /\ left[i] = queue[i + n] /\ left[j] = queue[j + n]
      BY <1>3, <1>4, <1>5, <2>2
    <3> QED
      BY <1>6, <2>2, <3>1
  <2> QED
    BY <2>1, <2>2
<1>9. CASE Head(batch) = Stop /\ thread' = [Off EXCEPT !.at = "replay"]
  <2>1. thread' = Working("replay", <<>>, {}, FALSE, {}, "off")
    BY <1>9, OffIs, Zenon
  <2>2. thread' \in Threads
    BY <2>1, EmptyThreads
  <2>3. Stop \in ToSet(batch) /\ Stop \notin Events
    BY <1>3, <1>4, <1>5, <1>9, LogAssumption DEF ToSet
  <2>4. ToSet(batch) \subseteq late \cup {Stop}
    <3>1. ASSUME NEW i \in DOMAIN batch
          PROVE  batch[i] \in late \cup {Stop}
      <4>1. i \in DOMAIN queue /\ 1 \in DOMAIN queue /\ queue[1] = Stop /\ batch[i] = queue[i]
        BY <1>3, <1>4, <1>5, <1>9, <3>1
      <4> QED
        BY <1>3, <1>6, <4>1
    <3> QED
      BY <3>1 DEF ToSet
  <2>5. LogTyped'
    BY <1>1, <1>4, <2>2 DEF LogIInv, LogTyped, disk
  <2>6. ThreadFits'
    BY <2>1 DEF ThreadFits, Working
  <2>7. ProcessFits'
    BY <1>1, <1>7, <2>1, <2>3 DEF ProcessFits, Working
  <2>8. BehindTheMarker'
    BY <1>1, <1>7, <1>8, <2>3 DEF BehindTheMarker
  <2>9. NothingIsLost'
    <3>1. InMemory = ToSet(queue) \cup emitting
      BY <1>2, NothingHeld DEF InMemory
    <3>2. InMemory' = ToSet(left) \cup emitting
      BY <1>1, <2>1, NothingHeld DEF InMemory, Working
    <3>3. seen \subseteq Events
      BY DEF LogIInv, LogTyped
    <3>4. thread'.indexable = {}
      BY <2>1 DEF Working
    <3> QED
      BY <1>1, <1>2, <1>4, <2>3, <2>4, <3>1, <3>2, <3>3, <3>4 DEF LogIInv, NothingIsLost, disk
  <2> QED
    BY <2>5, <2>6, <2>7, <2>8, <2>9 DEF LogIInv
<1>10. CASE Head(batch) # Stop /\ thread' = [Off EXCEPT !.at = "items", !.batch = batch]
  <2>1. thread' = Working("items", batch, {}, FALSE, {}, "off")
    BY <1>10, OffIs, Zenon
  <2>2. thread' \in Threads
    BY <1>4, <2>1 DEF Threads, Working
  <2>3. LogTyped'
    BY <1>1, <1>4, <2>2 DEF LogIInv, LogTyped, disk
  <2>4. ThreadFits'
    BY <2>1 DEF ThreadFits, Working
  <2>5. Ending' <=> Stop \in ToSet(batch)
    BY <2>1 DEF Ending, Working
  <2>6. thread' # Off
    BY <2>1 DEF Off, Working
  <2>7. ProcessFits'
    BY <1>1, <1>2, <1>7, <2>5, <2>6 DEF LogIInv, ProcessFits
  <2>8. BehindTheMarker'
    BY <1>1, <1>7, <1>8, <2>5 DEF BehindTheMarker
  <2>9. NothingIsLost'
    BY <1>1, <1>2, <1>4, <2>1, NothingHeld DEF LogIInv, NothingIsLost, InMemory, Working, disk
  <2> QED
    BY <2>3, <2>4, <2>7, <2>8, <2>9 DEF LogIInv
<1> QED
  BY <1>1, <1>9, <1>10

LEMMA ItemKept == ASSUME LogIInv, Item PROVE LogIInv'
<1> DEFINE item == Head(thread.batch)
           more == Tail(thread.batch)
<1>1. /\ thread.at = "items" /\ thread.batch # <<>> /\ thread \in Threads
      /\ thread.then = "off" /\ thread.done = {}
      /\ UNCHANGED <<running, stopping, queue, emitting, seen, index, pending, emergency, late>>
  BY DEF Item, LogIInv, LogTyped, ThreadFits
<1>2. /\ thread.batch \in Seq(Items) /\ thread.indexable \in SUBSET Events
      /\ thread.stops \in BOOLEAN /\ pending \subseteq Events
  BY <1>1 DEF LogIInv, LogTyped, Threads
<1>3. more \in Seq(Items) /\ item \in Items /\ ToSet(thread.batch) = {item} \cup ToSet(more)
  BY <1>1, <1>2, TailHolds
<1>4. thread = Working("items", thread.batch, thread.indexable, thread.stops, {}, "off")
  BY <1>1, ThreadIs
<1>5. \/ item = Stop /\ thread' = [thread EXCEPT !.batch = more, !.stops = TRUE]
         /\ file' = file /\ gone' = gone
      \/ item = Replay /\ thread' = [thread EXCEPT !.batch = more, !.at = "replay", !.then = "items"]
         /\ file' = file /\ gone' = gone
      \/ item \in Events /\ file' = file \cup {item} /\ gone' = gone
         /\ thread' = [thread EXCEPT !.batch = more, !.indexable = thread.indexable \cup {item}]
      \/ item \in Events /\ file' = file /\ gone' = gone \cup {item}
         /\ thread' = [thread EXCEPT !.batch = more]
  BY DEF Item, TakesStop, Rest
<1>6. /\ Stop \notin Events /\ Replay \notin Events /\ seen \subseteq Events
      /\ thread.indexable \subseteq file
  BY LogAssumption DEF LogIInv, LogTyped, ThreadFits
<1>7. /\ seen \subseteq ToSet(queue) \cup ({item} \cup ToSet(more)) \cup thread.indexable
                     \cup emitting \cup file \cup emergency \cup late \cup gone
      /\ file \subseteq index \cup pending \cup thread.indexable \cup gone
  BY <1>3 DEF LogIInv, NothingIsLost, InMemory
<1>8. ASSUME NEW a \in {"items", "replay"}, NEW x \in SUBSET Events, NEW p \in BOOLEAN,
             NEW t \in {"off", "items"}, thread' = Working(a, more, x, p, {}, t),
             a = "items" => t = "off", a = "replay" => t = "items",
             p => thread.stops \/ item = Stop,
             seen \subseteq ToSet(queue) \cup ToSet(more) \cup x \cup emitting \cup file'
                       \cup emergency \cup late \cup gone',
             file' \subseteq index \cup pending \cup x \cup gone', x \subseteq file'
      PROVE  LogIInv'
  <2>1. thread' \in Threads
    BY <1>3, <1>8 DEF Threads, Working
  <2>2. ThreadFits'
    BY <1>8 DEF ThreadFits, Working
  <2>3. Ending' => Ending
    BY <1>3, <1>8 DEF Ending, Working
  <2>4. NothingIsLost'
    BY <1>1, <1>8 DEF NothingIsLost, InMemory, Working
  <2>5. UNCHANGED <<running, stopping, queue, emitting, seen, late>> /\ pending' \subseteq Events
    BY <1>1, <1>2
  <2> QED
    BY <1>1, <2>1, <2>2, <2>3, <2>4, <2>5, WorkKept
<1> HIDE DEF item, more
<1>9. CASE item = Stop /\ thread' = [thread EXCEPT !.batch = more, !.stops = TRUE]
           /\ file' = file /\ gone' = gone
  <2>1. thread' = Working("items", more, thread.indexable, TRUE, {}, "off")
    BY <1>1, <1>9, BatchStopsSet
  <2> QED
    BY <1>2, <1>6, <1>7, <1>8, <1>9, <2>1, ZenonT(60)
<1>10. CASE item = Replay
           /\ thread' = [thread EXCEPT !.batch = more, !.at = "replay", !.then = "items"]
           /\ file' = file /\ gone' = gone
  <2>1. thread' = Working("replay", more, thread.indexable, thread.stops, {}, "items")
    <3>1. thread' = TurnsToReplay(thread, more)
      BY <1>10 DEF TurnsToReplay
    <3>2. thread' = Working("replay", more, thread.indexable, thread.stops, thread.done, "items")
      BY <1>1, <3>1, TurnsToReplayIs, Zenon
    <3> QED
      BY <1>1, <3>2, Zenon
  <2> QED
    BY <1>2, <1>6, <1>7, <1>8, <1>10, <2>1
<1>11. CASE item \in Events /\ file' = file \cup {item} /\ gone' = gone
         /\ thread' = [thread EXCEPT !.batch = more, !.indexable = thread.indexable \cup {item}]
  <2>1. thread' = Working("items", more, thread.indexable \cup {item}, thread.stops, {}, "off")
    BY <1>1, <1>11, BatchIndexableSet
  <2> QED
    BY <1>2, <1>6, <1>7, <1>8, <1>11, <2>1
<1>12. CASE item \in Events /\ file' = file /\ gone' = gone \cup {item}
         /\ thread' = [thread EXCEPT !.batch = more]
  <2>1. thread' = Working("items", more, thread.indexable, thread.stops, {}, "off")
    BY <1>1, <1>12, BatchSet
  <2> QED
    BY <1>2, <1>6, <1>7, <1>8, <1>12, <2>1
<1> QED
  BY <1>5, <1>9, <1>10, <1>11, <1>12

\* After the batch, indexed or pending, the thread is ready or ends.
LEMMA PersistedKept ==
  ASSUME LogIInv, thread.at = "items", thread.batch = <<>>, thread' = AfterBatch,
         UNCHANGED <<running, stopping, queue, emitting, seen, file, emergency, late, gone>>,
         index \subseteq index', pending \subseteq pending', pending' \subseteq Events,
         thread.indexable \subseteq index' \cup pending'
  PROVE  LogIInv'
<1>1. PICK a \in {"replay", "ready"} :
         /\ thread' = Working(a, <<>>, {}, FALSE, {}, "off")
         /\ a = "replay" => thread.stops
  BY OffIs, Zenon DEF AfterBatch
<1>2. thread' \in Threads
  BY <1>1, EmptyThreads
<1>3. ThreadFits'
  BY <1>1 DEF ThreadFits, Working
<1>4. Ending' => Ending
  BY <1>1, NothingHeld DEF Ending, Working
<1>5. NothingIsLost'
  <2>1. /\ InMemory = ToSet(queue) \cup thread.indexable \cup emitting
        /\ InMemory' = ToSet(queue) \cup emitting /\ thread'.indexable = {}
    BY <1>1, NothingHeld DEF InMemory, Working
  <2>2. thread.indexable \subseteq file
    BY DEF LogIInv, ThreadFits
  <2> QED
    BY <2>1, <2>2 DEF LogIInv, NothingIsLost
<1> QED
  BY <1>2, <1>3, <1>4, <1>5, WorkKept

LEMMA PersistKept == ASSUME LogIInv, Persist \/ PersistFails PROVE LogIInv'
<1>1. /\ thread.at = "items" /\ thread.batch = <<>> /\ thread' = AfterBatch
      /\ UNCHANGED <<running, stopping, queue, emitting, seen, file, emergency, late, gone>>
      /\ index \subseteq index' /\ (index' = index \cup thread.indexable \/ index' = index)
      /\ \/ pending' = pending /\ index' = index \cup thread.indexable
         \/ pending' = pending \cup thread.indexable
  BY DEF Persist, PersistFails
<1>2. thread.indexable \subseteq Events /\ pending \subseteq Events
  BY DEF LogIInv, LogTyped, Threads
<1> QED
  BY <1>1, <1>2, PersistedKept

LEMMA ReplayLineKept == ASSUME LogIInv, NEW e \in Events, ReplayLine(e) PROVE LogIInv'
<1>1. /\ thread.at = "replay" /\ thread \in Threads /\ index' = index \cup {e}
      /\ thread' = [thread EXCEPT !.done = thread.done \cup {e}]
      /\ UNCHANGED <<running, stopping, queue, emitting, seen, file, pending, emergency, late, gone>>
  BY DEF ReplayLine, LogIInv, LogTyped
<1>2. thread' = Working(thread.at, thread.batch, thread.indexable, thread.stops,
                        thread.done \cup {e}, thread.then)
  BY <1>1, DoneSet, Zenon
<1>3. thread' \in Threads
  BY <1>1, <1>2 DEF Threads, Working
<1>4. /\ thread'.at = thread.at /\ thread'.batch = thread.batch /\ thread'.then = thread.then
      /\ thread'.indexable = thread.indexable /\ thread'.stops = thread.stops
      /\ thread'.done = thread.done \cup {e}
  BY <1>2 DEF Working
<1>5. ThreadFits' /\ (Ending' => Ending)
  BY <1>1, <1>4 DEF LogIInv, ThreadFits, Ending
<1>6. NothingIsLost' /\ pending' \subseteq Events
  BY <1>1, <1>4 DEF LogIInv, LogTyped, NothingIsLost, InMemory
<1> QED
  BY <1>1, <1>3, <1>5, <1>6, WorkKept

LEMMA ReplayEndsKept == ASSUME LogIInv, ReplayEnds PROVE LogIInv'
<1>1. /\ thread.at = "replay" /\ thread \in Threads /\ pending' = pending \ thread.done
      /\ thread' = [thread EXCEPT !.at = thread.then, !.done = {}, !.then = "off"]
      /\ UNCHANGED <<running, stopping, queue, emitting, seen, file, index, emergency, late, gone>>
  BY DEF ReplayEnds, Unresolved, LogIInv, LogTyped
<1>2. thread' = Working(thread.then, thread.batch, thread.indexable, thread.stops, {}, "off")
  <2>1. thread' = LeavesReplay(thread)
    BY <1>1 DEF LeavesReplay
  <2> QED
    BY <1>1, <2>1, LeavesReplayIs, Zenon
<1>3. thread' \in Threads
  BY <1>1, <1>2 DEF Threads, Working
<1>4. /\ thread'.at = thread.then /\ thread'.batch = thread.batch /\ thread'.then = "off"
      /\ thread'.indexable = thread.indexable /\ thread'.stops = thread.stops
      /\ thread'.done = {} /\ thread.then \in {"off", "ready", "items"}
  BY <1>1, <1>2 DEF Threads, Working
<1>5. ThreadFits' /\ (Ending' => Ending)
  BY <1>1, <1>4 DEF LogIInv, ThreadFits, Ending
<1>6. NothingIsLost' /\ pending' \subseteq Events
  BY <1>1, <1>4 DEF LogIInv, LogTyped, ThreadFits, NothingIsLost, InMemory
<1> QED
  BY <1>1, <1>3, <1>5, <1>6, WorkKept

LEMMA LogKept == ASSUME LogIInv, [Next]_vars PROVE LogIInv'
<1>1. CASE UNCHANGED vars
  BY <1>1 DEF vars, LogIInv, LogTyped, ThreadFits, ProcessFits, BehindTheMarker, NothingIsLost,
              InMemory, Ending
<1>2. CASE Start \/ StopBegins \/ StopPut \/ Exit \/ Crash \/ RetryPending
  BY <1>2, LogStartKept, StopBeginsKept, StopPutKept, ExitKept, CrashKept, RetryKept
<1>3. CASE \E e \in Events : Emit(e) \/ Put(e) \/ ReplayLine(e)
  BY <1>3, EmitKept, PutKept, ReplayLineKept
<1>4. CASE Take \/ Item \/ Persist \/ PersistFails \/ ReplayEnds
  BY <1>4, TakeKept, ItemKept, PersistKept, ReplayEndsKept
<1> QED
  BY <1>1, <1>2, <1>3, <1>4 DEF Next

\* Whatever is emitted is on its way, in a file or accounted for, and what a file holds
\* is indexed or will be: through full queues, a refusing database, replays cut short
\* and stops, for queues, batches and events of any number.
THEOREM NothingLost == ServicesSpec => []NothingIsLost
<1>1. ServicesInit => LogIInv
  BY LogStarts DEF ServicesInit
<1>2. LogIInv /\ [ServicesNext]_servicesVars => LogIInv'
  <2> SUFFICES ASSUME LogIInv, [ServicesNext]_servicesVars
               PROVE  LogIInv'
    OBVIOUS
  <2>1. [Next]_vars
    BY DEF ServicesNext, RunLog, RunIndex, RunWorkflow, RunChat, RunCases, RunReports, RunUpdates,
           servicesVars
  <2> QED
    BY <2>1, LogKept
<1>3. LogIInv => NothingIsLost
  BY DEF LogIInv
<1> QED
  BY <1>1, <1>2, <1>3, PTL DEF ServicesSpec, servicesVars

-----------------------------------------------------------------------------
(* Confirmed updates: the claim makes a confirmation one request's own     *)
(* until its outcome is recorded, and what the request carries of the      *)
(* preview is what the confirmation still says.                            *)

ConfirmationRows ==
  [status : {"none", "pending", "expired", "executing", "executed", "failed"},
   rows : Nat, expired : BOOLEAN]
UpdateRequests ==
  [at : {"idle", "claimed", "updated", "failed"}, of : Confirmations \cup {"none"}, rows : Nat]

UpdatesTyped ==
  /\ matching \in 0..MaxRows /\ unanswered \subseteq Confirmations
  /\ confirmation \in [Confirmations -> ConfirmationRows]
  /\ updates \in [Confirmations -> Seq(Nat)]
  /\ req \in [Clicks -> UpdateRequests]

\* What the request at work knows of its confirmation, and what it has done.
WorksOn(r, c) ==
  /\ c \in Confirmations
  /\ confirmation[c].status = "executing" /\ req[r].rows = confirmation[c].rows
  /\ req[r].at = "claimed" => updates[c] = <<>>
  /\ req[r].at = "updated" => updates[c] = <<confirmation[c].rows>>
  /\ req[r].at = "failed" => updates[c] = <<>> \/ c \in unanswered

\* A confirmation is worked on by the one request that claimed it.
OneClaimEach ==
  /\ \A r \in Clicks : req[r].at # "idle" => WorksOn(r, req[r].of)
  /\ \A r, q \in Clicks :
       req[r].at # "idle" /\ req[q].at # "idle" /\ req[r].of = req[q].of => r = q

\* One that nobody has claimed has changed nothing.
Unclaimed ==
  \A c \in Confirmations :
    confirmation[c].status \in {"none", "pending", "expired"} => updates[c] = <<>>

UpdatesIInv == UpdatesTyped /\ OneClaimEach /\ Unclaimed /\ U!UpdatesAsConfirmed

LEMMA StatusSet ==
  ASSUME NEW f \in [Confirmations -> ConfirmationRows], NEW c \in Confirmations, NEW s
  PROVE  [f EXCEPT ![c].status = s]
           = [f EXCEPT ![c] = [status |-> s, rows |-> f[c].rows, expired |-> f[c].expired]]
<1>1. [f[c] EXCEPT !.status = s] = [status |-> s, rows |-> f[c].rows, expired |-> f[c].expired]
  BY DEF ConfirmationRows
<1> QED
  BY <1>1

LEMMA ExpiredSet ==
  ASSUME NEW f \in [Confirmations -> ConfirmationRows], NEW c \in Confirmations, NEW b
  PROVE  [f EXCEPT ![c].expired = b]
           = [f EXCEPT ![c] = [status |-> f[c].status, rows |-> f[c].rows, expired |-> b]]
<1>1. [f[c] EXCEPT !.expired = b] = [status |-> f[c].status, rows |-> f[c].rows, expired |-> b]
  BY DEF ConfirmationRows
<1> QED
  BY <1>1

LEMMA AtSet ==
  ASSUME NEW f \in [Clicks -> UpdateRequests], NEW r \in Clicks, NEW p
  PROVE  [f EXCEPT ![r].at = p]
           = [f EXCEPT ![r] = [at |-> p, of |-> f[r].of, rows |-> f[r].rows]]
<1>1. [f[r] EXCEPT !.at = p] = [at |-> p, of |-> f[r].of, rows |-> f[r].rows]
  BY DEF UpdateRequests
<1> QED
  BY <1>1

\* The actions, field by field.
LEMMA TickIs ==
  ASSUME UpdatesTyped, NEW c \in Confirmations, U!Tick(c)
  PROVE  /\ confirmation' = [confirmation EXCEPT ![c] =
              [status |-> confirmation[c].status, rows |-> confirmation[c].rows, expired |-> TRUE]]
         /\ UNCHANGED <<matching, updates, req, unanswered>>
BY ExpiredSet DEF U!Tick, UpdatesTyped

LEMMA ClaimIs ==
  ASSUME UpdatesTyped, NEW c \in Confirmations, NEW r \in Clicks, U!Claim(r, c)
  PROVE  /\ confirmation[c].status = "pending" /\ req[r].at = "idle"
         /\ UNCHANGED <<matching, updates, unanswered>>
         /\ \/ /\ req' = req
               /\ confirmation' = [confirmation EXCEPT ![c] =
                    [status |-> "expired", rows |-> confirmation[c].rows,
                     expired |-> confirmation[c].expired]]
            \/ /\ req' = [req EXCEPT ![r] =
                    [at |-> "claimed", of |-> c, rows |-> confirmation[c].rows]]
               /\ confirmation' = [confirmation EXCEPT ![c] =
                    [status |-> "executing", rows |-> confirmation[c].rows,
                     expired |-> confirmation[c].expired]]
<1>1. /\ confirmation[c].status = "pending" /\ req[r].at = "idle"
      /\ UNCHANGED <<matching, updates, unanswered>>
  BY DEF U!Claim
<1>2. \/ /\ req' = req
         /\ confirmation' = [confirmation EXCEPT ![c].status = "expired"]
      \/ /\ req' = [req EXCEPT ![r] =
              [at |-> "claimed", of |-> c, rows |-> confirmation[c].rows]]
         /\ confirmation' = [confirmation EXCEPT ![c].status = "executing"]
  BY Zenon DEF U!Claim, U!Claimed
<1>3. confirmation \in [Confirmations -> ConfirmationRows]
  BY DEF UpdatesTyped
<1>4. \A s : [confirmation EXCEPT ![c].status = s]
        = [confirmation EXCEPT ![c] = [status |-> s, rows |-> confirmation[c].rows,
                                       expired |-> confirmation[c].expired]]
  BY <1>3, StatusSet, Zenon
<1> QED
  BY <1>1, <1>2, <1>4, Zenon

LEMMA UpdateIs ==
  ASSUME UpdatesTyped, OneClaimEach, NEW r \in Clicks, U!Update(r)
  PROVE  /\ req[r].at = "claimed" /\ WorksOn(r, req[r].of)
         /\ updates' = [updates EXCEPT ![req[r].of] = <<confirmation[req[r].of].rows>>]
         /\ UNCHANGED <<matching, confirmation>>
         /\ \E p \in {"updated", "failed"} :
              /\ req' = [req EXCEPT ![r] = [at |-> p, of |-> req[r].of, rows |-> req[r].rows]]
              /\ p = "updated" => unanswered' = unanswered
              /\ p = "failed" => unanswered' = unanswered \cup {req[r].of}
<1>1. req[r].at = "claimed" /\ WorksOn(r, req[r].of) /\ matching = confirmation[req[r].of].rows
  BY DEF U!Update, U!Meets, OneClaimEach, WorksOn
<1>2. updates[req[r].of] = <<>> /\ Append(<<>>, matching) = <<matching>>
  BY <1>1 DEF WorksOn
<1>3. updates' = [updates EXCEPT ![req[r].of] = Append(updates[req[r].of], matching)]
  BY DEF U!Update
<1>4. updates' = [updates EXCEPT ![req[r].of] = <<confirmation[req[r].of].rows>>]
  BY <1>1, <1>2, <1>3
<1>5. \E p \in {"updated", "failed"} :
         /\ req' = [req EXCEPT ![r] = [at |-> p, of |-> req[r].of, rows |-> req[r].rows]]
         /\ p = "updated" => unanswered' = unanswered
         /\ p = "failed" => unanswered' = unanswered \cup {req[r].of}
  BY AtSet DEF U!Update, UpdatesTyped
<1> QED
  BY <1>1, <1>4, <1>5 DEF U!Update

LEMMA UpdateFailsIs ==
  ASSUME UpdatesTyped, NEW r \in Clicks, U!UpdateFails(r)
  PROVE  /\ req[r].at = "claimed"
         /\ req' = [req EXCEPT ![r] = [at |-> "failed", of |-> req[r].of, rows |-> req[r].rows]]
         /\ UNCHANGED <<matching, confirmation, updates, unanswered>>
BY AtSet DEF U!UpdateFails, UpdatesTyped

LEMMA FinishIs ==
  ASSUME UpdatesTyped, OneClaimEach, NEW r \in Clicks, U!Finish(r)
  PROVE  /\ req[r].at \in {"updated", "failed"} /\ WorksOn(r, req[r].of)
         /\ confirmation' = [confirmation EXCEPT ![req[r].of] =
              [status |-> IF req[r].at = "updated" THEN "executed" ELSE "failed",
               rows |-> confirmation[req[r].of].rows,
               expired |-> confirmation[req[r].of].expired]]
         /\ req' = [req EXCEPT ![r] = U!NoRequest]
         /\ UNCHANGED <<matching, updates, unanswered>>
<1>1. req[r].at \in {"updated", "failed"} /\ WorksOn(r, req[r].of) /\ req[r].of \in Confirmations
  BY DEF U!Finish, OneClaimEach, WorksOn
<1>2. /\ confirmation' = [confirmation EXCEPT ![req[r].of].status =
                             IF req[r].at = "updated" THEN "executed" ELSE "failed"]
      /\ req' = [req EXCEPT ![r] = U!NoRequest]
      /\ UNCHANGED <<matching, updates, unanswered>>
  BY DEF U!Finish
<1>3. confirmation \in [Confirmations -> ConfirmationRows]
  BY DEF UpdatesTyped
<1>4. \A s : [confirmation EXCEPT ![req[r].of].status = s]
        = [confirmation EXCEPT ![req[r].of] =
             [status |-> s, rows |-> confirmation[req[r].of].rows,
              expired |-> confirmation[req[r].of].expired]]
  BY <1>1, <1>3, StatusSet, Zenon
<1> QED
  BY <1>1, <1>2, <1>4, Zenon

LEMMA UpdatesStart == ASSUME Limit \in Nat PROVE U!Init => UpdatesIInv
<1> SUFFICES ASSUME U!Init PROVE UpdatesIInv
  OBVIOUS
<1>1. UpdatesTyped
  BY DEF U!Init, UpdatesTyped, U!Absent, U!NoRequest, ConfirmationRows, UpdateRequests
<1>2. \A c \in Confirmations : confirmation[c] = U!Absent /\ updates[c] = <<>>
  BY DEF U!Init
<1>3. \A r \in Clicks : req[r].at = "idle"
  BY DEF U!Init, U!NoRequest
<1>4. OneClaimEach /\ Unclaimed
  BY <1>2, <1>3 DEF OneClaimEach, Unclaimed
<1>5. U!UpdatesAsConfirmed
  BY <1>2 DEF U!UpdatesAsConfirmed, U!Absent
<1> QED
  BY <1>1, <1>4, <1>5 DEF UpdatesIInv

LEMMA UpdatesTypedKept ==
  ASSUME MaxRows \in Nat, UpdatesTyped, OneClaimEach, [U!Next]_(U!vars)
  PROVE  UpdatesTyped'
<1>1. CASE UNCHANGED U!vars
  BY <1>1 DEF U!vars, UpdatesTyped
<1>2. CASE U!ChangeRows \/ U!Crash
  BY <1>2 DEF U!ChangeRows, U!Crash, UpdatesTyped, U!NoRequest, UpdateRequests
<1>3. ASSUME NEW c \in Confirmations, U!Preview(c)
      PROVE  UpdatesTyped'
  BY <1>3 DEF U!Preview, UpdatesTyped, ConfirmationRows
<1>4. ASSUME NEW c \in Confirmations, U!Tick(c)
      PROVE  UpdatesTyped'
  <2>1. /\ confirmation' = [confirmation EXCEPT ![c] =
             [status |-> confirmation[c].status, rows |-> confirmation[c].rows, expired |-> TRUE]]
        /\ UNCHANGED <<matching, updates, req, unanswered>>
    BY <1>4, TickIs
  <2> QED
    BY <2>1 DEF UpdatesTyped, ConfirmationRows
<1>5. ASSUME NEW c \in Confirmations, NEW r \in Clicks, U!Claim(r, c)
      PROVE  UpdatesTyped'
  <2>1. /\ UNCHANGED <<matching, updates, unanswered>>
        /\ \E s \in {"expired", "executing"} :
             confirmation' = [confirmation EXCEPT ![c] =
               [status |-> s, rows |-> confirmation[c].rows, expired |-> confirmation[c].expired]]
    BY <1>5, ClaimIs, Zenon
  <2>2. req' = req \/ req' = [req EXCEPT ![r] =
                        [at |-> "claimed", of |-> c, rows |-> confirmation[c].rows]]
    BY <1>5, ClaimIs, Zenon
  <2>3. confirmation' \in [Confirmations -> ConfirmationRows]
    BY <2>1 DEF UpdatesTyped, ConfirmationRows
  <2>4. [at |-> "claimed", of |-> c, rows |-> confirmation[c].rows] \in UpdateRequests
    BY DEF UpdatesTyped, ConfirmationRows, UpdateRequests
  <2>5. req' \in [Clicks -> UpdateRequests]
    BY <2>2, <2>4 DEF UpdatesTyped
  <2> QED
    BY <2>1, <2>3, <2>5 DEF UpdatesTyped
<1>6. ASSUME NEW r \in Clicks, U!Update(r)
      PROVE  UpdatesTyped'
  <2>1. /\ WorksOn(r, req[r].of) /\ UNCHANGED <<matching, confirmation>>
        /\ updates' = [updates EXCEPT ![req[r].of] = <<confirmation[req[r].of].rows>>]
    BY <1>6, UpdateIs
  <2>2. PICK p \in {"updated", "failed"} :
          /\ req' = [req EXCEPT ![r] = [at |-> p, of |-> req[r].of, rows |-> req[r].rows]]
          /\ unanswered' = unanswered \/ unanswered' = unanswered \cup {req[r].of}
    BY <1>6, UpdateIs, Zenon
  <2>3. req[r].of \in Confirmations /\ confirmation[req[r].of].rows \in Nat
    BY <2>1 DEF WorksOn, UpdatesTyped, ConfirmationRows
  <2>4. updates' \in [Confirmations -> Seq(Nat)]
    BY <2>1, <2>3 DEF UpdatesTyped
  <2>5. req' \in [Clicks -> UpdateRequests]
    BY <2>2 DEF UpdatesTyped, UpdateRequests
  <2> QED
    BY <2>1, <2>2, <2>3, <2>4, <2>5 DEF UpdatesTyped
<1>7. ASSUME NEW r \in Clicks, U!UpdateFails(r)
      PROVE  UpdatesTyped'
  <2>1. /\ req' = [req EXCEPT ![r] = [at |-> "failed", of |-> req[r].of, rows |-> req[r].rows]]
        /\ UNCHANGED <<matching, confirmation, updates, unanswered>>
    BY <1>7, UpdateFailsIs
  <2> QED
    BY <2>1 DEF UpdatesTyped, UpdateRequests
<1>8. ASSUME NEW r \in Clicks, U!Finish(r)
      PROVE  UpdatesTyped'
  <2>1. PICK s \in {"executed", "failed"} :
          /\ WorksOn(r, req[r].of)
          /\ confirmation' = [confirmation EXCEPT ![req[r].of] =
               [status |-> s, rows |-> confirmation[req[r].of].rows,
                expired |-> confirmation[req[r].of].expired]]
          /\ req' = [req EXCEPT ![r] = U!NoRequest]
          /\ UNCHANGED <<matching, updates, unanswered>>
    BY <1>8, FinishIs
  <2>2. confirmation' \in [Confirmations -> ConfirmationRows]
    BY <2>1 DEF WorksOn, UpdatesTyped, ConfirmationRows
  <2>3. req' \in [Clicks -> UpdateRequests]
    BY <2>1 DEF UpdatesTyped, UpdateRequests, U!NoRequest
  <2> QED
    BY <2>1, <2>2, <2>3 DEF UpdatesTyped
<1> QED
  BY <1>1, <1>2, <1>3, <1>4, <1>5, <1>6, <1>7, <1>8 DEF U!Next

LEMMA OutcomesKept ==
  ASSUME Limit \in Nat, UpdatesTyped, OneClaimEach, Unclaimed, U!UpdatesAsConfirmed,
         [U!Next]_(U!vars)
  PROVE  Unclaimed' /\ U!UpdatesAsConfirmed'
<1>1. CASE UNCHANGED U!vars
  BY <1>1 DEF U!vars, Unclaimed, U!UpdatesAsConfirmed
<1>2. CASE U!ChangeRows \/ U!Crash
  BY <1>2 DEF U!ChangeRows, U!Crash, Unclaimed, U!UpdatesAsConfirmed
<1>3. ASSUME NEW c \in Confirmations, U!Preview(c)
      PROVE  Unclaimed' /\ U!UpdatesAsConfirmed'
  BY <1>3 DEF U!Preview, UpdatesTyped, Unclaimed, U!UpdatesAsConfirmed
<1>4. ASSUME NEW c \in Confirmations, U!Tick(c)
      PROVE  Unclaimed' /\ U!UpdatesAsConfirmed'
  <2>1. /\ confirmation' = [confirmation EXCEPT ![c] =
             [status |-> confirmation[c].status, rows |-> confirmation[c].rows, expired |-> TRUE]]
        /\ UNCHANGED <<updates, unanswered>>
    BY <1>4, TickIs
  <2>2. \A d \in Confirmations : /\ confirmation'[d].status = confirmation[d].status
                                 /\ confirmation'[d].rows = confirmation[d].rows
    BY <2>1 DEF UpdatesTyped
  <2> QED
    BY <2>1, <2>2 DEF Unclaimed, U!UpdatesAsConfirmed
<1>5. ASSUME NEW c \in Confirmations, NEW r \in Clicks, U!Claim(r, c)
      PROVE  Unclaimed' /\ U!UpdatesAsConfirmed'
  <2>1. PICK s \in {"expired", "executing"} :
          /\ confirmation' = [confirmation EXCEPT ![c] =
               [status |-> s, rows |-> confirmation[c].rows, expired |-> confirmation[c].expired]]
          /\ confirmation[c].status = "pending" /\ UNCHANGED <<updates, unanswered>>
    BY <1>5, ClaimIs, Zenon
  <2>2. \A d \in Confirmations :
          /\ confirmation'[d].status = IF d = c THEN s ELSE confirmation[d].status
          /\ confirmation'[d].rows = confirmation[d].rows
    BY <2>1 DEF UpdatesTyped
  <2>3. updates[c] = <<>>
    BY <2>1 DEF Unclaimed
  <2> QED
    BY <2>1, <2>2, <2>3 DEF Unclaimed, U!UpdatesAsConfirmed
<1>6. ASSUME NEW r \in Clicks, U!Update(r)
      PROVE  Unclaimed' /\ U!UpdatesAsConfirmed'
  <2>1. /\ WorksOn(r, req[r].of) /\ confirmation' = confirmation
        /\ updates' = [updates EXCEPT ![req[r].of] = <<confirmation[req[r].of].rows>>]
    BY <1>6, UpdateIs
  <2>2. unanswered \subseteq unanswered'
    BY <1>6, UpdateIs, Zenon
  <2>3. \A d \in Confirmations :
          updates'[d] = IF d = req[r].of THEN <<confirmation[d].rows>> ELSE updates[d]
    BY <2>1 DEF UpdatesTyped
  <2>4. confirmation[req[r].of].status = "executing"
    BY <2>1 DEF WorksOn
  <2>5. Unclaimed'
    BY <2>1, <2>3, <2>4 DEF Unclaimed
  <2>6. ASSUME NEW d \in Confirmations
        PROVE  /\ updates'[d] \in {<<>>, <<confirmation[d].rows>>}
               /\ confirmation[d].rows <= Limit
               /\ confirmation[d].status = "executed" => updates'[d] # <<>>
               /\ confirmation[d].status \in {"none", "pending", "expired", "failed"} =>
                    updates'[d] = <<>> \/ d \in unanswered'
    BY <2>2, <2>3, <2>4 DEF U!UpdatesAsConfirmed
  <2> QED
    BY <2>1, <2>5, <2>6 DEF U!UpdatesAsConfirmed
<1>7. ASSUME NEW r \in Clicks, U!UpdateFails(r)
      PROVE  Unclaimed' /\ U!UpdatesAsConfirmed'
  BY <1>7, UpdateFailsIs DEF Unclaimed, U!UpdatesAsConfirmed
<1>8. ASSUME NEW r \in Clicks, U!Finish(r)
      PROVE  Unclaimed' /\ U!UpdatesAsConfirmed'
  <2> DEFINE o == req[r].of
             s == IF req[r].at = "updated" THEN "executed" ELSE "failed"
  <2>1. /\ WorksOn(r, o) /\ req[r].at \in {"updated", "failed"}
        /\ confirmation' = [confirmation EXCEPT ![o] =
             [status |-> s, rows |-> confirmation[o].rows, expired |-> confirmation[o].expired]]
        /\ UNCHANGED <<updates, unanswered>>
    BY <1>8, FinishIs
  <2>2. \A d \in Confirmations :
          /\ confirmation'[d].status = IF d = o THEN s ELSE confirmation[d].status
          /\ confirmation'[d].rows = confirmation[d].rows
    BY <2>1 DEF UpdatesTyped
  <2>3. /\ s \in {"executed", "failed"} /\ o \in Confirmations
        /\ s = "executed" => updates[o] # <<>>
        /\ s = "failed" => updates[o] = <<>> \/ o \in unanswered
    <3>1. o \in Confirmations /\ s \in {"executed", "failed"}
      BY <2>1 DEF WorksOn
    <3>2. CASE req[r].at = "updated"
      <4>1. updates[o] = <<confirmation[o].rows>>
        BY <2>1, <3>2 DEF WorksOn
      <4> QED
        BY <3>1, <3>2, <4>1
    <3>3. CASE req[r].at = "failed"
      BY <2>1, <3>1, <3>3 DEF WorksOn
    <3> QED
      BY <2>1, <3>2, <3>3
  <2> HIDE DEF o, s
  <2> QED
    BY <2>1, <2>2, <2>3 DEF Unclaimed, U!UpdatesAsConfirmed
<1> QED
  BY <1>1, <1>2, <1>3, <1>4, <1>5, <1>6, <1>7, <1>8 DEF U!Next

LEMMA OneClaimEachKept ==
  ASSUME UpdatesTyped, OneClaimEach, Unclaimed, [U!Next]_(U!vars)
  PROVE  OneClaimEach'
<1>1. CASE UNCHANGED U!vars
  BY <1>1 DEF U!vars, OneClaimEach, WorksOn
<1>2. CASE U!ChangeRows
  BY <1>2 DEF U!ChangeRows, OneClaimEach, WorksOn
<1>3. CASE U!Crash
  BY <1>3 DEF U!Crash, OneClaimEach, U!NoRequest
<1>4. ASSUME NEW c \in Confirmations, U!Preview(c)
      PROVE  OneClaimEach'
  BY <1>4 DEF U!Preview, UpdatesTyped, OneClaimEach, WorksOn
<1>5. ASSUME NEW c \in Confirmations, U!Tick(c)
      PROVE  OneClaimEach'
  <2>1. /\ confirmation' = [confirmation EXCEPT ![c] =
             [status |-> confirmation[c].status, rows |-> confirmation[c].rows, expired |-> TRUE]]
        /\ UNCHANGED <<updates, req, unanswered>>
    BY <1>5, TickIs
  <2>2. \A d \in Confirmations : /\ confirmation'[d].status = confirmation[d].status
                                 /\ confirmation'[d].rows = confirmation[d].rows
    BY <2>1 DEF UpdatesTyped
  <2> QED
    BY <2>1, <2>2 DEF OneClaimEach, WorksOn
<1>6. ASSUME NEW c \in Confirmations, NEW r \in Clicks, U!Claim(r, c)
      PROVE  OneClaimEach'
  <2>1. /\ confirmation[c].status = "pending" /\ req[r].at = "idle"
        /\ UNCHANGED <<updates, unanswered>>
    BY <1>6, ClaimIs
  <2>2. \A q \in Clicks : req[q].at # "idle" => req[q].of # c
    BY <2>1 DEF OneClaimEach, WorksOn
  <2>3. updates[c] = <<>>
    BY <2>1 DEF Unclaimed
  <2>4. PICK s \in {"expired", "executing"} :
          /\ confirmation' = [confirmation EXCEPT ![c] =
               [status |-> s, rows |-> confirmation[c].rows, expired |-> confirmation[c].expired]]
          /\ s = "expired" => req' = req
          /\ s = "executing" =>
               req' = [req EXCEPT ![r] =
                         [at |-> "claimed", of |-> c, rows |-> confirmation[c].rows]]
    <3>1. "expired" # "executing"
      OBVIOUS
    <3> QED
      BY <1>6, <3>1, ClaimIs, Zenon
  <2>5. \A d \in Confirmations :
          /\ d # c => confirmation'[d] = confirmation[d]
          /\ d = c => confirmation'[d].status = s /\ confirmation'[d].rows = confirmation[d].rows
    BY <2>4 DEF UpdatesTyped
  <2>6. CASE s = "expired"
    BY <2>1, <2>2, <2>4, <2>5, <2>6 DEF OneClaimEach, WorksOn
  <2>7. CASE s = "executing"
    <3>1. /\ req'[r] = [at |-> "claimed", of |-> c, rows |-> confirmation[c].rows]
          /\ \A q \in Clicks : q # r => req'[q] = req[q]
      BY <2>4, <2>7 DEF UpdatesTyped
    <3>2. ASSUME NEW q \in Clicks, req'[q].at # "idle"
          PROVE  WorksOn(q, req[q].of)' /\ (q # r => req'[q].of # c)
      BY <2>1, <2>2, <2>3, <2>5, <2>7, <3>1, <3>2 DEF OneClaimEach, WorksOn
    <3>3. req'[r].of = c
      BY <3>1
    <3>4. ASSUME NEW q \in Clicks, NEW p \in Clicks, q # r, p # r,
                 req'[q].at # "idle", req'[p].at # "idle", req'[q].of = req'[p].of
          PROVE  q = p
      BY <3>1, <3>4 DEF OneClaimEach
    <3> QED
      BY <3>2, <3>3, <3>4 DEF OneClaimEach
  <2> QED
    BY <2>6, <2>7
<1>7. ASSUME NEW r \in Clicks, U!Update(r)
      PROVE  OneClaimEach'
  <2> DEFINE o == req[r].of
  <2>1. /\ WorksOn(r, o) /\ confirmation' = confirmation /\ req[r].at = "claimed"
        /\ updates' = [updates EXCEPT ![o] = <<confirmation[o].rows>>]
    BY <1>7, UpdateIs
  <2>2. PICK p \in {"updated", "failed"} :
          /\ req' = [req EXCEPT ![r] = [at |-> p, of |-> o, rows |-> req[r].rows]]
          /\ p = "failed" => unanswered' = unanswered \cup {o}
          /\ unanswered \subseteq unanswered'
    BY <1>7, UpdateIs, Zenon
  <2>3. /\ req'[r] = [at |-> p, of |-> o, rows |-> req[r].rows]
        /\ \A q \in Clicks : q # r => req'[q] = req[q]
    BY <2>2 DEF UpdatesTyped
  <2>4. \A d \in Confirmations :
          updates'[d] = IF d = o THEN <<confirmation[d].rows>> ELSE updates[d]
    BY <2>1 DEF UpdatesTyped
  <2>5. \A q \in Clicks : q # r /\ req[q].at # "idle" => req[q].of # o
    BY <2>1 DEF OneClaimEach
  <2>6. \A q \in Clicks : req'[q].of = req[q].of /\ (req'[q].at # "idle" => req[q].at # "idle")
    BY <2>1, <2>3
  <2>7. WorksOn(r, req[r].of)'
    <3>1. /\ req'[r].of = o /\ req'[r].at = p /\ req'[r].rows = req[r].rows
          /\ updates'[o] = <<confirmation[o].rows>>
      BY <2>1, <2>3, <2>4 DEF WorksOn
    <3>2. p = "failed" => o \in unanswered'
      BY <2>2
    <3> QED
      BY <2>1, <3>1, <3>2 DEF WorksOn
  <2>8. ASSUME NEW q \in Clicks, q # r, req'[q].at # "idle"
        PROVE  WorksOn(q, req[q].of)'
    <3>1. WorksOn(q, req[q].of) /\ req'[q] = req[q] /\ req[q].of # o
      BY <2>3, <2>5, <2>8 DEF OneClaimEach
    <3> QED
      BY <2>1, <2>2, <2>4, <3>1 DEF WorksOn
  <2> HIDE DEF o
  <2> QED
    BY <2>6, <2>7, <2>8 DEF OneClaimEach
<1>8. ASSUME NEW r \in Clicks, U!UpdateFails(r)
      PROVE  OneClaimEach'
  <2>1. /\ req[r].at = "claimed" /\ UNCHANGED <<confirmation, updates, unanswered>>
        /\ req' = [req EXCEPT ![r] = [at |-> "failed", of |-> req[r].of, rows |-> req[r].rows]]
    BY <1>8, UpdateFailsIs
  <2>2. /\ req'[r] = [at |-> "failed", of |-> req[r].of, rows |-> req[r].rows]
        /\ \A q \in Clicks : q # r => req'[q] = req[q]
    BY <2>1 DEF UpdatesTyped
  <2> QED
    BY <2>1, <2>2 DEF OneClaimEach, WorksOn
<1>9. ASSUME NEW r \in Clicks, U!Finish(r)
      PROVE  OneClaimEach'
  <2> DEFINE o == req[r].of
  <2>1. /\ WorksOn(r, o) /\ req[r].at # "idle" /\ UNCHANGED <<updates, unanswered>>
        /\ req' = [req EXCEPT ![r] = U!NoRequest]
    BY <1>9, FinishIs
  <2>2. \A d \in Confirmations : d # o => confirmation'[d] = confirmation[d]
    BY <1>9, FinishIs DEF UpdatesTyped
  <2>3. /\ req'[r].at = "idle"
        /\ \A q \in Clicks : q # r => req'[q] = req[q]
    BY <2>1 DEF UpdatesTyped, U!NoRequest
  <2>4. \A q \in Clicks : q # r /\ req[q].at # "idle" => req[q].of # o
    BY <2>1 DEF OneClaimEach
  <2>5. ASSUME NEW q \in Clicks, req'[q].at # "idle"
        PROVE  q # r /\ req'[q] = req[q] /\ WorksOn(q, req[q].of)'
    <3>1. q # r /\ req'[q] = req[q]
      BY <2>3, <2>5
    <3>2. WorksOn(q, req[q].of) /\ req[q].of # o
      BY <2>4, <2>5, <3>1 DEF OneClaimEach
    <3> QED
      BY <2>1, <2>2, <3>1, <3>2 DEF WorksOn
  <2> HIDE DEF o
  <2> QED
    BY <2>5 DEF OneClaimEach
<1> QED
  BY <1>1, <1>2, <1>3, <1>4, <1>5, <1>6, <1>7, <1>8, <1>9 DEF U!Next

LEMMA UpdatesKept ==
  ASSUME UpdatesIInv, [U!Next]_(U!vars)
  PROVE  UpdatesIInv'
<1>1. UpdatesTyped /\ OneClaimEach /\ Unclaimed /\ U!UpdatesAsConfirmed
  BY DEF UpdatesIInv
<1>2. UpdatesTyped'
  BY <1>1, UpdatesTypedKept, UpdatesAssumption
<1>3. Unclaimed' /\ U!UpdatesAsConfirmed'
  BY <1>1, OutcomesKept, UpdatesAssumption
<1>4. OneClaimEach'
  BY <1>1, OneClaimEachKept
<1> QED
  BY <1>2, <1>3, <1>4 DEF UpdatesIInv

\* A confirmed update is done at most once, in the rows its preview showed, and is
\* recorded as what happened, whatever is clicked twice, lost or cut off.
THEOREM UpdatesOnce == ServicesSpec => []UpdatesAsConfirmed
<1>1. ServicesInit => UpdatesIInv
  BY UpdatesStart, UpdatesAssumption DEF ServicesInit
<1>2. UpdatesIInv /\ [ServicesNext]_servicesVars => UpdatesIInv'
  <2> SUFFICES ASSUME UpdatesIInv, [ServicesNext]_servicesVars
               PROVE  UpdatesIInv'
    OBVIOUS
  <2>1. [U!Next]_(U!vars)
    BY DEF ServicesNext, RunLog, RunIndex, RunWorkflow, RunChat, RunCases, RunReports, RunUpdates,
           servicesVars, updateVars, U!vars
  <2> QED
    BY <2>1, UpdatesKept
<1>3. UpdatesIInv => UpdatesAsConfirmed
  BY DEF UpdatesIInv, UpdatesAsConfirmed
<1> QED
  BY <1>1, <1>2, <1>3, PTL DEF ServicesSpec, servicesVars

-----------------------------------------------------------------------------
(* The assistant's answers: what the table of jobs and the stored messages *)
(* say of each other.                                                      *)

Jobs ==
  [state : {"none", "running", "cancelling"} \cup C!Ended, message : Nat]
ChatTyped ==
  /\ open \subseteq Conversations /\ listening \subseteq Conversations
  /\ answers \in [Conversations -> Seq(C!Ended \cup {"running"})]
  /\ active \in [Conversations -> Jobs]
  /\ context \in [Conversations -> SUBSET Nat]

\* A job that is in the table has a message of its own, and was given a history.
JobsFit ==
  \A c \in Conversations :
    /\ active[c].state = "none" <=> active[c] = C!NoJob
    /\ active[c] # C!NoJob =>
         active[c].message \in DOMAIN answers[c] /\ context[c] \subseteq DOMAIN answers[c]

ChatIInv == ChatTyped /\ JobsFit /\ C!AnswersAreCarried


LEMMA ChatStarts == C!Init => ChatIInv
<1> SUFFICES ASSUME C!Init PROVE ChatIInv
  OBVIOUS
<1> USE DEF C!Init
<1>1. C!NoJob \in Jobs
  BY DEF C!NoJob, Jobs
<1>2. \A c \in Conversations : active[c] = C!NoJob /\ answers[c] = <<>>
  OBVIOUS
<1>3. ChatTyped
  <2>1. <<>> \in Seq(C!Ended \cup {"running"})
    OBVIOUS
  <2> QED
    BY <1>1, <2>1 DEF ChatTyped
<1>4. JobsFit
  BY <1>2 DEF JobsFit, C!NoJob
<1>5. C!AnswersAreCarried
  BY <1>2 DEF C!AnswersAreCarried, C!Busy
<1> QED
  BY <1>3, <1>4, <1>5 DEF ChatIInv

\* A job changes its state and keeps its message.
LEMMA StateSet ==
  ASSUME active \in [Conversations -> Jobs], NEW c \in Conversations,
         NEW x \in {"running", "cancelling"} \cup C!Ended
  PROVE  LET f == [active EXCEPT ![c].state = x]
         IN  /\ f \in [Conversations -> Jobs] /\ f[c].state = x
             /\ f[c].message = active[c].message /\ f[c] # C!NoJob
             /\ \A d \in Conversations : d # c => f[d] = active[d]
<1> DEFINE j == active[c]
           k == [state |-> x, message |-> j.message]
<1>1. j \in Jobs
  OBVIOUS
<1>2. [j EXCEPT !.state = x] = k
  <2>1. j = [state |-> j.state, message |-> j.message]
    BY <1>1 DEF Jobs
  <2> QED
    BY <2>1
<1>3. k \in Jobs /\ k.state = x /\ k.message = j.message /\ k # C!NoJob
  BY <1>1 DEF Jobs, C!NoJob, C!Ended
<1>4. [active EXCEPT ![c].state = x] = [active EXCEPT ![c] = k]
  BY <1>2
<1> HIDE DEF k
<1> QED
  BY <1>3, <1>4

\* A job that only changes its state still carries its message.
LEMMA CarriedOver ==
  ASSUME ChatIInv, active' \in [Conversations -> Jobs],
         \A c \in Conversations :
           /\ active'[c].message = active[c].message
           /\ active'[c] = C!NoJob <=> active[c] = C!NoJob
           /\ active'[c].state = "none" <=> active[c].state = "none",
         open \subseteq open', open' \subseteq Conversations, listening' \subseteq Conversations,
         UNCHANGED <<answers, context, unsaved>>
  PROVE  ChatIInv'
<1>1. ChatTyped'
  BY DEF ChatIInv, ChatTyped
<1>2. JobsFit'
  BY DEF ChatIInv, JobsFit, C!NoJob
<1>3. C!AnswersAreCarried'
  BY DEF ChatIInv, C!AnswersAreCarried, C!Busy
<1> QED
  BY <1>1, <1>2, <1>3 DEF ChatIInv

LEMMA SendMessageKept ==
  ASSUME ChatIInv, NEW c \in Conversations, C!SendMessage(c)
  PROVE  ChatIInv'
<1> DEFINE m == Len(answers[c]) + 1
           j == [state |-> "running", message |-> m]
           old == answers[c]
           new == Append(old, "running")
<1>1. /\ c \in open /\ C!Admitted(c) /\ answers' = [answers EXCEPT ![c] = new]
      /\ active' = [active EXCEPT ![c] = j]
      /\ context' = [context EXCEPT ![c] = C!Context(c)]
      /\ listening' = listening \cup {c} /\ UNCHANGED <<open, unsaved>>
  BY DEF C!SendMessage
<1>2. ChatTyped /\ JobsFit /\ C!AnswersAreCarried
  BY DEF ChatIInv
<1>3. old \in Seq(C!Ended \cup {"running"})
  BY <1>2 DEF ChatTyped
<1>4. /\ new \in Seq(C!Ended \cup {"running"}) /\ m \in Nat /\ m > 0
      /\ DOMAIN new = DOMAIN old \cup {m} /\ m \notin DOMAIN old
      /\ new[m] = "running" /\ \A i \in DOMAIN old : new[i] = old[i] /\ i \in Nat
  BY <1>3
<1>5. j \in Jobs /\ j # C!NoJob /\ j.state # "none" /\ j.message = m
  BY <1>4 DEF Jobs, C!NoJob
<1>6. active[c] = C!NoJob
  BY <1>1 DEF C!Admitted, C!Busy
<1>7. /\ C!Context(c) \subseteq DOMAIN old
      /\ \A i \in C!Context(c) : old[i] = "completed"
  BY DEF C!Context
<1>8. C!Context(c) \subseteq Nat
  BY <1>4, <1>7
<1>9. DOMAIN old = 1..Len(old)
  BY <1>3
<1> HIDE DEF m, j, new, old
<1>10. /\ answers'[c] = new /\ active'[c] = j /\ context'[c] = C!Context(c)
       /\ \A d \in Conversations : d # c =>
            answers'[d] = answers[d] /\ active'[d] = active[d] /\ context'[d] = context[d]
  BY <1>1, <1>2 DEF ChatTyped
<1>11. ChatTyped'
  BY <1>1, <1>2, <1>4, <1>5, <1>8 DEF ChatTyped
<1>12. JobsFit'
  BY <1>2, <1>4, <1>5, <1>7, <1>10 DEF JobsFit
<1>13. ASSUME NEW d \in Conversations, NEW i \in DOMAIN answers'[d], answers'[d][i] = "running"
       PROVE  active'[d].message = i \/ <<d, i>> \in unsaved'
  <2>1. CASE d # c
    BY <1>1, <1>2, <1>10, <1>13, <2>1 DEF C!AnswersAreCarried
  <2>2. CASE d = c /\ i = m
    BY <1>5, <1>10, <2>2
  <2>3. CASE d = c /\ i # m
    <3>1. i \in DOMAIN old /\ old[i] = "running"
      BY <1>4, <1>10, <1>13, <2>3
    <3>2. active[c].message = i \/ <<c, i>> \in unsaved
      BY <1>2, <3>1 DEF C!AnswersAreCarried, old
    <3>3. active[c].message # i
      BY <1>6, <1>9, <3>1 DEF C!NoJob
    <3> QED
      BY <1>1, <2>3, <3>2, <3>3
  <2> QED
    BY <2>1, <2>2, <2>3
<1>14. ASSUME NEW d \in Conversations, active'[d] # C!NoJob
       PROVE  /\ d \in open' /\ answers'[d][active'[d].message] = "running"
              /\ \A e \in Conversations :
                   active'[e] # C!NoJob /\ OwnerOf[e] = OwnerOf[d] => e = d
              /\ \A i \in context'[d] : answers'[d][i] = "completed"
  <2>1. \A e \in Conversations : active[e] # C!NoJob => OwnerOf[e] # OwnerOf[c]
    BY <1>1 DEF C!Admitted, C!Busy
  <2>2. CASE d = c
    BY <1>1, <1>4, <1>5, <1>7, <1>10, <2>1, <2>2
  <2>3. CASE d # c
    BY <1>1, <1>2, <1>10, <1>14, <2>1, <2>3 DEF C!AnswersAreCarried, C!Busy
  <2> QED
    BY <2>2, <2>3
<1>15. C!AnswersAreCarried'
  BY <1>13, <1>14 DEF C!AnswersAreCarried, C!Busy
<1> QED
  BY <1>11, <1>12, <1>15 DEF ChatIInv

LEMMA StoreKept ==
  ASSUME ChatIInv, NEW c \in Conversations, C!Store(c)
  PROVE  ChatIInv'
<1> DEFINE m == active[c].message
           x == active[c].state
           old == answers[c]
           new == [old EXCEPT ![m] = x]
<1>1. /\ x \in C!Ended /\ active' = [active EXCEPT ![c] = C!NoJob]
      /\ listening' = listening \ {c} /\ UNCHANGED <<open, context>>
      /\ \/ answers' = [answers EXCEPT ![c] = new] /\ UNCHANGED unsaved
         \/ unsaved' = unsaved \cup {<<c, m>>} /\ UNCHANGED answers
  BY DEF C!Store
<1>2. ChatTyped /\ JobsFit /\ C!AnswersAreCarried
  BY DEF ChatIInv
<1>3. active[c] # C!NoJob
  BY <1>1 DEF C!NoJob, C!Ended
<1>4. m \in DOMAIN old /\ old \in Seq(C!Ended \cup {"running"})
  BY <1>2, <1>3 DEF JobsFit, ChatTyped
<1>5. /\ new \in Seq(C!Ended \cup {"running"}) /\ DOMAIN new = DOMAIN old /\ new[m] # "running"
      /\ \A i \in DOMAIN old : i # m => new[i] = old[i]
  BY <1>1, <1>4 DEF C!Ended
<1>6. C!NoJob \in Jobs /\ C!NoJob.state = "none"
  BY DEF C!NoJob, Jobs
<1> HIDE DEF m, x, old, new
<1>7. /\ active' \in [Conversations -> Jobs] /\ active'[c] = C!NoJob
      /\ \A d \in Conversations : d # c => active'[d] = active[d]
  BY <1>1, <1>2, <1>6 DEF ChatTyped
<1>8. /\ answers' \in [Conversations -> Seq(C!Ended \cup {"running"})]
      /\ answers'[c] \in {old, new}
      /\ \A d \in Conversations : d # c => answers'[d] = answers[d]
  BY <1>1, <1>2, <1>5 DEF ChatTyped, old
<1>9. ChatTyped'
  BY <1>1, <1>2, <1>7, <1>8 DEF ChatTyped
<1>10. JobsFit'
  BY <1>1, <1>2, <1>6, <1>7, <1>8 DEF JobsFit
<1>11. ASSUME NEW d \in Conversations, NEW i \in DOMAIN answers'[d], answers'[d][i] = "running"
       PROVE  active'[d].message = i \/ <<d, i>> \in unsaved'
  <2>1. CASE d # c
    BY <1>1, <1>2, <1>7, <1>8, <1>11, <2>1 DEF C!AnswersAreCarried
  <2>2. CASE d = c
    <3>1. i \in DOMAIN old /\ old[i] = "running"
      BY <1>5, <1>8, <1>11, <2>2
    <3>2. i = m \/ <<c, i>> \in unsaved
      BY <1>2, <3>1 DEF C!AnswersAreCarried, old, m
    <3>3. CASE i = m
      <4>1. unsaved' = unsaved \cup {<<c, m>>}
        <5>1. answers' # [answers EXCEPT ![c] = new]
          BY <1>2, <1>5, <1>11, <2>2, <3>3 DEF ChatTyped
        <5> QED
          BY <1>1, <5>1
      <4> QED
        BY <2>2, <3>3, <4>1
    <3> QED
      BY <1>1, <2>2, <3>2, <3>3
  <2> QED
    BY <2>1, <2>2
<1>12. ASSUME NEW d \in Conversations, active'[d] # C!NoJob
       PROVE  /\ d \in open' /\ answers'[d][active'[d].message] = "running"
              /\ \A e \in Conversations :
                   active'[e] # C!NoJob /\ OwnerOf[e] = OwnerOf[d] => e = d
              /\ \A i \in context'[d] : answers'[d][i] = "completed"
  BY <1>1, <1>2, <1>7, <1>8, <1>12 DEF C!AnswersAreCarried, C!Busy
<1>13. C!AnswersAreCarried'
  BY <1>11, <1>12 DEF C!AnswersAreCarried, C!Busy
<1> QED
  BY <1>9, <1>10, <1>13 DEF ChatIInv

LEMMA RestartKept ==
  ASSUME ChatIInv, C!Restart
  PROVE  ChatIInv'
<1> DEFINE Healed(c) == [i \in DOMAIN answers[c] |-> C!Recovered(c, i)]
<1>1. /\ active' = [c \in Conversations |-> C!NoJob] /\ listening' = {}
      /\ answers' = [c \in Conversations |-> Healed(c)]
      /\ context' = [c \in Conversations |-> {}] /\ unsaved' = {} /\ UNCHANGED open
  BY DEF C!Restart
<1>2. ASSUME NEW c \in Conversations
      PROVE  /\ Healed(c) \in Seq(C!Ended \cup {"running"})
             /\ \A i \in DOMAIN Healed(c) : Healed(c)[i] # "running"
  <2>1. answers[c] \in Seq(C!Ended \cup {"running"})
    BY DEF ChatIInv, ChatTyped
  <2>2. /\ Len(answers[c]) \in Nat /\ DOMAIN answers[c] = 1..Len(answers[c])
        /\ \A i \in DOMAIN answers[c] : answers[c][i] \in C!Ended \cup {"running"}
    BY <2>1
  <2>3. \A i \in DOMAIN answers[c] :
          C!Recovered(c, i) \in C!Ended \cup {"running"} /\ C!Recovered(c, i) # "running"
    BY <2>2 DEF C!Recovered, C!Ended
  <2> QED
    BY <2>2, <2>3, IsASeq
<1>3. C!NoJob \in Jobs /\ C!NoJob.state = "none"
  BY DEF C!NoJob, Jobs
<1> HIDE DEF Healed
<1>4. ChatTyped'
  BY <1>1, <1>2, <1>3 DEF ChatIInv, ChatTyped
<1>5. JobsFit'
  BY <1>1, <1>3 DEF JobsFit
<1>6. C!AnswersAreCarried'
  BY <1>1, <1>2 DEF C!AnswersAreCarried, C!Busy
<1> QED
  BY <1>4, <1>5, <1>6 DEF ChatIInv

LEMMA ChatKept ==
  ASSUME ChatIInv, [C!Next]_chatVars
  PROVE  ChatIInv'
<1>1. ChatTyped /\ JobsFit
  BY DEF ChatIInv
<1>2. CASE UNCHANGED chatVars
  <2>1. /\ active' = active /\ open' = open /\ listening' = listening
        /\ UNCHANGED <<answers, context, unsaved>>
    BY <1>2 DEF chatVars
  <2> QED
    BY <1>1, <2>1, CarriedOver DEF ChatTyped
<1>3. ASSUME NEW c \in Conversations, C!CreateConversation(c)
      PROVE  ChatIInv'
  <2>1. /\ active' = active /\ open' = open \cup {c} /\ listening' = listening
        /\ UNCHANGED <<answers, context, unsaved>>
    BY <1>3 DEF C!CreateConversation
  <2> QED
    BY <1>1, <2>1, CarriedOver DEF ChatTyped
<1>4. ASSUME NEW c \in Conversations, C!TaskEnds(c)
      PROVE  ChatIInv'
  <2>1. PICK x \in C!Ended : active' = [active EXCEPT ![c].state = x]
    BY <1>4 DEF C!TaskEnds
  <2>2. /\ active[c].state # "none" /\ x # "none"
        /\ UNCHANGED <<open, answers, listening, context, unsaved>>
    BY <1>4, <2>1 DEF C!TaskEnds, C!Ended
  <2>3. /\ active' \in [Conversations -> Jobs] /\ active'[c].state = x
        /\ active'[c].message = active[c].message /\ active'[c] # C!NoJob
        /\ \A d \in Conversations : d # c => active'[d] = active[d]
    BY <1>1, <2>1, StateSet DEF ChatTyped
  <2>4. active[c] # C!NoJob
    BY <1>1, <2>2 DEF JobsFit
  <2>5. \A d \in Conversations :
          /\ active'[d].message = active[d].message
          /\ active'[d] = C!NoJob <=> active[d] = C!NoJob
          /\ active'[d].state = "none" <=> active[d].state = "none"
    BY <2>2, <2>3, <2>4
  <2>6. /\ open \subseteq open' /\ open' \subseteq Conversations
        /\ listening' \subseteq Conversations /\ UNCHANGED <<answers, context, unsaved>>
    BY <1>1, <2>2 DEF ChatTyped
  <2> QED
    BY <2>3, <2>5, <2>6, CarriedOver
<1>5. ASSUME NEW c \in Conversations
      PROVE  /\ C!Cancelled(c) \in [Conversations -> Jobs]
             /\ \A d \in Conversations :
                  /\ C!Cancelled(c)[d].message = active[d].message
                  /\ C!Cancelled(c)[d] = C!NoJob <=> active[d] = C!NoJob
                  /\ C!Cancelled(c)[d].state = "none" <=> active[d].state = "none"
  <2>1. CASE active[c].state # "running"
    BY <1>1, <2>1 DEF C!Cancelled, ChatTyped
  <2>2. CASE active[c].state = "running"
    <3> DEFINE f == [active EXCEPT ![c].state = "cancelling"]
    <3>1. C!Cancelled(c) = f
      BY <2>2 DEF C!Cancelled
    <3>2. /\ f \in [Conversations -> Jobs] /\ f[c].state = "cancelling"
          /\ f[c].message = active[c].message /\ f[c] # C!NoJob
          /\ \A d \in Conversations : d # c => f[d] = active[d]
      BY <1>1, StateSet DEF ChatTyped
    <3>3. active[c] # C!NoJob /\ active[c].state # "none"
      BY <1>1, <2>2 DEF JobsFit
    <3> HIDE DEF f
    <3> QED
      BY <3>1, <3>2, <3>3
  <2> QED
    BY <2>1, <2>2
<1>6. ASSUME NEW c \in Conversations, C!CancelGeneration(c) \/ C!Disconnect(c)
      PROVE  ChatIInv'
  <2>1. /\ active' \in {active, C!Cancelled(c)} /\ open' = open /\ listening' \subseteq listening
        /\ UNCHANGED <<answers, context, unsaved>>
    BY <1>6 DEF C!CancelGeneration, C!Disconnect
  <2>2. /\ active' \in [Conversations -> Jobs]
        /\ \A d \in Conversations :
             /\ active'[d].message = active[d].message
             /\ active'[d] = C!NoJob <=> active[d] = C!NoJob
             /\ active'[d].state = "none" <=> active[d].state = "none"
    BY <1>1, <1>5, <2>1 DEF ChatTyped
  <2>3. /\ open \subseteq open' /\ open' \subseteq Conversations
        /\ listening' \subseteq Conversations /\ UNCHANGED <<answers, context, unsaved>>
    BY <1>1, <2>1 DEF ChatTyped
  <2> QED
    BY <2>2, <2>3, CarriedOver
<1>7. ASSUME NEW c \in Conversations, C!DeleteConversation(c)
      PROVE  ChatIInv'
  <2>1. /\ active[c] = C!NoJob /\ open' = open \ {c}
        /\ UNCHANGED <<answers, active, listening, context, unsaved>>
    BY <1>7 DEF C!DeleteConversation, C!Deletable
  <2>2. ChatTyped'
    BY <1>1, <2>1 DEF ChatTyped
  <2>3. JobsFit'
    BY <1>1, <2>1 DEF JobsFit
  <2>4. C!AnswersAreCarried'
    BY <2>1 DEF ChatIInv, C!AnswersAreCarried, C!Busy
  <2> QED
    BY <2>2, <2>3, <2>4 DEF ChatIInv
<1>8. ASSUME C!StopAll
      PROVE  ChatIInv'
  <2>1. /\ active' = [c \in Conversations |->
                        IF active[c].state = "running" THEN C!Cancelled(c)[c] ELSE active[c]]
        /\ UNCHANGED <<open, answers, listening, context, unsaved>>
    BY <1>8 DEF C!StopAll
  <2>2. /\ active' \in [Conversations -> Jobs]
        /\ \A d \in Conversations :
             /\ active'[d].message = active[d].message
             /\ active'[d] = C!NoJob <=> active[d] = C!NoJob
             /\ active'[d].state = "none" <=> active[d].state = "none"
    BY <1>1, <1>5, <2>1 DEF ChatTyped
  <2>3. /\ open \subseteq open' /\ open' \subseteq Conversations
        /\ listening' \subseteq Conversations /\ UNCHANGED <<answers, context, unsaved>>
    BY <1>1, <2>1 DEF ChatTyped
  <2> QED
    BY <2>2, <2>3, CarriedOver
<1> QED
  BY <1>2, <1>3, <1>4, <1>6, <1>7, <1>8, SendMessageKept, StoreKept, RestartKept DEF C!Next

\* A message says running only while a job will store its outcome; the job's conversation
\* exists, its user has no other, and what it was given is complete (send_message,
\* _finished and recover_interrupted_chats).
THEOREM AnswersCarried == ServicesSpec => []AnswersAreCarried
<1>1. ServicesInit => ChatIInv
  BY ChatStarts DEF ServicesInit
<1>2. ChatIInv /\ [ServicesNext]_servicesVars => ChatIInv'
  <2> SUFFICES ASSUME ChatIInv, [ServicesNext]_servicesVars
               PROVE  ChatIInv'
    OBVIOUS
  <2>1. [C!Next]_chatVars
    BY DEF ServicesNext, RunLog, RunIndex, RunWorkflow, RunChat, RunCases, RunReports, RunUpdates,
           servicesVars
  <2> QED
    BY <2>1, ChatKept
<1>3. ChatIInv => AnswersAreCarried
  BY DEF ChatIInv, AnswersAreCarried
<1> QED
  BY <1>1, <1>2, <1>3, PTL DEF ServicesSpec

-----------------------------------------------------------------------------
(* Test cases: a thread has read nothing but the publication it tested     *)
(* before and after, and is alone with the workbook unless a lease lapsed. *)

Generations ==
  [status : {"none", "queued", "running", "succeeded", "failed"}, pub : Nat, revises : BOOLEAN,
   sum : Nat, sources : SUBSET Nat]
CaseTasks ==
  [status : {"none", "queued", "running", "succeeded", "failed"}, attempts : Nat,
   lapsed : BOOLEAN]
CaseWorks ==
  [no : Nat, at : {"claimed", "begun", "checked", "document", "searched", "asking", "built",
                   "ended"},
   sources : SUBSET Nat, failed : BOOLEAN]
CasesTyped ==
  /\ pub \in Nat /\ book \in Nat /\ gen \in Generations /\ task \in CaseTasks
  /\ work \subseteq CaseWorks /\ overlap \in BOOLEAN

\* What was read since the first test lies between the generation's publication and the
\* present one, and after the second test is that of the generation.
ReadFrom(w) ==
  /\ w.at \in {"claimed", "begun"} => w.sources = {}
  /\ w.at \in {"checked", "document", "searched"} => w.sources \subseteq gen.pub..pub
  /\ w.at \in {"asking", "built"} => w.sources \subseteq {gen.pub}
Reads ==
  /\ gen.pub <= pub
  /\ gen.status = "none" => task.status = "none" /\ work = {}
  /\ \A w \in work : ReadFrom(w)

\* A thread that works is the only one and the generation is not finished.
AloneUnlessLapsed ==
  ~overlap =>
    /\ \A v, w \in work : v = w
    /\ \A w \in work : w.at \notin {"claimed", "ended"} => gen.status # "succeeded"

CasesIInv == CasesTyped /\ Reads /\ AloneUnlessLapsed /\ G!DownloadIsSound

GenOf(a, p, r, m, s) ==
  [status |-> a, pub |-> p, revises |-> r, sum |-> m, sources |-> s]
CaseWorkOf(n, a, s, f) == [no |-> n, at |-> a, sources |-> s, failed |-> f]

LEMMA GenIs ==
  ASSUME NEW g \in Generations
  PROVE  g = GenOf(g.status, g.pub, g.revises, g.sum, g.sources)
BY DEF Generations, GenOf

LEMMA CaseWorkIs ==
  ASSUME NEW w \in CaseWorks
  PROVE  w = CaseWorkOf(w.no, w.at, w.sources, w.failed)
BY DEF CaseWorks, CaseWorkOf

\* A generation of which only the status is written.
LEMMA GenMarked ==
  ASSUME NEW g \in Generations,
         NEW a \in {"none", "queued", "running", "succeeded", "failed"}
  PROVE  LET f == [g EXCEPT !.status = a]
         IN  f \in Generations /\ f.status = a /\ f.pub = g.pub /\ f.sum = g.sum
             /\ f.sources = g.sources
<1> DEFINE x == g.status  p == g.pub  r == g.revises  m == g.sum  s == g.sources
<1>1. g = GenOf(x, p, r, m, s)
  BY GenIs
<1>2. /\ p \in Nat /\ r \in BOOLEAN /\ m \in Nat /\ s \in SUBSET Nat
  BY DEF Generations
<1> HIDE DEF x, p, r, m, s
<1>3. [g EXCEPT !.status = a] = GenOf(a, p, r, m, s)
  BY <1>1 DEF GenOf
<1>4. /\ GenOf(a, p, r, m, s) \in Generations
  BY <1>2 DEF GenOf, Generations
<1>5. GenOf(a, p, r, m, s).status = a /\ GenOf(a, p, r, m, s).pub = p
      /\ GenOf(a, p, r, m, s).sum = m /\ GenOf(a, p, r, m, s).sources = s
  BY DEF GenOf
<1> QED
  BY <1>3, <1>4, <1>5 DEF p, m, s

\* A generation that is saved, with its checksum and its sources.
GenSaved(g, m, s) == [g EXCEPT !.status = "succeeded", !.sum = m, !.sources = s]
LEMMA GenSavedIs ==
  ASSUME NEW g \in Generations, NEW m \in Nat, NEW s \in SUBSET Nat
  PROVE  GenSaved(g, m, s) = GenOf("succeeded", g.pub, g.revises, m, s)
<1> DEFINE x == g.status  p == g.pub  r == g.revises  n == g.sum  t == g.sources
           ok == "succeeded"
<1>1. g = GenOf(x, p, r, n, t)
  BY GenIs
<1>2. GenSaved(g, m, s) = [g EXCEPT !.status = ok, !.sum = m, !.sources = s]
  BY Zenon DEF GenSaved
<1> HIDE DEF x, p, r, n, t, ok
<1>3. [g EXCEPT !.status = ok] = GenOf(ok, p, r, n, t)
  BY <1>1 DEF GenOf
<1>4. [GenOf(ok, p, r, n, t) EXCEPT !.sum = m] = GenOf(ok, p, r, m, t)
  BY DEF GenOf
<1>5. [GenOf(ok, p, r, m, t) EXCEPT !.sources = s] = GenOf(ok, p, r, m, s)
  BY DEF GenOf
<1> QED
  BY <1>2, <1>3, <1>4, <1>5, Zenon DEF p, r, ok

LEMMA WorkAt ==
  ASSUME NEW w \in CaseWorks, NEW a
  PROVE  [w EXCEPT !.at = a] = CaseWorkOf(w.no, a, w.sources, w.failed)
<1> DEFINE n == w.no  x == w.at  s == w.sources  f == w.failed
<1>1. w = CaseWorkOf(n, x, s, f)
  BY CaseWorkIs
<1> HIDE DEF n, x, s, f
<1>2. [w EXCEPT !.at = a] = CaseWorkOf(n, a, s, f)
  BY <1>1 DEF CaseWorkOf
<1> QED
  BY <1>2 DEF n, s, f

WorkReads(w, a, t) == [w EXCEPT !.at = a, !.sources = t]
LEMMA WorkReadsIs ==
  ASSUME NEW w \in CaseWorks, NEW a, NEW t
  PROVE  WorkReads(w, a, t) = CaseWorkOf(w.no, a, t, w.failed)
<1> DEFINE n == w.no  x == w.at  s == w.sources  f == w.failed
<1>1. w = CaseWorkOf(n, x, s, f)
  BY CaseWorkIs
<1> HIDE DEF n, x, s, f
<1>2. [w EXCEPT !.at = a] = CaseWorkOf(n, a, s, f)
  BY <1>1 DEF CaseWorkOf
<1>3. [CaseWorkOf(n, a, s, f) EXCEPT !.sources = t] = CaseWorkOf(n, a, t, f)
  BY DEF CaseWorkOf
<1> QED
  BY <1>2, <1>3, Zenon DEF WorkReads, n, f

WorkRaised(w) == [w EXCEPT !.at = "ended", !.failed = TRUE]
LEMMA WorkRaisedIs ==
  ASSUME NEW w \in CaseWorks
  PROVE  WorkRaised(w) = CaseWorkOf(w.no, "ended", w.sources, TRUE)
<1> DEFINE n == w.no  x == w.at  s == w.sources  f == w.failed  a == "ended"  y == TRUE
<1>1. w = CaseWorkOf(n, x, s, f)
  BY CaseWorkIs
<1>2. WorkRaised(w) = [w EXCEPT !.at = a, !.failed = y]
  BY Zenon DEF WorkRaised
<1> HIDE DEF n, x, s, f, a, y
<1>3. [w EXCEPT !.at = a] = CaseWorkOf(n, a, s, f)
  BY <1>1 DEF CaseWorkOf
<1>4. [CaseWorkOf(n, a, s, f) EXCEPT !.failed = y] = CaseWorkOf(n, a, s, y)
  BY DEF CaseWorkOf
<1> QED
  BY <1>2, <1>3, <1>4, Zenon DEF n, s, a, y

LEMMA CaseWorkFields ==
  ASSUME NEW n \in Nat, NEW s \in SUBSET Nat, NEW f \in BOOLEAN,
         NEW a \in {"claimed", "begun", "checked", "document", "searched", "asking", "built",
                    "ended"}
  PROVE  LET v == CaseWorkOf(n, a, s, f)
         IN  v \in CaseWorks /\ v.at = a /\ v.sources = s
BY DEF CaseWorkOf, CaseWorks

\* The task of a generation after its thread has settled it.
LEMMA TaskSettled ==
  ASSUME NEW t \in CaseTasks, NEW a \in {"succeeded", "failed", "queued"}
  PROVE  [t EXCEPT !.lapsed = FALSE, !.status = a] \in CaseTasks
<1> DEFINE Tsk(x, n, l) == [status |-> x, attempts |-> n, lapsed |-> l]
           y == t.status  n == t.attempts  k == t.lapsed  no == FALSE
<1>1. t = Tsk(y, n, k) /\ n \in Nat
  BY DEF CaseTasks
<1>2. [t EXCEPT !.lapsed = no] = Tsk(y, n, no)
  <2> HIDE DEF y, n, k, no
  <2> QED
    BY <1>1
<1>3. [Tsk(y, n, no) EXCEPT !.status = a] = Tsk(a, n, no)
  <2> HIDE DEF y, n, k, no
  <2> QED
    OBVIOUS
<1>4. Tsk(a, n, no) \in CaseTasks
  BY <1>1 DEF CaseTasks
<1> HIDE DEF Tsk, y, n, k
<1> QED
  BY <1>2, <1>3, <1>4, Zenon DEF no

LEMMA CasesStart == G!Init => CasesIInv
<1> SUFFICES ASSUME G!Init PROVE CasesIInv
  OBVIOUS
<1> USE DEF G!Init, G!NoTask
<1>1. CasesTyped
  BY DEF CasesTyped, Generations, CaseTasks
<1>2. Reads /\ AloneUnlessLapsed
  BY DEF Reads, AloneUnlessLapsed
<1>3. G!DownloadIsSound
  BY DEF G!DownloadIsSound, G!Offered
<1> QED
  BY <1>1, <1>2, <1>3 DEF CasesIInv

\* A thread goes on, and nothing but its own record changes.
LEMMA ThreadGoes ==
  ASSUME CasesIInv, NEW w \in work, NEW v \in CaseWorks, G!Goes(w, v), ReadFrom(v),
         v.at \notin {"claimed", "ended"} => w.at \notin {"claimed", "ended"},
         UNCHANGED <<pub, gen, book, task, overlap>>
  PROVE  CasesIInv'
<1>1. work' = (work \ {w}) \cup {v}
  BY DEF G!Goes
<1>2. CasesTyped'
  BY <1>1 DEF CasesIInv, CasesTyped
<1>3. Reads'
  BY <1>1 DEF CasesIInv, Reads, ReadFrom
<1>4. AloneUnlessLapsed'
  BY <1>1 DEF CasesIInv, AloneUnlessLapsed
<1>5. G!DownloadIsSound'
  BY DEF CasesIInv, G!DownloadIsSound, G!Offered
<1> QED
  BY <1>2, <1>3, <1>4, <1>5 DEF CasesIInv

\* A thread ends, and marks the generation with the outcome.
LEMMA ThreadMarks ==
  ASSUME CasesIInv, NEW w \in work, NEW v \in CaseWorks, G!Goes(w, v), v.at = "ended",
         gen' \in Generations, gen'.pub = gen.pub, gen'.status \in {"failed", "succeeded"},
         G!DownloadIsSound', UNCHANGED <<pub, book, task, overlap>>,
         w.at \notin {"claimed", "ended"}
  PROVE  CasesIInv'
<1>1. work' = (work \ {w}) \cup {v}
  BY DEF G!Goes
<1>2. CasesTyped'
  BY <1>1 DEF CasesIInv, CasesTyped
<1>3. Reads'
  BY <1>1 DEF CasesIInv, Reads, ReadFrom
<1>4. AloneUnlessLapsed'
  BY <1>1 DEF CasesIInv, AloneUnlessLapsed
<1> QED
  BY <1>2, <1>3, <1>4 DEF CasesIInv

LEMMA CreateKept == ASSUME CasesIInv, G!Create PROVE CasesIInv'
<1>1. PICK revises \in BOOLEAN :
        gen' = [status |-> "queued", pub |-> pub, revises |-> revises, sum |-> 0,
                sources |-> {}]
  BY DEF G!Create
<1>2. /\ gen.status = "none" /\ task' = [G!NoTask EXCEPT !.status = "queued"]
      /\ UNCHANGED <<pub, book, work, overlap>>
  BY DEF G!Create
<1>3. work = {} /\ pub \in Nat
  BY <1>2 DEF CasesIInv, Reads, CasesTyped
<1>4. gen' \in Generations /\ gen'.pub = pub /\ gen'.status = "queued"
  BY <1>1, <1>3 DEF Generations
<1>5. task' \in CaseTasks
  BY <1>2 DEF G!NoTask, CaseTasks
<1>6. CasesTyped'
  BY <1>2, <1>4, <1>5 DEF CasesIInv, CasesTyped
<1>7. Reads' /\ AloneUnlessLapsed'
  BY <1>2, <1>3, <1>4 DEF Reads, AloneUnlessLapsed
<1>8. G!DownloadIsSound'
  BY <1>4 DEF G!DownloadIsSound, G!Offered
<1> QED
  BY <1>6, <1>7, <1>8 DEF CasesIInv

LEMMA CaseClaimKept == ASSUME CasesIInv, G!Claim PROVE CasesIInv'
<1> DEFINE n == task.attempts + 1
           v == [no |-> n, at |-> "claimed", sources |-> {}, failed |-> FALSE]
<1>1. /\ task.status \in {"queued", "running"}
      /\ task' = [status |-> "running", attempts |-> n, lapsed |-> FALSE]
      /\ work' = work \cup {v} /\ overlap' = (overlap \/ work # {})
      /\ UNCHANGED <<pub, gen, book>>
  BY DEF G!Claim
<1>2. n \in Nat
  BY DEF CasesIInv, CasesTyped, CaseTasks
<1> HIDE DEF n
<1>3. v \in CaseWorks /\ v.at = "claimed" /\ v.sources = {} /\ task' \in CaseTasks
  BY <1>1, <1>2 DEF CaseWorks, CaseTasks
<1> HIDE DEF v
<1>4. CasesTyped'
  BY <1>1, <1>3 DEF CasesIInv, CasesTyped
<1>5. Reads'
  BY <1>1, <1>3 DEF CasesIInv, Reads, ReadFrom
<1>6. AloneUnlessLapsed'
  BY <1>1, <1>3 DEF CasesIInv, AloneUnlessLapsed
<1>7. G!DownloadIsSound'
  BY <1>1 DEF CasesIInv, G!DownloadIsSound, G!Offered
<1> QED
  BY <1>4, <1>5, <1>6, <1>7 DEF CasesIInv

LEMMA CaseBeginKept == ASSUME CasesIInv, NEW w \in work, G!Begin(w) PROVE CasesIInv'
<1>1. w \in CaseWorks /\ gen \in Generations /\ w.sources = {} /\ w.at = "claimed"
  BY DEF CasesIInv, CasesTyped, Reads, ReadFrom, G!Begin
<1>2. w.no \in Nat /\ w.sources \in SUBSET Nat /\ w.failed \in BOOLEAN
  BY <1>1 DEF CaseWorks
<1>3. CASE gen.status = "succeeded"
  <2> DEFINE v == [w EXCEPT !.at = "ended"]
  <2>1. G!Goes(w, v) /\ UNCHANGED <<pub, gen, book, task, overlap>>
    BY <1>3 DEF G!Begin, G!Done
  <2>2. v \in CaseWorks /\ v.at = "ended"
    BY <1>1, <1>2, WorkAt, CaseWorkFields
  <2> HIDE DEF v
  <2>3. ReadFrom(v)
    BY <2>2 DEF ReadFrom
  <2> QED
    BY <2>1, <2>2, <2>3, ThreadGoes
<1>4. CASE gen.status # "succeeded"
  <2> DEFINE a == IF gen.revises THEN "asking" ELSE "begun"
             v == [w EXCEPT !.at = a]
  <2>1. /\ G!Goes(w, v) /\ gen' = [gen EXCEPT !.status = "running"]
        /\ UNCHANGED <<pub, book, task, overlap>>
    BY <1>4 DEF G!Begin, G!Done
  <2>2. v \in CaseWorks /\ v.at = a /\ v.sources = {}
    <3>1. a \in {"begun", "asking"}
      OBVIOUS
    <3> HIDE DEF a
    <3> QED
      BY <1>1, <1>2, <3>1, WorkAt, CaseWorkFields
  <2>3. v.at \in {"begun", "asking"}
    BY <2>2
  <2> HIDE DEF v, a
  <2>4. work' = (work \ {w}) \cup {v}
    BY <2>1 DEF G!Goes
  <2>5. gen' \in Generations /\ gen'.status = "running" /\ gen'.pub = gen.pub
    BY <1>1, <2>1, GenMarked
  <2>6. CasesTyped'
    BY <2>1, <2>2, <2>4, <2>5 DEF CasesIInv, CasesTyped
  <2>7. Reads'
    BY <2>1, <2>2, <2>3, <2>4, <2>5 DEF CasesIInv, Reads, ReadFrom
  <2>8. AloneUnlessLapsed'
    BY <2>1, <2>3, <2>4, <2>5 DEF CasesIInv, AloneUnlessLapsed
  <2>9. G!DownloadIsSound'
    BY <2>5 DEF G!DownloadIsSound, G!Offered
  <2> QED
    BY <2>6, <2>7, <2>8, <2>9 DEF CasesIInv
<1> QED
  BY <1>3, <1>4

LEMMA ReadingKept ==
  ASSUME CasesIInv, NEW w \in work, G!Check(w) \/ G!ReadIndex(w) \/ G!CheckAgain(w)
  PROVE  CasesIInv'
<1>1. /\ w \in CaseWorks /\ gen.pub \in Nat /\ pub \in Nat /\ gen.pub <= pub /\ ReadFrom(w)
      /\ UNCHANGED <<pub, gen, book, task, overlap>>
  BY DEF CasesIInv, CasesTyped, Reads, Generations, G!Check, G!ReadIndex, G!CheckAgain
<1>2. w.no \in Nat /\ w.sources \in SUBSET Nat /\ w.failed \in BOOLEAN
  BY <1>1 DEF CaseWorks
<1>3. CASE G!Check(w)
  <2> DEFINE v == [w EXCEPT !.at = "checked"]
  <2>1. w.at = "begun" /\ G!Goes(w, v)
    BY <1>3 DEF G!Check
  <2>2. v \in CaseWorks /\ v.at = "checked" /\ v.sources = w.sources
    <3>1. v = CaseWorkOf(w.no, "checked", w.sources, w.failed)
      BY <1>1, WorkAt
    <3> HIDE DEF v
    <3> QED
      BY <1>2, <3>1, CaseWorkFields
  <2> HIDE DEF v
  <2>3. ReadFrom(v)
    BY <1>1, <2>1, <2>2 DEF ReadFrom
  <2> QED
    BY <1>1, <2>1, <2>2, <2>3, ThreadGoes
<1>4. CASE G!ReadIndex(w)
  <2> DEFINE a == IF w.at = "checked" THEN "document" ELSE "searched"
             t == w.sources \cup {pub}
             v == WorkReads(w, a, t)
  <2>1. w.at \in {"checked", "document"} /\ G!Goes(w, v)
    BY <1>4, Zenon DEF G!ReadIndex, WorkReads
  <2>2. a \in {"document", "searched"} /\ t \in SUBSET Nat /\ t \subseteq gen.pub..pub
    BY <1>1, <1>2, <2>1 DEF ReadFrom
  <2> HIDE DEF a, t
  <2>3. v \in CaseWorks /\ v.at = a /\ v.sources = t
    BY <1>1, <1>2, <2>2, WorkReadsIs, CaseWorkFields
  <2> HIDE DEF v
  <2>4. ReadFrom(v)
    BY <2>2, <2>3 DEF ReadFrom
  <2> QED
    BY <1>1, <2>1, <2>2, <2>3, <2>4, ThreadGoes
<1>5. CASE G!CheckAgain(w)
  <2> DEFINE v == [w EXCEPT !.at = "asking"]
  <2>1. w.at = "searched" /\ gen.pub = pub /\ G!Goes(w, v)
    BY <1>5 DEF G!CheckAgain, G!Unchanged
  <2>2. v \in CaseWorks /\ v.at = "asking" /\ v.sources = w.sources
    <3>1. v = CaseWorkOf(w.no, "asking", w.sources, w.failed)
      BY <1>1, WorkAt
    <3> HIDE DEF v
    <3> QED
      BY <1>2, <3>1, CaseWorkFields
  <2> HIDE DEF v
  <2>3. ReadFrom(v)
    BY <1>1, <2>1, <2>2 DEF ReadFrom
  <2> QED
    BY <1>1, <2>1, <2>2, <2>3, ThreadGoes
<1> QED
  BY <1>3, <1>4, <1>5

LEMMA BuildWorkbookKept ==
  ASSUME CasesIInv, NEW w \in work, G!BuildWorkbook(w)
  PROVE  CasesIInv'
<1> DEFINE v == [w EXCEPT !.at = "built"]
<1>1. /\ w.at = "asking" /\ book' = w.no /\ G!Goes(w, v)
      /\ UNCHANGED <<pub, gen, task, overlap>>
  BY DEF G!BuildWorkbook
<1>2. w \in CaseWorks /\ ReadFrom(w)
  BY DEF CasesIInv, CasesTyped, Reads
<1>3. w.no \in Nat /\ w.sources \in SUBSET Nat /\ w.failed \in BOOLEAN
  BY <1>2 DEF CaseWorks
<1>4. v \in CaseWorks /\ v.at = "built" /\ v.sources = w.sources
  BY <1>2, <1>3, WorkAt, CaseWorkFields
<1> HIDE DEF v
<1>5. work' = (work \ {w}) \cup {v} /\ ReadFrom(v)
  BY <1>1, <1>2, <1>4 DEF G!Goes, ReadFrom
<1>6. CasesTyped'
  BY <1>1, <1>3, <1>4, <1>5 DEF CasesIInv, CasesTyped
<1>7. Reads'
  BY <1>1, <1>5 DEF CasesIInv, Reads, ReadFrom
<1>8. AloneUnlessLapsed'
  BY <1>1, <1>4, <1>5 DEF CasesIInv, AloneUnlessLapsed
<1>9. ~overlap => gen.status # "succeeded"
  BY <1>1 DEF CasesIInv, AloneUnlessLapsed
<1>10. G!DownloadIsSound'
  BY <1>1, <1>9 DEF CasesIInv, G!DownloadIsSound, G!Offered
<1> QED
  BY <1>6, <1>7, <1>8, <1>10 DEF CasesIInv

LEMMA SaveKept == ASSUME CasesIInv, NEW w \in work, G!Save(w) PROVE CasesIInv'
<1> DEFINE v == [w EXCEPT !.at = "ended"]
           s == w.sources
<1>1. /\ w.at = "built" /\ G!Goes(w, v) /\ UNCHANGED <<pub, book, task, overlap>>
  BY DEF G!Save
<1>2. gen' = GenSaved(gen, book, s)
  BY Zenon DEF G!Save, GenSaved
<1>3. w \in CaseWorks /\ ReadFrom(w) /\ gen \in Generations /\ book \in Nat
  BY DEF CasesIInv, CasesTyped, Reads
<1>4. w.no \in Nat /\ w.sources \in SUBSET Nat /\ w.failed \in BOOLEAN
  BY <1>3 DEF CaseWorks
<1>5. v \in CaseWorks /\ v.at = "ended"
  <2>1. v = CaseWorkOf(w.no, "ended", w.sources, w.failed)
    BY <1>3, WorkAt
  <2> HIDE DEF v
  <2> QED
    BY <1>4, <2>1, CaseWorkFields
<1>6. s \subseteq {gen.pub} /\ s \in SUBSET Nat
  BY <1>1, <1>3, <1>4 DEF ReadFrom
<1> HIDE DEF v, s
<1>7. gen' = GenOf("succeeded", gen.pub, gen.revises, book, s)
  BY <1>2, <1>3, <1>6, GenSavedIs
<1>8. gen.pub \in Nat /\ gen.revises \in BOOLEAN
  BY <1>3 DEF Generations
<1>9. /\ gen' \in Generations /\ gen'.status = "succeeded" /\ gen'.pub = gen.pub
      /\ gen'.sum = book /\ gen'.sources = s
  BY <1>3, <1>6, <1>7, <1>8 DEF GenOf, Generations
<1>10. G!DownloadIsSound'
  BY <1>1, <1>6, <1>9 DEF G!DownloadIsSound, G!Offered
<1> QED
  BY <1>1, <1>5, <1>9, <1>10, ThreadMarks

LEMMA RaiseKept == ASSUME CasesIInv, NEW w \in work, G!Raise(w) PROVE CasesIInv'
<1> DEFINE v == WorkRaised(w)
<1>1. /\ w.at \notin {"claimed", "ended"} /\ gen' = [gen EXCEPT !.status = "failed"]
      /\ UNCHANGED <<pub, book, task, overlap>>
  BY DEF G!Raise
<1>2. G!Goes(w, v)
  BY Zenon DEF G!Raise, WorkRaised
<1>3. w \in CaseWorks /\ gen \in Generations
  BY DEF CasesIInv, CasesTyped
<1>4. w.no \in Nat /\ w.sources \in SUBSET Nat
  BY <1>3 DEF CaseWorks
<1>5. v \in CaseWorks /\ v.at = "ended"
  <2>1. v = CaseWorkOf(w.no, "ended", w.sources, TRUE)
    BY <1>3, WorkRaisedIs
  <2> HIDE DEF v
  <2> QED
    BY <1>4, <2>1 DEF CaseWorkOf, CaseWorks
<1> HIDE DEF v
<1>6. gen' \in Generations /\ gen'.status = "failed" /\ gen'.pub = gen.pub
  BY <1>1, <1>3, GenMarked
<1>7. G!DownloadIsSound'
  BY <1>6 DEF G!DownloadIsSound, G!Offered
<1> QED
  BY <1>1, <1>2, <1>5, <1>6, <1>7, ThreadMarks

\* Threads are gone, or the task is settled or lapses, and the generation is as it was.
LEMMA TaskMoves ==
  ASSUME CasesIInv, work' \subseteq work, task' \in CaseTasks,
         task' # task => task.status = "running",
         UNCHANGED <<pub, gen, book, overlap>>
  PROVE  CasesIInv'
<1>1. CasesTyped'
  BY DEF CasesIInv, CasesTyped
<1>2. Reads'
  BY DEF CasesIInv, Reads, ReadFrom
<1>3. AloneUnlessLapsed'
  BY DEF CasesIInv, AloneUnlessLapsed
<1>4. G!DownloadIsSound'
  BY DEF CasesIInv, G!DownloadIsSound, G!Offered
<1> QED
  BY <1>1, <1>2, <1>3, <1>4 DEF CasesIInv

LEMMA SettleKept == ASSUME CasesIInv, NEW w \in work, G!Settle(w) PROVE CasesIInv'
<1>1. /\ work' \subseteq work /\ UNCHANGED <<pub, gen, book, overlap>> /\ task \in CaseTasks
  BY DEF G!Settle, CasesIInv, CasesTyped
<1>2. CASE task.status # "running"
  <2>1. task' = task
    BY <1>2 DEF G!Settle
  <2> QED
    BY <1>1, <2>1, TaskMoves
<1>3. CASE task.status = "running"
  <2> DEFINE a == IF ~w.failed THEN "succeeded"
                  ELSE IF task.attempts >= MaxAttempts THEN "failed" ELSE "queued"
  <2>1. task' = [task EXCEPT !.lapsed = FALSE, !.status = a]
    BY <1>3, Zenon DEF G!Settle
  <2>2. a \in {"succeeded", "failed", "queued"}
    OBVIOUS
  <2> HIDE DEF a
  <2>3. task' \in CaseTasks
    BY <1>1, <2>1, <2>2, TaskSettled, Zenon
  <2> QED
    BY <1>1, <1>3, <2>3, TaskMoves
<1> QED
  BY <1>2, <1>3

LEMMA CasesKept ==
  ASSUME CasesIInv, [G!Next]_caseVars
  PROVE  CasesIInv'
<1>1. CASE UNCHANGED caseVars
  <2>1. /\ work' \subseteq work /\ task' = task
        /\ UNCHANGED <<pub, gen, book, overlap>>
    BY <1>1 DEF caseVars
  <2>2. task' \in CaseTasks
    BY <2>1 DEF CasesIInv, CasesTyped
  <2> QED
    BY <2>1, <2>2, TaskMoves
<1>2. CASE G!Create
  BY <1>2, CreateKept
<1>3. CASE G!PublishIndex
  <2>1. pub' = pub + 1 /\ UNCHANGED <<gen, book, task, work, overlap>>
    BY <1>3 DEF G!PublishIndex
  <2>2. pub \in Nat /\ gen.pub \in Nat
    BY DEF CasesIInv, CasesTyped, Generations
  <2>3. CasesTyped'
    BY <2>1, <2>2 DEF CasesIInv, CasesTyped
  <2>4. Reads'
    <3>1. gen.pub <= pub' /\ gen.pub..pub \subseteq gen.pub..pub'
      BY <2>1, <2>2 DEF CasesIInv, Reads
    <3>2. \A w \in work : ReadFrom(w)'
      BY <2>1, <3>1 DEF CasesIInv, Reads, ReadFrom
    <3> QED
      BY <2>1, <3>1, <3>2 DEF CasesIInv, Reads
  <2>5. AloneUnlessLapsed' /\ G!DownloadIsSound'
    BY <2>1 DEF CasesIInv, AloneUnlessLapsed, G!DownloadIsSound, G!Offered
  <2> QED
    BY <2>1, <2>3, <2>4, <2>5 DEF CasesIInv
<1>4. CASE G!Claim
  BY <1>4, CaseClaimKept
<1>5. CASE G!Lapse
  <2>1. /\ task.status = "running" /\ task' = [task EXCEPT !.lapsed = TRUE]
        /\ work' \subseteq work /\ UNCHANGED <<pub, gen, book, overlap>>
    BY <1>5 DEF G!Lapse
  <2>2. task' \in CaseTasks
    BY <2>1 DEF CasesIInv, CasesTyped, CaseTasks
  <2> QED
    BY <2>1, <2>2, TaskMoves
<1>6. CASE G!Crash
  <2>1. /\ task' = task /\ work' \subseteq work /\ UNCHANGED <<pub, gen, book, overlap>>
    BY <1>6 DEF G!Crash
  <2>2. task' \in CaseTasks
    BY <2>1 DEF CasesIInv, CasesTyped
  <2> QED
    BY <2>1, <2>2, TaskMoves
<1>7. ASSUME NEW w \in work, G!Begin(w)
      PROVE  CasesIInv'
  BY <1>7, CaseBeginKept
<1>8. ASSUME NEW w \in work, G!Check(w) \/ G!ReadIndex(w) \/ G!CheckAgain(w)
      PROVE  CasesIInv'
  BY <1>8, ReadingKept
<1>9. ASSUME NEW w \in work, G!BuildWorkbook(w)
      PROVE  CasesIInv'
  BY <1>9, BuildWorkbookKept
<1>10. ASSUME NEW w \in work, G!Save(w)
       PROVE  CasesIInv'
  BY <1>10, SaveKept
<1>11. ASSUME NEW w \in work, G!Raise(w)
       PROVE  CasesIInv'
  BY <1>11, RaiseKept
<1>12. ASSUME NEW w \in work, G!Settle(w)
       PROVE  CasesIInv'
  BY <1>12, SettleKept
<1> QED
  BY <1>1, <1>2, <1>3, <1>4, <1>5, <1>6, <1>7, <1>8, <1>9, <1>10, <1>11, <1>12 DEF G!Next

\* What is offered for download is the workbook whose checksum was stored, unless a
\* lapsed lease let two threads overlap, and all its sources were read from the
\* publication its requirement was chosen in (execute_smart_case_generation).
THEOREM DownloadSound == ServicesSpec => []DownloadIsSound
<1>1. ServicesInit => CasesIInv
  BY CasesStart DEF ServicesInit
<1>2. CasesIInv /\ [ServicesNext]_servicesVars => CasesIInv'
  <2> SUFFICES ASSUME CasesIInv, [ServicesNext]_servicesVars
               PROVE  CasesIInv'
    OBVIOUS
  <2>1. [G!Next]_caseVars
    BY DEF ServicesNext, RunLog, RunIndex, RunWorkflow, RunChat, RunCases, RunReports, RunUpdates,
           servicesVars
  <2> QED
    BY <2>1, CasesKept
<1>3. CasesIInv => DownloadIsSound
  BY DEF CasesIInv, DownloadIsSound
<1> QED
  BY <1>1, <1>2, <1>3, PTL DEF ServicesSpec

-----------------------------------------------------------------------------
(* Workflow versions: a version in force is no draft any more, so a save   *)
(* that still writes it is known to have overlapped its publication.       *)

VersionOf(no, generation, status, rev, content) ==
  [no |-> no, gen |-> generation, status |-> status, rev |-> rev, content |-> content]
PublicationOf(id, v, loaded, was, shown, pins, read, errors, plan, writing) ==
  [id |-> id, v |-> v, loaded |-> loaded, was |-> was, seen |-> shown, pins |-> pins,
   read |-> read, errors |-> errors, plan |-> plan, writing |-> writing]
RequestOf(id, loaded, want, v, status, new, was) ==
  [id |-> id, loaded |-> loaded, want |-> want, v |-> v, status |-> status, new |-> new,
   was |-> was]
IsContent(x) == x = [ok |-> x.ok, pins |-> x.pins]
IsVersion(x) ==
  x = VersionOf(x.no, x.gen, x.status, x.rev, x.content) /\ IsContent(x.content)
IsPublication(p) ==
  p = PublicationOf(p.id, p.v, p.loaded, p.was, p.seen, p.pins, p.read, p.errors, p.plan,
                    p.writing)

SeqFits(q) ==
  /\ q \in Seq({q[v] : v \in DOMAIN q})
  /\ \A v \in DOMAIN q : IsVersion(q[v])
Scenarios == [published : Nat, draft : Nat, enabled : BOOLEAN]
VersionStates == {"draft", "published", "retired", "archived"}
PointersFit ==
  /\ scenario \in Scenarios
  /\ scenario.published \in {0} \cup W!Ids /\ scenario.draft \in {0} \cup W!Ids
  /\ \A s \in saving : s.v \in W!Ids /\ IsContent(s.content)
  /\ \A p \in publishing : p.v \in W!Ids /\ IsPublication(p)

\* What a request that has loaded the scenario means to write: it takes pointers away and
\* sets none, adds a draft, and enables the version in force or nothing.
FitsAs(loaded, want, v, status, new) ==
  /\ want.published \in {0, loaded.published} /\ want.draft \in {0, loaded.draft}
  /\ want.enabled \in BOOLEAN
  /\ want.draft # 0 => ~want.enabled /\ v # want.draft
  /\ want.enabled => new = W!NoVersion /\ v # 0 /\ status = "published" /\ want.published = v
  /\ v # 0 => status \in VersionStates \ {"draft"}
  /\ IsVersion(new) /\ new.status = "draft"
WorkingFits ==
  \A q \in working :
    q.v \in {0} \cup W!Ids /\ FitsAs(q.loaded, q.want, q.v, q.status, q.new)

\* What was published was valid and is marked, whether it is in force or not.
PublishedFits ==
  scenario.published # 0 =>
    /\ versions[scenario.published].status # "draft"
    /\ scenario.published \in raced \/ versions[scenario.published].content.ok
PublishingSees ==
  \A p \in publishing :
    /\ p.v \in raced \/ versions[p.v].content.ok = p.seen.ok
    /\ p.was # "draft" => versions[p.v].status # "draft"

\* As long as no request was committed on changed rows, a scenario is enabled with a
\* version marked published or has a draft, and a publication loaded such a draft.
RowsInOrder ==
  ~overtaken =>
    /\ scenario.draft # 0 => ~scenario.enabled /\ versions[scenario.draft].status = "draft"
    /\ scenario.enabled =>
         scenario.published # 0 /\ versions[scenario.published].status = "published"
PublishingInOrder ==
  ~overtaken =>
    \A p \in publishing :
      p.was = "draft" /\ p.loaded.published # p.v /\ p.loaded.enabled = FALSE

WorkflowIInv ==
  /\ SeqFits(versions) /\ PointersFit /\ WorkingFits /\ PublishedFits /\ PublishingSees
  /\ RowsInOrder /\ PublishingInOrder

LEMMA ContentIs ==
  ASSUME NEW x, NEW y
  PROVE  IsContent([ok |-> x, pins |-> y])
BY DEF IsContent

LEMMA ContentRepinned ==
  ASSUME NEW k, IsContent(k), NEW q
  PROVE  LET x == [k EXCEPT !.pins = q] IN IsContent(x) /\ x.ok = k.ok
<1> DEFINE a == k.ok  b == k.pins
<1>1. k = [ok |-> a, pins |-> b]
  BY DEF IsContent
<1> HIDE DEF a, b
<1>2. [k EXCEPT !.pins = q] = [ok |-> a, pins |-> q]
  BY <1>1
<1> QED
  BY <1>2 DEF IsContent, a

LEMMA VersionIs ==
  ASSUME NEW a, NEW b, NEW c, NEW d, NEW k, IsContent(k)
  PROVE  LET x == VersionOf(a, b, c, d, k)
         IN  IsVersion(x) /\ x.no = a /\ x.status = c /\ x.content = k
BY DEF VersionOf, IsVersion

LEMMA VersionMarked ==
  ASSUME NEW x, IsVersion(x), NEW mark
  PROVE  LET y == [x EXCEPT !.status = mark]
         IN  IsVersion(y) /\ y.status = mark /\ y.content = x.content
<1> DEFINE a == x.no  b == x.gen  c == x.status  d == x.rev  k == x.content
<1>1. x = VersionOf(a, b, c, d, k) /\ IsContent(k)
  BY DEF IsVersion
<1> HIDE DEF a, b, c, d, k
<1>2. [x EXCEPT !.status = mark] = VersionOf(a, b, mark, d, k)
  BY <1>1 DEF VersionOf
<1> HIDE DEF VersionOf
<1>3. /\ IsVersion(VersionOf(a, b, mark, d, k)) /\ VersionOf(a, b, mark, d, k).status = mark
      /\ VersionOf(a, b, mark, d, k).content = k
  BY <1>1, VersionIs
<1> QED
  BY <1>2, <1>3 DEF k

\* A version whose contents a save or a publication replaces.
Republished(x, mark, k) == [x EXCEPT !.status = mark, !.content = k]
LEMMA RepublishedIs ==
  ASSUME NEW x, IsVersion(x), NEW mark, NEW k, IsContent(k)
  PROVE  LET y == Republished(x, mark, k)
         IN  IsVersion(y) /\ y.status = mark /\ y.content = k
<1> DEFINE a == x.no  b == x.gen  c == x.status  d == x.rev  h == x.content
<1>1. x = VersionOf(a, b, c, d, h)
  BY DEF IsVersion
<1>2. Republished(x, mark, k) = [x EXCEPT !.status = mark, !.content = k]
  BY Zenon DEF Republished
<1> HIDE DEF a, b, c, d, h
<1>3. [x EXCEPT !.status = mark] = VersionOf(a, b, mark, d, h)
  BY <1>1 DEF VersionOf
<1>4. [VersionOf(a, b, mark, d, h) EXCEPT !.content = k] = VersionOf(a, b, mark, d, k)
  BY DEF VersionOf
<1>5. Republished(x, mark, k) = VersionOf(a, b, mark, d, k)
  BY <1>2, <1>3, <1>4, Zenon
<1>6. /\ IsVersion(VersionOf(a, b, mark, d, k)) /\ VersionOf(a, b, mark, d, k).status = mark
      /\ VersionOf(a, b, mark, d, k).content = k
  BY VersionIs
<1> QED
  BY <1>5, <1>6

SavedAs(x, k, r) == [x EXCEPT !.content = k, !.rev = r]
LEMMA SavedAsIs ==
  ASSUME NEW x, IsVersion(x), NEW k, IsContent(k), NEW r
  PROVE  LET y == SavedAs(x, k, r)
         IN  IsVersion(y) /\ y.status = x.status /\ y.content = k
<1> DEFINE a == x.no  b == x.gen  c == x.status  d == x.rev  h == x.content
<1>1. x = VersionOf(a, b, c, d, h)
  BY DEF IsVersion
<1> HIDE DEF a, b, c, d, h
<1>2. [x EXCEPT !.content = k] = VersionOf(a, b, c, d, k)
  BY <1>1 DEF VersionOf
<1>3. [VersionOf(a, b, c, d, k) EXCEPT !.rev = r] = VersionOf(a, b, c, r, k)
  BY DEF VersionOf
<1>4. SavedAs(x, k, r) = VersionOf(a, b, c, r, k)
  BY <1>2, <1>3, Zenon DEF SavedAs
<1>5. /\ IsVersion(VersionOf(a, b, c, r, k)) /\ VersionOf(a, b, c, r, k).status = c
      /\ VersionOf(a, b, c, r, k).content = k
  BY VersionIs
<1> QED
  BY <1>4, <1>5 DEF c

\* The rows grow by one, or are rewritten one for one.
LEMMA SeqGrows ==
  ASSUME NEW q, SeqFits(q), NEW x, IsVersion(x)
  PROVE  LET z == Append(q, x)
         IN  /\ SeqFits(z) /\ Len(q) + 1 \in Nat /\ Len(q) + 1 # 0
             /\ DOMAIN z = DOMAIN q \cup {Len(q) + 1} /\ Len(q) + 1 \notin DOMAIN q
             /\ z[Len(q) + 1] = x /\ \A v \in DOMAIN q : z[v] = q[v] /\ v # 0
<1> DEFINE T == {q[v] : v \in DOMAIN q} \cup {x}
           z == Append(q, x)
<1>1. q \in Seq({q[v] : v \in DOMAIN q})
  BY DEF SeqFits
<1>2. q \in Seq(T)
  <2> DEFINE ALL == {q[v] : v \in DOMAIN q}
  <2>1. q \in Seq(ALL) /\ ALL \subseteq T
    BY <1>1
  <2> HIDE DEF ALL, T
  <2> QED
    BY <2>1, SeqMonotonic
<1>3. x \in T
  OBVIOUS
<1> HIDE DEF T
<1>4. /\ z \in Seq(T) /\ Len(q) \in Nat /\ DOMAIN q = 1..Len(q) /\ Len(z) = Len(q) + 1
      /\ DOMAIN z = 1..Len(z) /\ z[Len(q) + 1] = x /\ \A v \in 1..Len(q) : z[v] = q[v]
  BY <1>2, <1>3
<1>5. /\ DOMAIN z = DOMAIN q \cup {Len(q) + 1} /\ Len(q) + 1 \notin DOMAIN q
      /\ \A v \in DOMAIN q : z[v] = q[v] /\ v # 0
  BY <1>4
<1> HIDE DEF z
<1>6. z \in Seq({z[v] : v \in DOMAIN z})
  <2>1. z = [v \in 1..Len(z) |-> z[v]]
    BY <1>4
  <2> DEFINE ALL == {z[v] : v \in DOMAIN z}
  <2>2. \A v \in 1..Len(z) : z[v] \in ALL
    BY <1>4
  <2>3. Len(z) \in Nat
    BY <1>4
  <2> HIDE DEF ALL
  <2>4. [v \in 1..Len(z) |-> z[v]] \in Seq(ALL)
    BY <2>2, <2>3, IsASeq
  <2> QED
    BY <2>1, <2>4 DEF ALL
<1>7. \A v \in DOMAIN z : IsVersion(z[v])
  BY <1>4, <1>5 DEF SeqFits
<1> QED
  BY <1>4, <1>5, <1>6, <1>7 DEF SeqFits, z

LEMMA SeqRewritten ==
  ASSUME NEW q, SeqFits(q), NEW f, f = [v \in DOMAIN q |-> f[v]],
         \A v \in DOMAIN q : IsVersion(f[v])
  PROVE  SeqFits(f) /\ DOMAIN f = DOMAIN q /\ Len(f) = Len(q) /\ Len(q) \in Nat
<1> DEFINE ALL == {f[v] : v \in DOMAIN f}
<1>1. Len(q) \in Nat /\ DOMAIN q = 1..Len(q) /\ DOMAIN f = DOMAIN q
  <2>1. q \in Seq({q[v] : v \in DOMAIN q})
    BY DEF SeqFits
  <2>2. DOMAIN f = DOMAIN q
    OBVIOUS
  <2> QED
    BY <2>1, <2>2
<1>2. \A v \in 1..Len(q) : f[v] \in ALL
  BY <1>1
<1> HIDE DEF ALL
<1>3. [v \in 1..Len(q) |-> f[v]] \in Seq(ALL)
  BY <1>1, <1>2, IsASeq
<1>4. f \in Seq(ALL)
  BY <1>1, <1>3
<1>5. Len(f) \in Nat /\ DOMAIN f = 1..Len(f)
  BY <1>4
<1>6. Len(f) = Len(q)
  BY <1>1, <1>5
<1> QED
  BY <1>1, <1>4, <1>6 DEF SeqFits, ALL

PointedTo(p, d, e) == [published |-> p, draft |-> d, enabled |-> e]

LEMMA ScenarioIs ==
  ASSUME NEW c \in Scenarios
  PROVE  c = PointedTo(c.published, c.draft, c.enabled)
BY DEF Scenarios, PointedTo

LEMMA PointedFields ==
  ASSUME NEW p, NEW d, NEW e
  PROVE  LET c == PointedTo(p, d, e)
         IN  c.published = p /\ c.draft = d /\ c.enabled = e
BY DEF PointedTo

LEMMA PointedTyped ==
  ASSUME NEW p \in Nat, NEW d \in Nat, NEW e \in BOOLEAN
  PROVE  PointedTo(p, d, e) \in Scenarios
BY DEF PointedTo, Scenarios

\* What a publication has yet to do changes; what it loaded stays.
PublicationReads(p, a, b, c, d) ==
  [p EXCEPT !.read = a, !.errors = b, !.pins = c, !.plan = d]
LEMMA PublicationReadsIs ==
  ASSUME NEW p, IsPublication(p), NEW a, NEW b, NEW c, NEW d
  PROVE  PublicationReads(p, a, b, c, d) =
           PublicationOf(p.id, p.v, p.loaded, p.was, p.seen, c, a, b, d, p.writing)
<1> DEFINE i == p.id  v == p.v  o == p.loaded  m == p.was  z == p.seen  h == p.pins  r == p.read  x == p.errors
           l == p.plan  w == p.writing
<1>1. p = PublicationOf(i, v, o, m, z, h, r, x, l, w)
  BY DEF IsPublication
<1> HIDE DEF i, v, o, m, z, h, r, x, l, w
<1>2. [p EXCEPT !.read = a] = PublicationOf(i, v, o, m, z, h, a, x, l, w)
  BY <1>1 DEF PublicationOf
<1>3. [PublicationOf(i, v, o, m, z, h, a, x, l, w) EXCEPT !.errors = b]
        = PublicationOf(i, v, o, m, z, h, a, b, l, w)
  BY DEF PublicationOf
<1>4. [PublicationOf(i, v, o, m, z, h, a, b, l, w) EXCEPT !.pins = c]
        = PublicationOf(i, v, o, m, z, c, a, b, l, w)
  BY DEF PublicationOf
<1>5. [PublicationOf(i, v, o, m, z, c, a, b, l, w) EXCEPT !.plan = d]
        = PublicationOf(i, v, o, m, z, c, a, b, d, w)
  BY DEF PublicationOf
<1> QED
  BY <1>2, <1>3, <1>4, <1>5, Zenon DEF PublicationReads, i, v, o, m, z, w

PublicationFails(p, a) == [p EXCEPT !.read = a, !.errors = TRUE]
LEMMA PublicationFailsIs ==
  ASSUME NEW p, IsPublication(p), NEW a
  PROVE  PublicationFails(p, a) =
           PublicationOf(p.id, p.v, p.loaded, p.was, p.seen, p.pins, a, TRUE, p.plan, p.writing)
<1> DEFINE i == p.id  v == p.v  o == p.loaded  m == p.was  z == p.seen  h == p.pins  r == p.read  x == p.errors
           l == p.plan  w == p.writing  yes == TRUE
<1>1. p = PublicationOf(i, v, o, m, z, h, r, x, l, w)
  BY DEF IsPublication
<1>2. PublicationFails(p, a) = [p EXCEPT !.read = a, !.errors = yes]
  BY Zenon DEF PublicationFails
<1> HIDE DEF i, v, o, m, z, h, r, x, l, w, yes
<1>3. [p EXCEPT !.read = a] = PublicationOf(i, v, o, m, z, h, a, x, l, w)
  BY <1>1 DEF PublicationOf
<1>4. [PublicationOf(i, v, o, m, z, h, a, x, l, w) EXCEPT !.errors = yes]
        = PublicationOf(i, v, o, m, z, h, a, yes, l, w)
  BY DEF PublicationOf
<1> QED
  BY <1>2, <1>3, <1>4, Zenon DEF i, v, o, m, z, h, l, w, yes

PublicationChecks(p, w) == [p EXCEPT !.writing = w]
LEMMA PublicationChecksIs ==
  ASSUME NEW p, IsPublication(p), NEW u
  PROVE  PublicationChecks(p, u) =
           PublicationOf(p.id, p.v, p.loaded, p.was, p.seen, p.pins, p.read, p.errors, p.plan, u)
<1> DEFINE i == p.id  v == p.v  o == p.loaded  m == p.was  z == p.seen  h == p.pins  r == p.read  x == p.errors
           l == p.plan  w == p.writing
<1>1. p = PublicationOf(i, v, o, m, z, h, r, x, l, w)
  BY DEF IsPublication
<1> HIDE DEF i, v, o, m, z, h, r, x, l, w
<1>2. [p EXCEPT !.writing = u] = PublicationOf(i, v, o, m, z, h, r, x, l, u)
  BY <1>1 DEF PublicationOf
<1> QED
  BY <1>2, Zenon DEF PublicationChecks, i, v, o, m, z, h, r, x, l

PublicationWrites(p, a, b, c) == [p EXCEPT !.writing = a, !.plan = b, !.pins = c]
LEMMA PublicationWritesIs ==
  ASSUME NEW p, IsPublication(p), NEW a, NEW b, NEW c
  PROVE  PublicationWrites(p, a, b, c) =
           PublicationOf(p.id, p.v, p.loaded, p.was, p.seen, c, p.read, p.errors, b, a)
<1> DEFINE i == p.id  v == p.v  o == p.loaded  m == p.was  z == p.seen  h == p.pins  r == p.read  x == p.errors
           l == p.plan  w == p.writing
<1>1. p = PublicationOf(i, v, o, m, z, h, r, x, l, w)
  BY DEF IsPublication
<1> HIDE DEF i, v, o, m, z, h, r, x, l, w
<1>2. [p EXCEPT !.writing = a] = PublicationOf(i, v, o, m, z, h, r, x, l, a)
  BY <1>1 DEF PublicationOf
<1>3. [PublicationOf(i, v, o, m, z, h, r, x, l, a) EXCEPT !.plan = b]
        = PublicationOf(i, v, o, m, z, h, r, x, b, a)
  BY DEF PublicationOf
<1>4. [PublicationOf(i, v, o, m, z, h, r, x, b, a) EXCEPT !.pins = c]
        = PublicationOf(i, v, o, m, z, c, r, x, b, a)
  BY DEF PublicationOf
<1> QED
  BY <1>2, <1>3, <1>4, Zenon DEF PublicationWrites, i, v, o, m, z, r, x

LEMMA PublicationIs ==
  ASSUME NEW i, NEW v, NEW o, NEW m, NEW z, NEW h, NEW r, NEW x, NEW l, NEW w
  PROVE  LET p == PublicationOf(i, v, o, m, z, h, r, x, l, w)
         IN  /\ IsPublication(p) /\ p.v = v /\ p.loaded = o /\ p.was = m /\ p.seen = z
BY DEF PublicationOf, IsPublication

-----------------------------------------------------------------------------
(* The operations keep it.                                                 *)

LEMMA WrittenIs ==
  ASSUME NEW now, NEW loaded, NEW want
  PROVE  /\ W!Written(now, loaded, want) \in {now, want}
         /\ loaded = now => W!Written(now, loaded, want) = want
         /\ want # loaded => W!Written(now, loaded, want) = want
         /\ want = loaded => W!Written(now, loaded, want) = now
BY DEF W!Written

LEMMA RequestIs ==
  ASSUME NEW i, NEW l, NEW t, NEW v, NEW s, NEW n, NEW w
  PROVE  LET q == RequestOf(i, l, t, v, s, n, w)
         IN  q.loaded = l /\ q.want = t /\ q.v = v /\ q.status = s /\ q.new = n /\ q.was = w
BY DEF RequestOf

-----------------------------------------------------------------------------
(* The operations keep it.                                                 *)

LEMMA WorkflowStarts == W!Init => WorkflowIInv
<1> SUFFICES ASSUME W!Init PROVE WorkflowIInv
  OBVIOUS
<1> USE DEF W!Init
<1>1. SeqFits(versions)
  BY DEF SeqFits
<1>2. PointersFit /\ WorkingFits
  BY DEF PointersFit, WorkingFits, Scenarios
<1>3. PublishedFits /\ PublishingSees /\ RowsInOrder /\ PublishingInOrder
  BY DEF PublishedFits, PublishingSees, RowsInOrder, PublishingInOrder
<1> QED
  BY <1>1, <1>2, <1>3 DEF WorkflowIInv

\* Rows that are kept with what they hold, and none of them turned into a draft again.
RowsKeep(q, z) ==
  /\ SeqFits(z)
  /\ \A v \in DOMAIN q :
       /\ v \in DOMAIN z /\ v # 0 /\ z[v].content.ok = q[v].content.ok
       /\ q[v].status # "draft" => z[v].status # "draft"

LEMMA RowsUnchanged ==
  ASSUME NEW q, SeqFits(q)
  PROVE  RowsKeep(q, q)
<1>1. q \in Seq({q[v] : v \in DOMAIN q})
  BY DEF SeqFits
<1>2. \A v \in DOMAIN q : v # 0
  BY <1>1
<1> QED
  BY <1>2 DEF RowsKeep

\* What is kept twice is kept.
LEMMA RowsKeptOn ==
  ASSUME NEW q, NEW z, NEW y, RowsKeep(q, z), RowsKeep(z, y)
  PROVE  RowsKeep(q, y)
BY DEF RowsKeep

\* Rows that are rewritten keep their verdicts, and a row in force does not become a draft.
LEMMA RowsMarked ==
  ASSUME NEW q, SeqFits(q), NEW f, f = [v \in DOMAIN q |-> f[v]],
         \A v \in DOMAIN q :
           /\ IsVersion(f[v]) /\ f[v].content = q[v].content
           /\ q[v].status # "draft" => f[v].status # "draft"
  PROVE  RowsKeep(q, f) /\ DOMAIN f = DOMAIN q /\ Len(f) = Len(q)
<1>1. SeqFits(f) /\ DOMAIN f = DOMAIN q /\ Len(f) = Len(q)
  BY SeqRewritten
<1>2. \A v \in DOMAIN q : v # 0
  BY RowsUnchanged DEF RowsKeep
<1> QED
  BY <1>1, <1>2 DEF RowsKeep

LEMMA RowsFit ==
  ASSUME WorkflowIInv
  PROVE  /\ SeqFits(versions) /\ RowsKeep(versions, versions)
         /\ scenario \in Scenarios /\ scenario.published \in {0} \cup DOMAIN versions
         /\ scenario.draft \in {0} \cup DOMAIN versions
         /\ \A v \in DOMAIN versions : IsVersion(versions[v]) /\ IsContent(versions[v].content)
BY RowsUnchanged DEF WorkflowIInv, PointersFit, SeqFits, IsVersion, W!Ids

\* Publications that are left are those there were, with what they loaded.
SameLoaded(p, o) == p.v = o.v /\ p.loaded = o.loaded /\ p.was = o.was /\ p.seen = o.seen
PublicationsGoOn ==
  \A p \in publishing' : IsPublication(p) /\ \E o \in publishing : SameLoaded(p, o)

\* A step that publishes nothing anew and saves nothing.
LEMMA NothingPublished ==
  ASSUME WorkflowIInv, RowsKeep(versions, versions'), scenario' \in Scenarios,
         scenario'.published \in {0, scenario.published},
         scenario'.draft \in {0} \cup DOMAIN versions',
         RowsInOrder', overtaken => overtaken',
         saving' \subseteq saving, working' \subseteq working, UNCHANGED raced,
         PublicationsGoOn
  PROVE  WorkflowIInv'
<1> USE DEF W!Ids
<1>1. PointersFit /\ WorkingFits /\ PublishedFits /\ PublishingSees /\ PublishingInOrder
  BY DEF WorkflowIInv
<1>2. /\ SeqFits(versions')
      /\ \A v \in DOMAIN versions :
           /\ v \in DOMAIN versions' /\ versions'[v].content.ok = versions[v].content.ok
           /\ versions[v].status # "draft" => versions'[v].status # "draft"
  BY DEF RowsKeep
<1>3. PointersFit'
  <2>1. /\ scenario.published \in {0} \cup DOMAIN versions
        /\ \A s \in saving : s.v \in DOMAIN versions /\ IsContent(s.content)
        /\ \A p \in publishing : p.v \in DOMAIN versions
    BY <1>1 DEF PointersFit
  <2>2. scenario'.published \in {0} \cup DOMAIN versions'
    BY <1>2, <2>1
  <2>3. \A s \in saving' : s.v \in DOMAIN versions' /\ IsContent(s.content)
    BY <1>2, <2>1
  <2>4. \A p \in publishing' : p.v \in DOMAIN versions' /\ IsPublication(p)
    BY <1>2, <2>1 DEF PublicationsGoOn, SameLoaded
  <2> QED
    BY <2>2, <2>3, <2>4 DEF PointersFit
<1>4. WorkingFits'
  BY <1>1, <1>2 DEF WorkingFits
<1>5. scenario'.published # 0 =>
        scenario'.published = scenario.published /\ scenario.published \in DOMAIN versions
  BY <1>1 DEF PointersFit
<1>6. PublishedFits'
  <2> SUFFICES ASSUME scenario'.published # 0
               PROVE  /\ versions'[scenario'.published].status # "draft"
                      /\ \/ scenario'.published \in raced'
                         \/ versions'[scenario'.published].content.ok
    BY DEF PublishedFits
  <2> QED
    BY <1>1, <1>2, <1>5 DEF PublishedFits
<1>7. ASSUME NEW p \in publishing'
      PROVE  /\ p.v \in raced' \/ versions'[p.v].content.ok = p.seen.ok
             /\ p.was # "draft" => versions'[p.v].status # "draft"
             /\ ~overtaken' =>
                  p.was = "draft" /\ p.loaded.published # p.v /\ p.loaded.enabled = FALSE
  <2>1. PICK o \in publishing : SameLoaded(p, o)
    BY DEF PublicationsGoOn
  <2>2. /\ o.v \in DOMAIN versions /\ (o.v \in raced \/ versions[o.v].content.ok = o.seen.ok)
        /\ o.was # "draft" => versions[o.v].status # "draft"
        /\ ~overtaken => o.was = "draft" /\ o.loaded.published # o.v /\ o.loaded.enabled = FALSE
    BY <1>1 DEF PointersFit, PublishingSees, PublishingInOrder
  <2> QED
    BY <1>2, <2>1, <2>2 DEF SameLoaded
<1>8. PublishingSees' /\ PublishingInOrder'
  BY <1>7 DEF PublishingSees, PublishingInOrder
<1> QED
  BY <1>2, <1>3, <1>4, <1>6, <1>8 DEF WorkflowIInv

\* Only requests go on or end.
LEMMA RequestsGoOn ==
  ASSUME WorkflowIInv, UNCHANGED <<scenario, versions, raced, overtaken>>,
         saving' \subseteq saving, working' \subseteq working, PublicationsGoOn
  PROVE  WorkflowIInv'
<1>1. RowsKeep(versions, versions') /\ scenario' \in Scenarios
  BY RowsFit
<1>2. scenario'.published = scenario.published /\ scenario'.draft \in {0} \cup DOMAIN versions'
  BY RowsFit
<1>3. RowsInOrder'
  BY DEF WorkflowIInv, RowsInOrder
<1> QED
  BY <1>1, <1>2, <1>3, NothingPublished

LEMMA PublicationsAsTheyWere ==
  ASSUME WorkflowIInv, UNCHANGED publishing
  PROVE  PublicationsGoOn
BY DEF WorkflowIInv, PointersFit, PublicationsGoOn, SameLoaded

-----------------------------------------------------------------------------
(* What the requests load: what they will write fits.                      *)

LEMMA RequestLoads ==
  ASSUME WorkflowIInv, NEW r, NEW want, NEW v \in {0} \cup DOMAIN versions, NEW status, NEW new,
         W!Loads(r, want, v, status, new), FitsAs(scenario, want, v, status, new)
  PROVE  WorkflowIInv'
<1>1. PICK was : was = (IF v = 0 THEN status ELSE versions[v].status)
  OBVIOUS
<1> DEFINE x == RequestOf(r, scenario, want, v, status, new, was)
<1>2. /\ working' = working \cup {x}
      /\ UNCHANGED <<scenario, versions, publishing, saving, raced, overtaken>>
  BY <1>1 DEF W!Loads, RequestOf
<1>3. x.loaded = scenario /\ x.want = want /\ x.v = v /\ x.status = status /\ x.new = new
  BY RequestIs
<1> HIDE DEF x
<1>4. WorkingFits'
  <2> SUFFICES ASSUME NEW q \in working'
               PROVE  /\ q.v \in {0} \cup DOMAIN versions
                      /\ FitsAs(q.loaded, q.want, q.v, q.status, q.new)
    BY <1>2 DEF WorkingFits, W!Ids
  <2>1. CASE q \in working
    BY <2>1 DEF WorkflowIInv, WorkingFits, W!Ids
  <2>2. CASE q = x
    BY <1>3, <2>2
  <2> QED
    BY <1>2, <2>1, <2>2
<1>5. PointersFit' /\ SeqFits(versions')
  BY <1>2 DEF WorkflowIInv, PointersFit, W!Ids
<1>6. PublishedFits' /\ PublishingSees' /\ RowsInOrder' /\ PublishingInOrder'
  BY <1>2 DEF WorkflowIInv, PublishedFits, PublishingSees, RowsInOrder, PublishingInOrder
<1> QED
  BY <1>4, <1>5, <1>6 DEF WorkflowIInv

LEMMA DraftIs ==
  ASSUME NEW no, NEW generation, NEW k, IsContent(k)
  PROVE  IsVersion(W!Draft(no, generation, k)) /\ W!Draft(no, generation, k).status = "draft"
<1>1. W!Draft(no, generation, k) = VersionOf(no, generation, "draft", 1, k)
  BY DEF W!Draft, VersionOf
<1> QED
  BY <1>1, VersionIs

LEMMA NoVersionIs == IsVersion(W!NoVersion) /\ W!NoVersion.status = "draft"
<1>1. IsContent(W!Unpinned)
  BY ContentIs DEF W!Unpinned
<1> QED
  BY <1>1, DraftIs DEF W!NoVersion

LEMMA CloneIs ==
  ASSUME WorkflowIInv
  PROVE  IsVersion(W!Clone) /\ W!Clone.status = "draft"
<1>1. CASE scenario.published = 0
  <2>1. IsContent(W!Unpinned)
    BY ContentIs DEF W!Unpinned
  <2>2. W!Clone = W!Draft(W!NextNumber, 1, W!Unpinned)
    BY <1>1 DEF W!Clone
  <2> QED
    BY <2>1, <2>2, DraftIs
<1>2. CASE scenario.published # 0
  <2> DEFINE source == versions[scenario.published]
  <2>1. IsContent(source.content)
    BY <1>2, RowsFit
  <2>2. W!Clone = W!Draft(source.no, W!NextGeneration(source.no), source.content)
    BY <1>2 DEF W!Clone
  <2> HIDE DEF source
  <2> QED
    BY <2>1, <2>2, DraftIs
<1> QED
  BY <1>1, <1>2

LEMMA SwitchedIs ==
  ASSUME NEW c \in Scenarios, NEW on
  PROVE  LET x == [c EXCEPT !.enabled = on]
         IN  x.published = c.published /\ x.draft = c.draft /\ x.enabled = on
<1> DEFINE p == c.published  d == c.draft  y == c.enabled
<1>1. c = PointedTo(p, d, y)
  BY ScenarioIs
<1> HIDE DEF p, d, y
<1>2. [c EXCEPT !.enabled = on] = PointedTo(p, d, on)
  BY <1>1 DEF PointedTo
<1> QED
  BY <1>2, PointedFields DEF p, d

\* What is switched off and may take a draft fits.
LEMMA OffFits ==
  ASSUME WorkflowIInv, NEW v, NEW status, NEW new, IsVersion(new), new.status = "draft",
         v # 0 => status \in VersionStates \ {"draft"} /\ scenario.draft = 0
  PROVE  FitsAs(scenario, W!Off, v, status, new)
<1> DEFINE off == FALSE
<1>1. W!Off = [scenario EXCEPT !.enabled = off] /\ off \in BOOLEAN /\ ~off
  BY DEF W!Off
<1> HIDE DEF off
<1>2. /\ W!Off.published = scenario.published /\ W!Off.draft = scenario.draft
      /\ W!Off.enabled = off
  BY <1>1, RowsFit, SwitchedIs
<1> QED
  BY <1>1, <1>2 DEF FitsAs

LEMMA DraftEnsured ==
  ASSUME WorkflowIInv, NEW r, W!EnsureDraft(r)
  PROVE  WorkflowIInv'
<1>1. W!Loads(r, W!Off, 0, "draft", W!Clone)
  BY DEF W!EnsureDraft
<1>2. FitsAs(scenario, W!Off, 0, "draft", W!Clone)
  BY CloneIs, OffFits
<1> QED
  BY <1>1, <1>2, RequestLoads

LEMMA Paused ==
  ASSUME WorkflowIInv, NEW r, W!Pause(r)
  PROVE  WorkflowIInv'
<1>1. PICK new : new = (IF scenario.draft = 0 THEN W!Clone ELSE W!NoVersion)
  OBVIOUS
<1>2. W!Loads(r, W!Off, 0, "draft", new)
  BY <1>1 DEF W!Pause
<1>3. IsVersion(new) /\ new.status = "draft"
  BY <1>1, CloneIs, NoVersionIs
<1>4. FitsAs(scenario, W!Off, 0, "draft", new)
  BY <1>3, OffFits
<1> QED
  BY <1>2, <1>4, RequestLoads

LEMMA VersionCreated ==
  ASSUME WorkflowIInv, NEW r, NEW source \in W!Ids, W!CreateVersion(r, source)
  PROVE  WorkflowIInv'
<1> DEFINE k == versions[source].content
           retires == scenario.published # 0 /\ versions[scenario.published].status = "published"
<1>1. PICK v : v = (IF retires THEN scenario.published ELSE 0)
  OBVIOUS
<1>2. PICK new : new = W!Draft(W!NextNumber, 1, k)
  OBVIOUS
<1>3. W!Loads(r, W!Off, v, "retired", new) /\ scenario.draft = 0
  BY <1>1, <1>2 DEF W!CreateVersion
<1>4. v \in {0} \cup DOMAIN versions
  BY <1>1, RowsFit
<1>5. IsContent(k)
  BY RowsFit DEF W!Ids
<1>6. IsVersion(new) /\ new.status = "draft"
  BY <1>2, <1>5, DraftIs
<1>7. FitsAs(scenario, W!Off, v, "retired", new)
  BY <1>3, <1>6, OffFits DEF VersionStates
<1> QED
  BY <1>3, <1>4, <1>7, RequestLoads

LEMMA Archived ==
  ASSUME WorkflowIInv, NEW r, NEW v \in W!Ids, W!Archive(r, v)
  PROVE  WorkflowIInv'
<1>1. PICK p : p = (IF scenario.draft = v /\ scenario.published # 0
                          /\ versions[scenario.published].no = versions[v].no
                      THEN 0 ELSE scenario.published)
  OBVIOUS
<1>2. PICK d : d = (IF scenario.draft = v THEN 0 ELSE scenario.draft)
  OBVIOUS
<1>3. PICK off : off = FALSE
  OBVIOUS
<1>4. PICK want : want = PointedTo(p, d, off)
  OBVIOUS
<1>5. W!Loads(r, want, v, "archived", W!NoVersion)
  BY <1>1, <1>2, <1>3, <1>4 DEF W!Archive, PointedTo
<1>6. want.published = p /\ want.draft = d /\ want.enabled = off
  BY <1>4, PointedFields
<1>7. FitsAs(scenario, want, v, "archived", W!NoVersion)
  BY <1>1, <1>2, <1>3, <1>6, NoVersionIs DEF FitsAs, VersionStates
<1> QED
  BY <1>5, <1>7, RequestLoads DEF W!Ids

LEMMA Reenabled ==
  ASSUME WorkflowIInv, NEW r, W!Reenable(r)
  PROVE  WorkflowIInv'
<1>1. PICK on : on = TRUE
  OBVIOUS
<1>2. PICK want : want = [scenario EXCEPT !.enabled = on]
  OBVIOUS
<1>3. PICK v : v = scenario.published
  OBVIOUS
<1>4. /\ W!Loads(r, want, v, "published", W!NoVersion) /\ scenario.draft = 0 /\ v # 0
  BY <1>1, <1>2, <1>3 DEF W!Reenable
<1>5. want.published = v /\ want.draft = 0 /\ want.enabled = on
  BY <1>2, <1>3, <1>4, RowsFit, SwitchedIs
<1>6. FitsAs(scenario, want, v, "published", W!NoVersion)
  BY <1>1, <1>3, <1>4, <1>5, NoVersionIs DEF FitsAs, VersionStates
<1>7. v \in {0} \cup DOMAIN versions
  BY <1>3, RowsFit
<1> QED
  BY <1>4, <1>6, <1>7, RequestLoads

-----------------------------------------------------------------------------
(* What they commit: of the rows as they are, what they loaded and changed. *)

\* A row is marked, or is as it was where the request changes no mark.
Remarked(q) ==
  [v \in DOMAIN versions |-> IF v = q.v
     THEN [versions[v] EXCEPT !.status = W!Written(versions[v].status, q.was, q.status)]
     ELSE versions[v]]

LEMMA RemarkedRows ==
  ASSUME WorkflowIInv, NEW q \in working
  PROVE  LET f == Remarked(q)
         IN  /\ RowsKeep(versions, f) /\ DOMAIN f = DOMAIN versions /\ Len(f) = Len(versions)
             /\ \A v \in DOMAIN versions :
                  f[v].status = IF v = q.v THEN W!Written(versions[v].status, q.was, q.status)
                                ELSE versions[v].status
<1>1. PICK w : w = q.v
  OBVIOUS
<1>2. PICK f : f = Remarked(q)
  OBVIOUS
<1>3. PICK mark : mark = W!Written(versions[w].status, q.was, q.status)
  OBVIOUS
<1>4. PICK y : y = [versions[w] EXCEPT !.status = mark]
  OBVIOUS
<1>5. f = [v \in DOMAIN versions |-> IF v = w THEN y ELSE versions[v]]
  BY <1>1, <1>2, <1>3, <1>4, Zenon DEF Remarked
<1>6. \A v \in DOMAIN versions : v # 0
  BY RowsFit DEF RowsKeep
<1>7. w # 0 => q.status # "draft"
  BY <1>1 DEF WorkflowIInv, WorkingFits, FitsAs
<1>8. w \in DOMAIN versions =>
        /\ IsVersion(y) /\ y.status = mark /\ y.content = versions[w].content
        /\ versions[w].status # "draft" => mark # "draft"
  <2> SUFFICES ASSUME w \in DOMAIN versions
               PROVE  /\ IsVersion(y) /\ y.status = mark /\ y.content = versions[w].content
                      /\ versions[w].status # "draft" => mark # "draft"
    OBVIOUS
  <2>1. IsVersion(versions[w])
    BY RowsFit
  <2>2. IsVersion(y) /\ y.status = mark /\ y.content = versions[w].content
    BY <1>4, <2>1, VersionMarked
  <2>3. mark \in {versions[w].status, q.status} /\ q.status # "draft"
    BY <1>3, <1>6, <1>7, WrittenIs
  <2> QED
    BY <2>2, <2>3
<1>9. /\ f = [v \in DOMAIN versions |-> f[v]]
      /\ \A v \in DOMAIN versions : f[v] = IF v = w THEN y ELSE versions[v]
  BY <1>5
<1>10. \A v \in DOMAIN versions :
        /\ IsVersion(f[v]) /\ f[v].content = versions[v].content
        /\ versions[v].status # "draft" => f[v].status # "draft"
  BY <1>8, <1>9, RowsFit
<1>11. RowsKeep(versions, f) /\ DOMAIN f = DOMAIN versions /\ Len(f) = Len(versions)
  BY <1>9, <1>10, RowsFit, RowsMarked
<1>12. \A v \in DOMAIN versions :
        f[v].status = IF v = w THEN mark ELSE versions[v].status
  BY <1>8, <1>9
<1>13. \A v \in DOMAIN versions :
        f[v].status = IF v = q.v THEN W!Written(versions[v].status, q.was, q.status)
                      ELSE versions[v].status
  BY <1>1, <1>3, <1>12, Zenon
<1> QED
  BY <1>2, <1>11, <1>13

LEMMA RequestCommits ==
  ASSUME WorkflowIInv, NEW q \in working, W!Commits(q)
  PROVE  WorkflowIInv'
<1> DEFINE adds == q.new # W!NoVersion
           top == Len(versions) + 1
<1>1. /\ UNCHANGED <<publishing, saving, raced>> /\ working' \subseteq working
  BY DEF W!Commits
<1>2. CASE UNCHANGED <<scenario, versions, overtaken>>
  BY <1>1, <1>2, PublicationsAsTheyWere, RequestsGoOn
<1>3. CASE ~UNCHANGED <<scenario, versions, overtaken>>
  <2>1. PICK f : f = Remarked(q)
    OBVIOUS
  <2>2. PICK p : p = W!Written(scenario.published, q.loaded.published, q.want.published)
    OBVIOUS
  <2>3. PICK d : d = W!Written(scenario.draft, q.loaded.draft, q.want.draft)
    OBVIOUS
  <2>4. PICK e : e = W!Written(scenario.enabled, q.loaded.enabled, q.want.enabled)
    OBVIOUS
  <2>5. PICK c : c = IF adds THEN top ELSE d
    OBVIOUS
  <2>6. /\ versions' = IF adds THEN Append(f, q.new) ELSE f
        /\ scenario' = PointedTo(p, c, e)
        /\ overtaken' =
             (overtaken \/ scenario # q.loaded \/ (q.v # 0 /\ versions[q.v].status # q.was))
    <3>1. ~(q.new # W!NoVersion /\ W!Taken(q.new))
      BY <1>3, Zenon DEF W!Commits
    <3>2. /\ versions' = IF q.new = W!NoVersion THEN f ELSE Append(f, q.new)
          /\ scenario' =
              [published |-> W!Written(scenario.published, q.loaded.published, q.want.published),
               draft |-> IF q.new = W!NoVersion
                           THEN W!Written(scenario.draft, q.loaded.draft, q.want.draft)
                           ELSE Len(versions) + 1,
               enabled |-> W!Written(scenario.enabled, q.loaded.enabled, q.want.enabled)]
          /\ overtaken' =
              (overtaken \/ scenario # q.loaded \/ (q.v # 0 /\ versions[q.v].status # q.was))
      BY <2>1, <3>1, Zenon DEF W!Commits, Remarked, W!Ids
    <3> QED
      BY <2>2, <2>3, <2>4, <2>5, <3>2, Zenon DEF PointedTo
  <2>7. /\ q.v \in {0} \cup DOMAIN versions
        /\ q.want.published \in {0, q.loaded.published} /\ q.want.draft \in {0, q.loaded.draft}
        /\ q.want.enabled \in BOOLEAN
        /\ q.want.draft # 0 => ~q.want.enabled /\ q.v # q.want.draft
        /\ q.want.enabled =>
             ~adds /\ q.v # 0 /\ q.status = "published" /\ q.want.published = q.v
        /\ IsVersion(q.new) /\ q.new.status = "draft"
    BY DEF WorkflowIInv, WorkingFits, FitsAs, W!Ids
  <2>8. /\ RowsKeep(versions, f) /\ SeqFits(f) /\ DOMAIN f = DOMAIN versions
        /\ Len(f) = Len(versions)
        /\ \A v \in DOMAIN versions :
             f[v].status = IF v = q.v THEN W!Written(versions[v].status, q.was, q.status)
                           ELSE versions[v].status
    BY <2>1, RemarkedRows DEF RowsKeep
  <2>9. /\ RowsKeep(versions, versions') /\ top \in Nat /\ top # 0
        /\ \A v \in DOMAIN versions : v \in DOMAIN versions' /\ versions'[v].status = f[v].status
        /\ adds => top \in DOMAIN versions' /\ versions'[top].status = "draft"
    <3>1. LET z == Append(f, q.new)
          IN  /\ RowsKeep(f, z) /\ top \in Nat /\ top # 0 /\ top \in DOMAIN z
              /\ z[top].status = "draft"
              /\ \A v \in DOMAIN f : v \in DOMAIN z /\ z[v] = f[v]
      <4>1. PICK z : z = Append(f, q.new)
        OBVIOUS
      <4>2. /\ SeqFits(z) /\ Len(f) + 1 \in Nat /\ Len(f) + 1 # 0
            /\ DOMAIN z = DOMAIN f \cup {Len(f) + 1}
            /\ z[Len(f) + 1] = q.new /\ \A v \in DOMAIN f : z[v] = f[v] /\ v # 0
        BY <2>7, <2>8, <4>1, SeqGrows
      <4>3. RowsKeep(f, z)
        BY <4>2 DEF RowsKeep
      <4> QED
        BY <2>7, <2>8, <4>1, <4>2, <4>3
    <3>2. CASE adds
      <4>1. RowsKeep(versions, versions')
        BY <2>6, <2>8, <3>1, <3>2, RowsKeptOn
      <4> QED
        BY <2>6, <2>8, <3>1, <3>2, <4>1
    <3>3. CASE ~adds
      BY <2>6, <2>8, <3>1, <3>3
    <3> QED
      BY <3>2, <3>3
  <2>10. /\ scenario \in Scenarios /\ scenario.published \in {0} \cup DOMAIN versions
         /\ scenario.draft \in {0} \cup DOMAIN versions
         /\ scenario.enabled \in BOOLEAN /\ scenario.published \in Nat /\ scenario.draft \in Nat
    BY RowsFit DEF Scenarios
  <2>11. /\ p \in {0, scenario.published} /\ d \in {0, scenario.draft} /\ e \in BOOLEAN
    BY <2>2, <2>3, <2>4, <2>7, <2>10, WrittenIs
  <2>12. c \in {0} \cup DOMAIN versions' /\ p \in Nat /\ c \in Nat
    BY <2>5, <2>9, <2>10, <2>11
  <2> HIDE DEF top, adds
  <2>13. /\ scenario' \in Scenarios /\ scenario'.published = p /\ scenario'.draft = c
         /\ scenario'.enabled = e
    BY <2>6, <2>11, <2>12, PointedTyped, PointedFields
  <2>14. RowsInOrder'
    <3> SUFFICES ASSUME ~overtaken'
                 PROVE  /\ c # 0 => ~e /\ versions'[c].status = "draft"
                        /\ e => p # 0 /\ versions'[p].status = "published"
      BY <2>13 DEF RowsInOrder
    <3>1. /\ ~overtaken /\ scenario = q.loaded /\ (q.v # 0 => versions[q.v].status = q.was)
      BY <2>6
    <3>2. p = q.want.published /\ d = q.want.draft /\ e = q.want.enabled
      BY <2>2, <2>3, <2>4, <3>1, WrittenIs
    <3>3. scenario.draft # 0 => versions[scenario.draft].status = "draft"
      BY <3>1 DEF WorkflowIInv, RowsInOrder
    <3>4. CASE adds
      BY <2>5, <2>7, <2>9, <3>2, <3>4
    <3>5. CASE ~adds
      <4>1. ASSUME c # 0 PROVE ~e /\ versions'[c].status = "draft"
        <5>1. c = q.want.draft /\ c = scenario.draft /\ ~e /\ c # q.v /\ c \in DOMAIN versions
          BY <2>5, <2>7, <2>10, <3>1, <3>2, <3>5, <4>1
        <5> QED
          BY <2>8, <2>9, <3>3, <4>1, <5>1
      <4>2. ASSUME e PROVE p # 0 /\ versions'[p].status = "published"
        <5>1. p = q.v /\ q.v # 0 /\ q.v \in DOMAIN versions /\ q.status = "published"
          BY <2>7, <3>2, <4>2
        <5>2. f[p].status = q.status
          BY <2>8, <3>1, <5>1, WrittenIs
        <5> QED
          BY <2>9, <5>1, <5>2
      <4> QED
        BY <4>1, <4>2
    <3> QED
      BY <3>4, <3>5
  <2>15. overtaken => overtaken'
    BY <2>6
  <2>16. PublicationsGoOn
    BY <1>1, PublicationsAsTheyWere
  <2> QED
    BY <1>1, <2>9, <2>11, <2>12, <2>13, <2>14, <2>15, <2>16, NothingPublished
<1> QED
  BY <1>2, <1>3

-----------------------------------------------------------------------------
(* Saves and publications.                                                 *)

LEMMA SavesLoaded ==
  ASSUME WorkflowIInv, NEW r \in Savers, W!SaveLoads(r)
  PROVE  WorkflowIInv'
<1>1. PICK ok \in BOOLEAN, fresh \in SUBSET Files :
        saving' = saving \cup
          {[id |-> r, v |-> scenario.draft, rev |-> versions[scenario.draft].rev + 1,
            content |-> [ok |-> ok,
                         pins |-> [f \in Files |-> IF f \in fresh THEN remote[f].sum
                                   ELSE versions[scenario.draft].content.pins[f]]]]}
  BY DEF W!SaveLoads
<1> DEFINE k == [ok |-> ok,
                 pins |-> [f \in Files |-> IF f \in fresh THEN remote[f].sum
                                   ELSE versions[scenario.draft].content.pins[f]]]
           x == [id |-> r, v |-> scenario.draft, rev |-> versions[scenario.draft].rev + 1,
                 content |-> k]
<1>2. IsContent(k)
  BY ContentIs
<1> HIDE DEF k
<1>3. x.v = scenario.draft /\ x.content = k
  OBVIOUS
<1>4. saving' = saving \cup {x}
  BY <1>1 DEF k
<1> HIDE DEF x
<1>5. /\ scenario.draft \in W!Ids
      /\ UNCHANGED <<scenario, versions, publishing, working, raced, overtaken>>
  BY RowsFit DEF W!SaveLoads, W!Ids
<1>6. PointersFit' /\ WorkingFits'
  BY <1>2, <1>3, <1>4, <1>5 DEF WorkflowIInv, PointersFit, WorkingFits, W!Ids
<1> QED
  BY <1>5, <1>6 DEF WorkflowIInv, PublishedFits, PublishingSees, RowsInOrder, PublishingInOrder,
                    SeqFits

\* A save writes what it loaded, and whom it overtakes is known.
LEMMA SavesCommitted ==
  ASSUME WorkflowIInv, NEW s \in saving, W!SaveCommits(s)
  PROVE  WorkflowIInv'
<1> DEFINE w == s.v  k == s.content  y == SavedAs(versions[w], k, s.rev)
<1>1. w \in DOMAIN versions /\ IsContent(k)
  BY DEF WorkflowIInv, PointersFit, W!Ids
<1>2. IsVersion(y) /\ y.status = versions[w].status /\ y.content = k
  BY <1>1, RowsFit, SavedAsIs
<1>3. versions' = [versions EXCEPT ![w] = y]
  BY DEF W!SaveCommits, SavedAs
<1>4. /\ saving' = saving \ {s} /\ UNCHANGED <<scenario, publishing, working, overtaken>>
      /\ raced \subseteq raced'
      /\ versions[w].status # "draft" \/ (\E p \in publishing : p.v = w) => w \in raced'
  BY DEF W!SaveCommits
<1> HIDE DEF y, k, w
<1>5. versions' = [v \in DOMAIN versions |-> IF v = w THEN y ELSE versions[v]]
  BY <1>3
<1>6. /\ versions' = [v \in DOMAIN versions |-> versions'[v]] /\ versions'[w] = y
      /\ \A v \in DOMAIN versions : v # w => versions'[v] = versions[v]
  BY <1>1, <1>5
<1>7. \A v \in DOMAIN versions : IsVersion(versions'[v])
  BY <1>2, <1>6, RowsFit
<1>8. SeqFits(versions') /\ DOMAIN versions' = DOMAIN versions
  BY <1>6, <1>7, RowsFit, SeqRewritten
<1>9. PointersFit' /\ WorkingFits'
  BY <1>4, <1>8 DEF WorkflowIInv, PointersFit, WorkingFits, W!Ids
<1>10. \A v \in DOMAIN versions : versions'[v].status = versions[v].status
  BY <1>2, <1>6
<1>11. PublishedFits'
  <2> SUFFICES ASSUME scenario.published # 0
               PROVE  /\ versions'[scenario.published].status # "draft"
                      /\ \/ scenario.published \in raced'
                         \/ versions'[scenario.published].content.ok
    BY <1>4 DEF PublishedFits
  <2>1. /\ scenario.published \in DOMAIN versions
        /\ versions[scenario.published].status # "draft"
        /\ scenario.published \in raced \/ versions[scenario.published].content.ok
    BY RowsFit DEF WorkflowIInv, PublishedFits
  <2> QED
    BY <1>4, <1>6, <1>10, <2>1
<1>12. PublishingSees'
  <2> SUFFICES ASSUME NEW p \in publishing
               PROVE  /\ p.v \in raced' \/ versions'[p.v].content.ok = p.seen.ok
                      /\ p.was # "draft" => versions'[p.v].status # "draft"
    BY <1>4 DEF PublishingSees
  <2>1. /\ p.v \in DOMAIN versions /\ (p.v \in raced \/ versions[p.v].content.ok = p.seen.ok)
        /\ p.was # "draft" => versions[p.v].status # "draft"
    BY DEF WorkflowIInv, PointersFit, PublishingSees, W!Ids
  <2> QED
    BY <1>4, <1>6, <1>10, <2>1
<1>13. RowsInOrder' /\ PublishingInOrder'
  <2>1. PublishingInOrder'
    BY <1>4 DEF WorkflowIInv, PublishingInOrder
  <2>2. RowsInOrder'
    BY <1>4, <1>10, RowsFit DEF WorkflowIInv, RowsInOrder
  <2> QED
    BY <2>1, <2>2
<1> QED
  BY <1>8, <1>9, <1>11, <1>12, <1>13 DEF WorkflowIInv

LEMMA PublicationBegins ==
  ASSUME WorkflowIInv, NEW r \in Savers, W!EnableBegins(r)
  PROVE  WorkflowIInv'
<1> DEFINE k == versions[scenario.draft].content
           was == versions[scenario.draft].status
           x == PublicationOf(r, scenario.draft, scenario, was, k, k.pins, {}, ~W!Usable, {}, {})
<1>1. /\ publishing' = publishing \cup {x}
      /\ UNCHANGED <<scenario, versions, saving, working, raced, overtaken>>
  BY DEF W!EnableBegins, PublicationOf
<1>2. /\ IsPublication(x) /\ x.v = scenario.draft /\ x.loaded = scenario /\ x.was = was
      /\ x.seen = k
  BY PublicationIs
<1>3. scenario.draft \in W!Ids /\ scenario.draft # 0 /\ scenario.enabled \in BOOLEAN
  BY RowsFit DEF W!EnableBegins, W!Ids, Scenarios
<1> HIDE DEF x
<1>4. PointersFit' /\ WorkingFits'
  BY <1>1, <1>2, <1>3 DEF WorkflowIInv, PointersFit, WorkingFits, W!Ids
<1>5. PublishingSees'
  BY <1>1, <1>2 DEF WorkflowIInv, PublishingSees
<1>6. PublishingInOrder'
  <2> SUFFICES ASSUME ~overtaken, NEW p \in publishing'
               PROVE  p.was = "draft" /\ p.loaded.published # p.v /\ p.loaded.enabled = FALSE
    BY <1>1 DEF PublishingInOrder
  <2>1. CASE p \in publishing
    BY <2>1 DEF WorkflowIInv, PublishingInOrder
  <2>2. CASE p = x
    <3>1. was = "draft" /\ scenario.enabled = FALSE
      BY <1>3 DEF WorkflowIInv, RowsInOrder
    <3>2. scenario.published # scenario.draft
      BY <1>3, <3>1 DEF WorkflowIInv, PublishedFits
    <3> QED
      BY <1>2, <2>2, <3>1, <3>2
  <2> QED
    BY <1>1, <2>1, <2>2
<1> QED
  BY <1>1, <1>4, <1>5, <1>6 DEF WorkflowIInv, PublishedFits, RowsInOrder, SeqFits

\* A publication goes on with what it loaded, or ends.
LEMMA PublicationGoesOn ==
  ASSUME WorkflowIInv, UNCHANGED <<scenario, versions, raced, working, overtaken>>,
         saving' \subseteq saving,
         NEW p \in publishing, NEW x, publishing' \subseteq publishing \cup {x},
         x = PublicationOf(p.id, p.v, p.loaded, p.was, p.seen, x.pins, x.read, x.errors, x.plan, x.writing)
  PROVE  WorkflowIInv'
<1>1. IsPublication(x) /\ SameLoaded(x, p)
  BY PublicationIs DEF SameLoaded
<1>2. \A o \in publishing : IsPublication(o)
  BY DEF WorkflowIInv, PointersFit
<1>3. PublicationsGoOn
  BY <1>1, <1>2 DEF PublicationsGoOn, SameLoaded
<1> QED
  BY <1>3, RequestsGoOn

LEMMA PublicationKeeps ==
  ASSUME NEW p, NEW h, NEW r, NEW e, NEW l, NEW w, NEW x,
         x = PublicationOf(p.id, p.v, p.loaded, p.was, p.seen, h, r, e, l, w)
  PROVE  x = PublicationOf(p.id, p.v, p.loaded, p.was, p.seen, x.pins, x.read, x.errors, x.plan, x.writing)
BY DEF PublicationOf

LEMMA PublicationEnds ==
  ASSUME WorkflowIInv, UNCHANGED <<scenario, versions, raced, working, overtaken>>,
         saving' \subseteq saving,
         publishing' \subseteq publishing
  PROVE  WorkflowIInv'
<1>1. PublicationsGoOn
  BY DEF WorkflowIInv, PointersFit, PublicationsGoOn, SameLoaded
<1> QED
  BY <1>1, RequestsGoOn

LEMMA FileRead ==
  ASSUME WorkflowIInv, NEW p \in publishing, NEW f \in Files, W!ReadFile(p, f)
  PROVE  WorkflowIInv'
<1> DEFINE now == remote[f]
           changed == p.seen.pins[f] \notin {0, now.sum}
           a == p.read \cup {f}
           h == [p.pins EXCEPT ![f] = IF changed THEN @ ELSE now.sum]
           l == IF changed \/ now.named THEN p.plan ELSE p.plan \cup {f}
           e == p.errors \/ changed
           yes == TRUE
           x == PublicationReads(p, a, e, h, l)
           y == PublicationFails(p, a)
<1>1. IsPublication(p) /\ UNCHANGED <<scenario, versions, saving, raced, working, overtaken>>
  BY DEF WorkflowIInv, PointersFit, W!ReadFile
<1>2. publishing' = (publishing \ {p}) \cup {x} \/ publishing' = (publishing \ {p}) \cup {y}
  BY DEF W!ReadFile, W!Goes, PublicationReads, PublicationFails
<1>3. y = PublicationOf(p.id, p.v, p.loaded, p.was, p.seen, p.pins, a, yes, p.plan, p.writing)
  BY <1>1, PublicationFailsIs
<1> HIDE DEF a, h, l, e, yes
<1>4. x = PublicationOf(p.id, p.v, p.loaded, p.was, p.seen, h, a, e, l, p.writing)
  BY <1>1, PublicationReadsIs
<1> HIDE DEF x, y
<1>5. x = PublicationOf(p.id, p.v, p.loaded, p.was, p.seen, x.pins, x.read, x.errors, x.plan, x.writing)
  BY <1>4, PublicationKeeps
<1>6. y = PublicationOf(p.id, p.v, p.loaded, p.was, p.seen, y.pins, y.read, y.errors, y.plan, y.writing)
  BY <1>3, PublicationKeeps
<1>7. CASE publishing' = (publishing \ {p}) \cup {x}
  BY <1>1, <1>5, <1>7, PublicationGoesOn
<1>8. CASE publishing' = (publishing \ {p}) \cup {y}
  BY <1>1, <1>6, <1>8, PublicationGoesOn
<1> QED
  BY <1>2, <1>7, <1>8

LEMMA FileChecked ==
  ASSUME WorkflowIInv, NEW p \in publishing, NEW f \in Files, W!CheckFile(p, f)
  PROVE  WorkflowIInv'
<1> DEFINE x == PublicationChecks(p, {f})
<1>1. IsPublication(p) /\ UNCHANGED <<scenario, versions, saving, raced, working, overtaken>>
  BY DEF WorkflowIInv, PointersFit, W!CheckFile
<1>2. publishing' \subseteq publishing \cup {x}
  BY DEF W!CheckFile, W!Goes, W!GivesUp, PublicationChecks
<1>3. x = PublicationOf(p.id, p.v, p.loaded, p.was, p.seen, p.pins, p.read, p.errors, p.plan, {f})
  BY <1>1, PublicationChecksIs
<1> HIDE DEF x
<1>4. x = PublicationOf(p.id, p.v, p.loaded, p.was, p.seen, x.pins, x.read, x.errors, x.plan, x.writing)
  BY <1>3, PublicationKeeps
<1> QED
  BY <1>1, <1>2, <1>4, PublicationGoesOn

LEMMA FileReplaced ==
  ASSUME WorkflowIInv, NEW p \in publishing, W!ReplaceFile(p)
  PROVE  WorkflowIInv'
<1> DEFINE f == CHOOSE g \in p.writing : TRUE
           l == p.plan \ {f}
           h == [p.pins EXCEPT ![f] = remote[f].sum + 1]
           x == PublicationWrites(p, {}, l, h)
<1>1. IsPublication(p) /\ UNCHANGED <<scenario, versions, saving, raced, working, overtaken>>
  BY DEF WorkflowIInv, PointersFit, W!ReplaceFile
<1>2. publishing' \subseteq publishing \cup {x}
  <2> DEFINE y == [p EXCEPT !.writing = {}, !.plan = p.plan \ {f},
                            !.pins[f] = remote[f].sum + 1]
  <2>1. W!Goes(p, y) \/ W!GivesUp(p)
    BY Zenon DEF W!ReplaceFile
  <2> HIDE DEF f
  <2>2. y = x
    BY DEF PublicationWrites
  <2> HIDE DEF x, y
  <2> QED
    BY <2>1, <2>2 DEF W!Goes, W!GivesUp
<1> HIDE DEF f, l, h
<1>3. x = PublicationOf(p.id, p.v, p.loaded, p.was, p.seen, h, p.read, p.errors, l, {})
  BY <1>1, PublicationWritesIs
<1> HIDE DEF x
<1>4. x = PublicationOf(p.id, p.v, p.loaded, p.was, p.seen, x.pins, x.read, x.errors, x.plan, x.writing)
  BY <1>3, PublicationKeeps
<1> QED
  BY <1>1, <1>2, <1>4, PublicationGoesOn

\* The version that is put in force is the one that was loaded and passed, or a save
\* that overlapped the publication has written it since.
LEMMA PublicationCommits ==
  ASSUME WorkflowIInv, NEW p \in publishing, W!EnableCommits(p)
  PROVE  WorkflowIInv'
<1>1. PICK w : w = p.v
  OBVIOUS
<1>2. PICK was : was = p.loaded.published
  OBVIOUS
<1>3. PICK k : k = W!Repinned(p)
  OBVIOUS
<1>4. PICK mark : mark = W!Written(versions[w].status, p.was, "published")
  OBVIOUS
<1>5. PICK y : y = Republished(versions[w], mark, k)
  OBVIOUS
<1> DEFINE h == [g \in Files |-> IF p.pins[g] # p.seen.pins[g] THEN p.pins[g]
                                 ELSE versions[w].content.pins[g]]
           points == W!Written(scenario.published, was, w)
           draft == W!Written(scenario.draft, w, 0)
           yes == TRUE
           on == W!Written(scenario.enabled, p.loaded.enabled, yes)
<1>6. /\ w \in DOMAIN versions /\ IsVersion(versions[w]) /\ IsContent(versions[w].content)
      /\ w # 0
  BY <1>1, RowsFit DEF WorkflowIInv, PointersFit, W!Ids, RowsKeep
<1>7. k = [versions[w].content EXCEPT !.pins = h]
  BY <1>1, <1>3 DEF W!Repinned
<1>8. IsContent(k) /\ k.ok = versions[w].content.ok
  <2> HIDE DEF h
  <2> QED
    BY <1>6, <1>7, ContentRepinned
<1>9. IsVersion(y) /\ y.status = mark /\ y.content = k
  BY <1>5, <1>6, <1>8, RepublishedIs
<1>10. versions' = [v \in DOMAIN versions |->
        IF v = w THEN y
        ELSE IF v = was /\ versions[v].no # versions[w].no
          THEN [versions[v] EXCEPT !.status = "retired"] ELSE versions[v]]
  BY <1>1, <1>2, <1>3, <1>4, <1>5, Zenon DEF W!EnableCommits, Republished, W!Ids
<1>11. /\ scenario' = PointedTo(points, draft, on)
       /\ publishing' = publishing \ {p}
       /\ UNCHANGED <<saving, working, raced, overtaken>> /\ p.seen.ok
  BY <1>1, <1>2, Zenon DEF W!EnableCommits, W!GivesUp, W!Passed, W!Sound, PointedTo
<1>12. /\ versions' = [v \in DOMAIN versions |-> versions'[v]] /\ versions'[w] = y
       /\ \A v \in DOMAIN versions : v # w =>
            \/ versions'[v] = versions[v]
            \/ versions'[v] = [versions[v] EXCEPT !.status = "retired"]
  BY <1>6, <1>10
<1>13. /\ mark \in {versions[w].status, "published"}
       /\ versions[w].status = "draft" => mark = "published"
  <2>1. versions[w].status = "draft" => p.was = "draft"
    BY <1>1 DEF WorkflowIInv, PublishingSees
  <2> QED
    BY <1>4, <2>1, WrittenIs
<1>14. \A v \in DOMAIN versions :
        /\ IsVersion(versions'[v]) /\ versions'[v].content.ok = versions[v].content.ok
        /\ versions[v].status # "draft" => versions'[v].status # "draft"
  <2> SUFFICES ASSUME NEW v \in DOMAIN versions
               PROVE  /\ IsVersion(versions'[v])
                      /\ versions'[v].content.ok = versions[v].content.ok
                      /\ versions[v].status # "draft" => versions'[v].status # "draft"
    OBVIOUS
  <2> DEFINE x == [versions[v] EXCEPT !.status = "retired"]
  <2>1. IsVersion(versions[v])
    BY RowsFit
  <2>2. IsVersion(x) /\ x.status = "retired" /\ x.content = versions[v].content
    BY <2>1, VersionMarked
  <2>3. v = w \/ versions'[v] = versions[v] \/ versions'[v] = x
    BY <1>12
  <2> HIDE DEF x
  <2> QED
    BY <1>8, <1>9, <1>12, <1>13, <2>1, <2>2, <2>3
<1>15. SeqFits(versions') /\ DOMAIN versions' = DOMAIN versions
  BY <1>12, <1>14, RowsFit, SeqRewritten
<1>16. /\ scenario \in Scenarios /\ scenario.published \in {0} \cup DOMAIN versions
       /\ scenario.draft \in {0} \cup DOMAIN versions
       /\ scenario.enabled \in BOOLEAN /\ scenario.published \in Nat /\ scenario.draft \in Nat
  BY RowsFit DEF Scenarios
<1>17. /\ points \in {scenario.published, w} /\ draft \in {scenario.draft, 0} /\ on \in BOOLEAN
       /\ draft = 0 /\ (w # was => points = w) /\ (p.loaded.enabled = FALSE => on)
  <2>1. on \in {scenario.enabled, yes} /\ (yes # p.loaded.enabled => on = yes)
    <3> HIDE DEF yes
    <3> QED
      BY Zenon DEF W!Written
  <2>2. /\ points \in {scenario.published, w} /\ draft \in {scenario.draft, 0} /\ draft = 0
        /\ w # was => points = w
    BY <1>6, WrittenIs
  <2> HIDE DEF on, points, draft
  <2> QED
    BY <1>16, <2>1, <2>2
<1> HIDE DEF points, draft, on, h, yes
<1>18. w \in Nat
  <2>1. versions \in Seq({versions[v] : v \in DOMAIN versions})
    BY RowsFit DEF SeqFits
  <2> QED
    BY <1>6, <2>1
<1>19. /\ scenario' \in Scenarios /\ scenario'.published = points /\ scenario'.draft = 0
       /\ scenario'.enabled = on
  BY <1>11, <1>16, <1>17, <1>18, PointedTyped, PointedFields
<1>20. PointersFit' /\ WorkingFits'
  BY <1>6, <1>11, <1>15, <1>16, <1>17, <1>19
     DEF WorkflowIInv, PointersFit, WorkingFits, W!Ids
<1>21. /\ versions'[w].status # "draft"
       /\ w \in raced' \/ versions'[w].content.ok
  BY <1>1, <1>8, <1>9, <1>11, <1>12, <1>13 DEF WorkflowIInv, PublishingSees
<1>22. PublishedFits'
  <2> SUFFICES ASSUME points # 0
               PROVE  /\ versions'[points].status # "draft"
                      /\ points \in raced' \/ versions'[points].content.ok
    BY <1>19 DEF PublishedFits
  <2>1. CASE points = w
    BY <1>21, <2>1
  <2>2. CASE points = scenario.published
    BY <1>11, <1>14, <1>16, <2>2 DEF WorkflowIInv, PublishedFits
  <2> QED
    BY <1>17, <2>1, <2>2
<1>23. RowsInOrder'
  <2> SUFFICES ASSUME ~overtaken
               PROVE  on => points # 0 /\ versions'[points].status = "published"
    BY <1>11, <1>19 DEF RowsInOrder
  <2>1. p.was = "draft" /\ was # w
    BY <1>1, <1>2 DEF WorkflowIInv, PublishingInOrder
  <2>2. points = w /\ mark = "published"
    BY <1>4, <1>17, <2>1, WrittenIs
  <2> QED
    BY <1>6, <1>9, <1>12, <2>2
<1>24. PublishingSees' /\ PublishingInOrder'
  <2>1. ASSUME NEW o \in publishing
        PROVE  /\ o.v \in raced' \/ versions'[o.v].content.ok = o.seen.ok
               /\ o.was # "draft" => versions'[o.v].status # "draft"
    <3>1. /\ o.v \in DOMAIN versions /\ (o.v \in raced \/ versions[o.v].content.ok = o.seen.ok)
          /\ o.was # "draft" => versions[o.v].status # "draft"
      BY DEF WorkflowIInv, PointersFit, PublishingSees, W!Ids
    <3> QED
      BY <1>11, <1>14, <3>1
  <2>2. PublishingSees'
    BY <1>11, <2>1 DEF PublishingSees
  <2>3. PublishingInOrder'
    BY <1>11 DEF WorkflowIInv, PublishingInOrder
  <2> QED
    BY <2>2, <2>3
<1> QED
  BY <1>15, <1>20, <1>22, <1>23, <1>24 DEF WorkflowIInv

LEMMA WorkflowKept == WorkflowIInv /\ W!Next => WorkflowIInv'
<1> SUFFICES ASSUME WorkflowIInv, W!Next PROVE WorkflowIInv'
  OBVIOUS
<1>1. CASE W!SwitchResource \/ \E f \in Files : W!EditFile(f)
  <2>1. UNCHANGED <<scenario, versions, publishing, saving, working, raced, overtaken>>
    BY <1>1 DEF W!SwitchResource, W!EditFile
  <2> QED
    BY <2>1, PublicationEnds
<1>2. CASE W!Crash
  <2>1. /\ publishing' = {} /\ saving' = {} /\ working' = {}
        /\ UNCHANGED <<scenario, versions, raced, overtaken>>
    BY <1>2 DEF W!Crash
  <2>2. PublicationsGoOn
    BY <2>1 DEF PublicationsGoOn
  <2> QED
    BY <2>1, <2>2, RequestsGoOn
<1>3. ASSUME NEW r \in Savers,
             \/ W!EnsureDraft(r) \/ W!Pause(r) \/ W!Reenable(r) \/ W!SaveLoads(r) \/ W!EnableBegins(r)
             \/ \E v \in W!Ids : W!CreateVersion(r, v) \/ W!Archive(r, v)
      PROVE  WorkflowIInv'
  <2>1. CASE W!EnsureDraft(r)
    BY <2>1, DraftEnsured
  <2>2. CASE W!Pause(r)
    BY <2>2, Paused
  <2>3. CASE W!Reenable(r)
    BY <2>3, Reenabled
  <2>4. CASE W!SaveLoads(r) \/ W!EnableBegins(r)
    BY <2>4, SavesLoaded, PublicationBegins
  <2>5. CASE \E v \in W!Ids : W!CreateVersion(r, v) \/ W!Archive(r, v)
    BY <2>5, VersionCreated, Archived
  <2> QED
    BY <1>3, <2>1, <2>2, <2>3, <2>4, <2>5
<1>4. CASE \E q \in working : W!Commits(q)
  BY <1>4, RequestCommits
<1>5. CASE \E s \in saving : W!SaveCommits(s)
  BY <1>5, SavesCommitted
<1>6. ASSUME NEW p \in publishing,
             \/ W!Refused(p) \/ W!ReplaceFile(p) \/ W!EnableCommits(p)
             \/ \E f \in Files : W!ReadFile(p, f) \/ W!CheckFile(p, f)
      PROVE  WorkflowIInv'
  <2>1. CASE W!Refused(p)
    BY <2>1, PublicationEnds DEF W!Refused, W!GivesUp
  <2>2. CASE W!ReplaceFile(p) \/ W!EnableCommits(p)
    BY <2>2, FileReplaced, PublicationCommits
  <2>3. CASE \E f \in Files : W!ReadFile(p, f) \/ W!CheckFile(p, f)
    BY <2>3, FileRead, FileChecked
  <2> QED
    BY <1>6, <2>1, <2>2, <2>3
<1> QED
  BY <1>1, <1>2, <1>3, <1>4, <1>5, <1>6 DEF W!Next

LEMMA WorkflowStutters == WorkflowIInv /\ UNCHANGED workflowVars => WorkflowIInv'
BY PublicationEnds DEF workflowVars

LEMMA InForceIsValid == WorkflowIInv => W!EnabledWasValidated
BY DEF WorkflowIInv, PublishedFits, RowsInOrder, W!EnabledWasValidated

\* Whatever enabling, pausing, archiving and versioning do to one another, each of them
\* between the rows it loads and what it commits of them: the version a scenario is
\* enabled with, from which runs are created, passed validation unless a save overlapped
\* its publication; and there is one, marked published, unless a request has been
\* committed on rows that had changed since it loaded them
\* (workflow_publishing.publish, clone_published_to_draft, create_workflow_version,
\* archive_workflow_version).
THEOREM EnabledValid == ServicesSpec => []EnabledWasValidated
<1> DEFINE Holds == part = "workflow" => WorkflowIInv
<1>1. ServicesInit => Holds
  BY WorkflowStarts DEF ServicesInit
<1>2. Holds /\ [ServicesNext]_servicesVars => Holds'
  <2> SUFFICES ASSUME Holds, [ServicesNext]_servicesVars, part' = "workflow"
               PROVE  WorkflowIInv'
    OBVIOUS
  <2>1. part = "workflow" /\ (W!Next \/ UNCHANGED workflowVars)
    BY DEF ServicesNext, servicesVars, RunLog, RunIndex, RunWorkflow, RunChat, RunCases,
           RunReports, RunUpdates
  <2> QED
    BY <2>1, WorkflowKept, WorkflowStutters
<1>3. Holds => EnabledWasValidated
  BY InForceIsValid DEF EnabledWasValidated
<1> QED
  BY <1>1, <1>2, <1>3, PTL DEF ServicesSpec

-----------------------------------------------------------------------------
(* Reports: what a request shows is what it loaded, which is the verdict   *)
(* in force as long as no verdict was stored since.                        *)

ReportRequest(k, a, s, v, n, x, e, w, l, c) ==
  [kind |-> k, at |-> a, status |-> s, verdict |-> v, no |-> n, value |-> x, ver |-> e,
   shows |-> w, late |-> l, raced |-> c]
IsReportRequest(q) ==
  q = ReportRequest(q.kind, q.at, q.status, q.verdict, q.no, q.value, q.ver, q.shows,
                    q.late, q.raced)
RunRow(s, v, n, x) == [status |-> s, verdict |-> v, no |-> n, value |-> x]
Writing == {"flushed", "staged", "renamed"}
Rendered == {"staged", "renamed"}

ReportsTyped ==
  /\ run = RunRow(run.status, run.verdict, run.no, run.value)
  /\ reqs = [r \in Requests |-> reqs[r]]
  /\ \A r \in Requests : IsReportRequest(reqs[r])
  /\ DOMAIN dirs \subseteq Nat /\ IsFiniteSet(DOMAIN dirs) /\ DOMAIN rows \subseteq DOMAIN dirs

\* What a request at work knows: the verdict in force, unless one was stored since it
\* loaded; and where it is in its version.
ReportFits(q, r, verdict, holder, places, recorded) ==
  /\ q.at \in Rendered => q.shows = q.verdict /\ q.ver \in Nat
  /\ q.at = "renamed" => q.ver \in DOMAIN places /\ places[q.ver].shows = q.shows
  /\ q.at = "staged" /\ ~q.late => q.ver \notin DOMAIN places
  /\ q.kind = "verdict" /\ q.at \in Writing => holder = r
  /\ q.kind = "verdict" /\ q.at \in Rendered => \A v \in DOMAIN recorded : v < q.ver
  /\ q.raced \/ q.kind = "verdict" \/ q.at \in {"idle", "loading"} \/ q.verdict = verdict
ReportsFit ==
  \A r \in Requests : ReportFits(reqs[r], r, run.verdict, writer, dirs, rows)
RowsAsRecorded ==
  \A v \in DOMAIN rows : dirs[v].by = rows[v].by /\ dirs[v].shows = rows[v].shows

\* A comparison is what the metrics it was made from give.
ComparisonJudged ==
  comparison # R!NoComparison =>
    /\ comparison.judged = R!ComparisonRows(comparison.value, BaselineRun.metrics)
    /\ comparison.compatible = R!Compatible(comparison.judged)

ReportsIInv ==
  ReportsTyped /\ ReportsFit /\ RowsAsRecorded /\ R!NewestShowsVerdict

\* A finite set of numbers has a largest: no element of it has a least set above it otherwise.
LEMMA HasLargest ==
  ASSUME NEW T \in SUBSET Nat, IsFiniteSet(T), T # {}
  PROVE  \E x \in T : \A y \in T : y <= x
<1> DEFINE Above(x) == {y \in T : x < y}
           Cuts == {Above(x) : x \in T}
           Smaller == StrictSubsetOrdering(T)
<1>1. \A x \in T : Above(x) \subseteq T
  OBVIOUS
<1>2. Cuts \subseteq FiniteSubsetsOf(T)
  BY <1>1, FS_Subset DEF FiniteSubsetsOf
<1>3. IsWellFoundedOn(Smaller, FiniteSubsetsOf(T))
  BY FS_StrictSubsetOrderingWellFounded
<1>4. Cuts # {}
  OBVIOUS
<1>5. PICK least \in Cuts : \A t \in Cuts : <<t, least>> \notin Smaller
  <2> HIDE DEF Cuts, Smaller
  <2> QED
    BY <1>2, <1>3, <1>4, WFMin
<1>6. PICK x \in T : least = Above(x)
  BY <1>5
<1>7. ASSUME NEW y \in T, x < y
      PROVE  FALSE
  <2>1. y \in Above(x) /\ y \notin Above(y)
    BY <1>7
  <2>2. Above(y) \subseteq Above(x)
    <3>1. ASSUME NEW z \in T, y < z
          PROVE  x < z
      BY <1>7, <3>1
    <3> QED
      BY <3>1
  <2>3. <<Above(y), Above(x)>> \in Smaller
    BY <2>1, <2>2 DEF StrictSubsetOrdering
  <2>4. Above(y) \in Cuts
    OBVIOUS
  <2> QED
    BY <1>5, <1>6, <2>3, <2>4
<1>8. \A y \in T : y <= x
  BY <1>7
<1> QED
  BY <1>8

LEMMA MaxIs ==
  ASSUME NEW T \in SUBSET Nat, NEW x \in T, \A y \in T : y <= x
  PROVE  R!Max(T) = x
<1>1. \E z \in T : \A y \in T : z >= y
  OBVIOUS
<1>2. R!Max(T) \in T /\ \A y \in T : R!Max(T) >= y
  BY <1>1, Zenon DEF R!Max
<1> DEFINE m == R!Max(T)
<1>3. m \in T /\ m >= x /\ m <= x /\ m \in Nat /\ x \in Nat
  BY <1>2
<1> HIDE DEF m
<1>4. m = x
  BY <1>3
<1> QED
  BY <1>4 DEF m

LEMMA MaxHolds ==
  ASSUME NEW T \in SUBSET Nat, IsFiniteSet(T), T # {}
  PROVE  R!Max(T) \in T /\ \A y \in T : y <= R!Max(T)
<1>1. PICK x \in T : \A y \in T : y <= x
  BY HasLargest
<1> QED
  BY <1>1, MaxIs

\* A request's record, field by field.
LEMMA ReportRequestIs ==
  ASSUME NEW k, NEW a, NEW s, NEW v, NEW n, NEW x, NEW e, NEW w, NEW l, NEW c
  PROVE  LET q == ReportRequest(k, a, s, v, n, x, e, w, l, c)
         IN  /\ IsReportRequest(q) /\ q.kind = k /\ q.at = a /\ q.verdict = v /\ q.ver = e
             /\ q.shows = w /\ q.late = l /\ q.raced = c
BY DEF ReportRequest, IsReportRequest

LEMMA IdleIs == IsReportRequest(R!Idle) /\ R!Idle.at = "idle"
BY DEF R!Idle, ReportRequest, IsReportRequest

Received(kind, s, n) ==
  [R!Idle EXCEPT !.kind = kind, !.at = "loading", !.status = s, !.no = n]
LEMMA ReceivedIs ==
  ASSUME NEW kind, NEW s, NEW n
  PROVE  LET y == Received(kind, s, n)
         IN  IsReportRequest(y) /\ y.at = "loading"
<1> DEFINE at == "loading"  idle == "idle"  on == "running"  no == FALSE  m == R!NoMetrics
           y == ReportRequest(kind, at, s, 0, n, m, 0, 0, no, no)
<1>1. R!Idle = ReportRequest(idle, idle, on, 0, 0, m, 0, 0, no, no)
  BY DEF R!Idle, ReportRequest
<1>2. Received(kind, s, n) = [R!Idle EXCEPT !.kind = kind, !.at = at, !.status = s, !.no = n]
  BY Zenon DEF Received
<1> HIDE DEF at, idle, on, no, m
<1>3. [ReportRequest(idle, idle, on, 0, 0, m, 0, 0, no, no) EXCEPT !.kind = kind]
        = ReportRequest(kind, idle, on, 0, 0, m, 0, 0, no, no)
  BY DEF ReportRequest
<1>4. [ReportRequest(kind, idle, on, 0, 0, m, 0, 0, no, no) EXCEPT !.at = at]
        = ReportRequest(kind, at, on, 0, 0, m, 0, 0, no, no)
  BY DEF ReportRequest
<1>5. [ReportRequest(kind, at, on, 0, 0, m, 0, 0, no, no) EXCEPT !.status = s]
        = ReportRequest(kind, at, s, 0, 0, m, 0, 0, no, no)
  BY DEF ReportRequest
<1>6. [ReportRequest(kind, at, s, 0, 0, m, 0, 0, no, no) EXCEPT !.no = n] = y
  BY DEF ReportRequest
<1>7. IsReportRequest(y) /\ y.at = at
  BY ReportRequestIs
<1> HIDE DEF y
<1>8. Received(kind, s, n) = y
  BY <1>1, <1>2, <1>3, <1>4, <1>5, <1>6, Zenon
<1> QED
  BY <1>7, <1>8 DEF at

\* What a step changes of a request: its place and the verdict, the version and what it shows.
Proceeds(q, a, v, x) == [q EXCEPT !.at = a, !.verdict = v, !.value = x]
LEMMA ProceedsIs ==
  ASSUME NEW q, IsReportRequest(q), NEW a, NEW v, NEW x
  PROVE  LET y == Proceeds(q, a, v, x)
         IN  /\ IsReportRequest(y) /\ y.kind = q.kind /\ y.at = a /\ y.verdict = v
             /\ y.raced = q.raced
<1> DEFINE k == q.kind  b == q.at  s == q.status  u == q.verdict  n == q.no  z == q.value
           e == q.ver  w == q.shows  l == q.late  c == q.raced
           y == ReportRequest(k, a, s, v, n, x, e, w, l, c)
<1>1. q = ReportRequest(k, b, s, u, n, z, e, w, l, c)
  BY DEF IsReportRequest
<1> HIDE DEF k, b, s, u, n, z, e, w, l, c
<1>2. [q EXCEPT !.at = a] = ReportRequest(k, a, s, u, n, z, e, w, l, c)
  BY <1>1 DEF ReportRequest
<1>3. [ReportRequest(k, a, s, u, n, z, e, w, l, c) EXCEPT !.verdict = v]
        = ReportRequest(k, a, s, v, n, z, e, w, l, c)
  BY DEF ReportRequest
<1>4. [ReportRequest(k, a, s, v, n, z, e, w, l, c) EXCEPT !.value = x] = y
  BY DEF ReportRequest
<1>5. IsReportRequest(y) /\ y.kind = k /\ y.at = a /\ y.verdict = v /\ y.raced = c
  BY ReportRequestIs
<1> HIDE DEF y
<1>6. Proceeds(q, a, v, x) = y
  BY <1>2, <1>3, <1>4, Zenon DEF Proceeds
<1> QED
  BY <1>5, <1>6 DEF k, c

Flushes(q, v) == [q EXCEPT !.at = "flushed", !.verdict = v]
LEMMA FlushesIs ==
  ASSUME NEW q, IsReportRequest(q), NEW v
  PROVE  LET y == Flushes(q, v)
         IN  IsReportRequest(y) /\ y.kind = q.kind /\ y.at = "flushed" /\ y.verdict = v
<1> DEFINE k == q.kind  b == q.at  s == q.status  u == q.verdict  n == q.no  z == q.value
           e == q.ver  w == q.shows  l == q.late  c == q.raced  a == "flushed"
           y == ReportRequest(k, a, s, v, n, z, e, w, l, c)
<1>1. q = ReportRequest(k, b, s, u, n, z, e, w, l, c)
  BY DEF IsReportRequest
<1>2. Flushes(q, v) = [q EXCEPT !.at = a, !.verdict = v]
  BY Zenon DEF Flushes
<1> HIDE DEF k, b, s, u, n, z, e, w, l, c, a
<1>3. [q EXCEPT !.at = a] = ReportRequest(k, a, s, u, n, z, e, w, l, c)
  BY <1>1 DEF ReportRequest
<1>4. [ReportRequest(k, a, s, u, n, z, e, w, l, c) EXCEPT !.verdict = v] = y
  BY DEF ReportRequest
<1>5. IsReportRequest(y) /\ y.kind = k /\ y.at = a /\ y.verdict = v
  BY ReportRequestIs
<1> HIDE DEF y
<1>6. Flushes(q, v) = y
  BY <1>2, <1>3, <1>4, Zenon
<1> QED
  BY <1>5, <1>6 DEF k, a

Stages(q, e, w) == [q EXCEPT !.at = "staged", !.ver = e, !.shows = w, !.late = FALSE]
LEMMA StagesIs ==
  ASSUME NEW q, IsReportRequest(q), NEW d, NEW g
  PROVE  LET y == Stages(q, d, g)
         IN  /\ IsReportRequest(y) /\ y.kind = q.kind /\ y.at = "staged"
             /\ y.verdict = q.verdict /\ y.ver = d /\ y.shows = g /\ y.raced = q.raced
<1> DEFINE k == q.kind  b == q.at  s == q.status  u == q.verdict  n == q.no  z == q.value
           e == q.ver  w == q.shows  l == q.late  c == q.raced  a == "staged"  no == FALSE
           y == ReportRequest(k, a, s, u, n, z, d, g, no, c)
<1>1. q = ReportRequest(k, b, s, u, n, z, e, w, l, c)
  BY DEF IsReportRequest
<1>2. Stages(q, d, g) = [q EXCEPT !.at = a, !.ver = d, !.shows = g, !.late = no]
  BY Zenon DEF Stages
<1> HIDE DEF k, b, s, u, n, z, e, w, l, c, a, no
<1>3. [q EXCEPT !.at = a] = ReportRequest(k, a, s, u, n, z, e, w, l, c)
  BY <1>1 DEF ReportRequest
<1>4. [ReportRequest(k, a, s, u, n, z, e, w, l, c) EXCEPT !.ver = d]
        = ReportRequest(k, a, s, u, n, z, d, w, l, c)
  BY DEF ReportRequest
<1>5. [ReportRequest(k, a, s, u, n, z, d, w, l, c) EXCEPT !.shows = g]
        = ReportRequest(k, a, s, u, n, z, d, g, l, c)
  BY DEF ReportRequest
<1>6. [ReportRequest(k, a, s, u, n, z, d, g, l, c) EXCEPT !.late = no] = y
  BY DEF ReportRequest
<1>7. /\ IsReportRequest(y) /\ y.kind = k /\ y.at = a /\ y.verdict = u /\ y.ver = d
      /\ y.shows = g /\ y.raced = c
  BY ReportRequestIs
<1> HIDE DEF y
<1>8. Stages(q, d, g) = y
  BY <1>2, <1>3, <1>4, <1>5, <1>6, Zenon
<1> QED
  BY <1>7, <1>8 DEF k, a, u, c

\* One field that tells of the others' steps, or where the request is.
LEMMA PlaceIs ==
  ASSUME NEW q, IsReportRequest(q), NEW a
  PROVE  LET y == [q EXCEPT !.at = a]
         IN  /\ IsReportRequest(y) /\ y.kind = q.kind /\ y.at = a /\ y.verdict = q.verdict
             /\ y.ver = q.ver /\ y.shows = q.shows /\ y.raced = q.raced
<1> DEFINE k == q.kind  b == q.at  s == q.status  u == q.verdict  n == q.no  z == q.value
           e == q.ver  w == q.shows  l == q.late  c == q.raced
           y == ReportRequest(k, a, s, u, n, z, e, w, l, c)
<1>1. q = ReportRequest(k, b, s, u, n, z, e, w, l, c)
  BY DEF IsReportRequest
<1> HIDE DEF k, b, s, u, n, z, e, w, l, c
<1>2. [q EXCEPT !.at = a] = y
  BY <1>1 DEF ReportRequest
<1>3. /\ IsReportRequest(y) /\ y.kind = k /\ y.at = a /\ y.verdict = u /\ y.ver = e
      /\ y.shows = w /\ y.raced = c
  BY ReportRequestIs
<1> QED
  BY <1>2, <1>3 DEF k, u, e, w, c

LEMMA LateIs ==
  ASSUME NEW q, IsReportRequest(q), NEW yes
  PROVE  LET y == [q EXCEPT !.late = yes]
         IN  /\ IsReportRequest(y) /\ y.kind = q.kind /\ y.at = q.at /\ y.verdict = q.verdict
             /\ y.ver = q.ver /\ y.shows = q.shows /\ y.raced = q.raced /\ y.late = yes
<1> DEFINE k == q.kind  b == q.at  s == q.status  u == q.verdict  n == q.no  z == q.value
           e == q.ver  w == q.shows  l == q.late  c == q.raced
           y == ReportRequest(k, b, s, u, n, z, e, w, yes, c)
<1>1. q = ReportRequest(k, b, s, u, n, z, e, w, l, c)
  BY DEF IsReportRequest
<1> HIDE DEF k, b, s, u, n, z, e, w, l, c
<1>2. [q EXCEPT !.late = yes] = y
  BY <1>1 DEF ReportRequest
<1>3. /\ IsReportRequest(y) /\ y.kind = k /\ y.at = b /\ y.verdict = u /\ y.ver = e
      /\ y.shows = w /\ y.raced = c /\ y.late = yes
  BY ReportRequestIs
<1> QED
  BY <1>2, <1>3 DEF k, b, u, e, w, c

LEMMA RacedIs ==
  ASSUME NEW q, IsReportRequest(q), NEW yes
  PROVE  LET y == [q EXCEPT !.raced = yes]
         IN  /\ IsReportRequest(y) /\ y.kind = q.kind /\ y.at = q.at /\ y.verdict = q.verdict
             /\ y.ver = q.ver /\ y.shows = q.shows /\ y.late = q.late /\ y.raced = yes
<1> DEFINE k == q.kind  b == q.at  s == q.status  u == q.verdict  n == q.no  z == q.value
           e == q.ver  w == q.shows  l == q.late  c == q.raced
           y == ReportRequest(k, b, s, u, n, z, e, w, l, yes)
<1>1. q = ReportRequest(k, b, s, u, n, z, e, w, l, c)
  BY DEF IsReportRequest
<1> HIDE DEF k, b, s, u, n, z, e, w, l, c
<1>2. [q EXCEPT !.raced = yes] = y
  BY <1>1 DEF ReportRequest
<1>3. /\ IsReportRequest(y) /\ y.kind = k /\ y.at = b /\ y.verdict = u /\ y.ver = e
      /\ y.shows = w /\ y.late = l /\ y.raced = yes
  BY ReportRequestIs
<1> QED
  BY <1>2, <1>3 DEF k, b, u, e, w, l

LEMMA ReportsStart == R!Init => ReportsIInv /\ ComparisonJudged
<1> SUFFICES ASSUME R!Init PROVE ReportsIInv /\ ComparisonJudged
  OBVIOUS
<1> USE DEF R!Init
<1>1. \A r \in Requests : reqs[r] = R!Idle
  OBVIOUS
<1>2. DOMAIN dirs = {} /\ DOMAIN rows = {}
  OBVIOUS
<1>3. ReportsTyped
  <2>1. run = RunRow(run.status, run.verdict, run.no, run.value)
    BY DEF RunRow
  <2>2. reqs = [r \in Requests |-> reqs[r]]
    OBVIOUS
  <2>3. IsFiniteSet(DOMAIN dirs)
    BY <1>2, FS_EmptySet
  <2> QED
    BY <1>1, <1>2, <2>1, <2>2, <2>3, IdleIs DEF ReportsTyped
<1>4. ReportsFit
  <2> SUFFICES ASSUME NEW r \in Requests PROVE ReportFits(reqs[r], r, run.verdict, writer, dirs, rows)
    BY DEF ReportsFit
  <2>1. reqs[r].at = "idle"
    BY <1>1, IdleIs
  <2> QED
    BY <2>1 DEF ReportFits, Writing, Rendered
<1>5. RowsAsRecorded /\ R!NewestShowsVerdict
  BY <1>2 DEF RowsAsRecorded, R!NewestShowsVerdict
<1>6. ComparisonJudged
  BY DEF ComparisonJudged
<1> QED
  BY <1>3, <1>4, <1>5, <1>6 DEF ReportsIInv

\* Nothing is recorded and no directory appears.
LEMMA NothingRecorded ==
  ASSUME ReportsIInv, UNCHANGED <<rows, dirs>>, run'.verdict = run.verdict,
         run' = RunRow(run'.status, run'.verdict, run'.no, run'.value),
         reqs' = [r \in Requests |-> reqs'[r]],
         \A r \in Requests : IsReportRequest(reqs'[r]), ReportsFit'
  PROVE  ReportsIInv'
<1>1. ReportsTyped'
  BY DEF ReportsIInv, ReportsTyped
<1>2. RowsAsRecorded' /\ R!NewestShowsVerdict'
  BY DEF ReportsIInv, RowsAsRecorded, R!NewestShowsVerdict
<1> QED
  BY <1>1, <1>2 DEF ReportsIInv

\* One request goes on, and gives up no lock but its own.
LEMMA ReportGoes ==
  ASSUME ReportsIInv, NEW r \in Requests, NEW y, IsReportRequest(y),
         ReportFits(y, r, run.verdict, writer', dirs, rows),
         R!Goes(r, y), UNCHANGED <<run, rows, dirs>>,
         writer' = writer \/ writer \in {R!None, r}
  PROVE  ReportsIInv'
<1>1. /\ reqs = [q \in Requests |-> reqs[q]] /\ \A q \in Requests : IsReportRequest(reqs[q])
      /\ run = RunRow(run.status, run.verdict, run.no, run.value)
  BY DEF ReportsIInv, ReportsTyped
<1>2. /\ reqs' = [q \in Requests |-> reqs'[q]] /\ reqs'[r] = y
      /\ \A q \in Requests : q # r => reqs'[q] = reqs[q]
  BY <1>1 DEF R!Goes
<1>3. ReportsFit'
  <2> SUFFICES ASSUME NEW q \in Requests
               PROVE  ReportFits(reqs'[q], q, run'.verdict, writer', dirs', rows')
    BY DEF ReportsFit
  <2>1. CASE q = r
    BY <1>2, <2>1
  <2>2. CASE q # r
    <3>1. reqs'[q] = reqs[q] /\ ReportFits(reqs[q], q, run.verdict, writer, dirs, rows)
      BY <1>2, <2>2 DEF ReportsIInv, ReportsFit
    <3>2. reqs[q].kind = "verdict" /\ reqs[q].at \in Writing => writer' = writer
      BY <2>2, <3>1, ReportsAssumption DEF ReportFits
    <3> QED
      BY <3>1, <3>2 DEF ReportFits
  <2> QED
    BY <2>1, <2>2
<1>4. \A q \in Requests : IsReportRequest(reqs'[q])
  BY <1>1, <1>2
<1> QED
  BY <1>1, <1>2, <1>3, <1>4, NothingRecorded

LEMMA ReportEnds ==
  ASSUME ReportsIInv, NEW r \in Requests, R!Ends(r), UNCHANGED <<run, rows, dirs>>
  PROVE  ReportsIInv'
<1>1. ReportFits(R!Idle, r, run.verdict, writer', dirs, rows)
  BY IdleIs DEF ReportFits, Writing, Rendered
<1>2. R!Goes(r, R!Idle) /\ (writer' = writer \/ writer \in {R!None, r})
  BY DEF R!Ends
<1> QED
  BY <1>1, <1>2, IdleIs, ReportGoes

LEMMA ReceiveKept ==
  ASSUME ReportsIInv, NEW r \in Requests, NEW kind, R!Receive(r, kind)
  PROVE  ReportsIInv'
<1> DEFINE n == IF kind = "compare" THEN run.no ELSE 0
           y == Received(kind, run.status, n)
<1>1. R!Goes(r, y) /\ UNCHANGED <<run, rows, dirs, writer>>
  BY Zenon DEF R!Receive, Received
<1>2. IsReportRequest(y) /\ y.at = "loading"
  BY ReceivedIs
<1> HIDE DEF y
<1>3. ReportFits(y, r, run.verdict, writer', dirs, rows)
  BY <1>2 DEF ReportFits, Writing, Rendered
<1> QED
  BY <1>1, <1>2, <1>3, ReportGoes

LEMMA LoadKept ==
  ASSUME ReportsIInv, NEW r \in Requests, R!Load(r)
  PROVE  ReportsIInv'
<1> DEFINE x == IF reqs[r].kind = "compare" THEN run.value ELSE R!NoMetrics
           y == Proceeds(reqs[r], "loaded", run.verdict, x)
<1>1. R!Goes(r, y) /\ UNCHANGED <<run, rows, dirs, writer>>
  BY Zenon DEF R!Load, Proceeds
<1>2. IsReportRequest(reqs[r])
  BY DEF ReportsIInv, ReportsTyped
<1>3. IsReportRequest(y) /\ y.at = "loaded" /\ y.verdict = run.verdict
  BY <1>2, ProceedsIs
<1> HIDE DEF y
<1>4. ReportFits(y, r, run.verdict, writer', dirs, rows)
  BY <1>1, <1>3 DEF ReportFits, Writing, Rendered
<1> QED
  BY <1>1, <1>3, <1>4, ReportGoes

LEMMA GiveVerdictKept ==
  ASSUME ReportsIInv, NEW r \in Requests, R!GiveVerdict(r)
  PROVE  ReportsIInv'
<1> DEFINE y == Flushes(reqs[r], run.verdict + 1)
<1>1. CASE R!Ends(r)
  BY <1>1, ReportEnds DEF R!GiveVerdict
<1>2. CASE writer' = r /\ R!Goes(r, y)
  <2>1. writer = R!None /\ reqs[r].kind = "verdict" /\ UNCHANGED <<run, rows, dirs>>
    BY DEF R!GiveVerdict
  <2>2. IsReportRequest(reqs[r])
    BY DEF ReportsIInv, ReportsTyped
  <2>3. IsReportRequest(y) /\ y.at = "flushed" /\ y.kind = "verdict"
    BY <2>1, <2>2, FlushesIs
  <2> HIDE DEF y
  <2>4. ReportFits(y, r, run.verdict, writer', dirs, rows)
    BY <1>2, <2>3 DEF ReportFits, Writing, Rendered
  <2> QED
    BY <1>2, <2>1, <2>3, <2>4, ReportGoes
<1>3. R!Ends(r) \/ (writer' = r /\ R!Goes(r, y))
  BY Zenon DEF R!GiveVerdict, Flushes
<1> QED
  BY <1>1, <1>2, <1>3

Analyzed(x, n, measured) == [x EXCEPT !.no = n, !.value = measured]
LEMMA RunAnalyzed ==
  ASSUME NEW x, x = RunRow(x.status, x.verdict, x.no, x.value), NEW n, NEW measured
  PROVE  LET y == Analyzed(x, n, measured)
         IN  y = RunRow(y.status, y.verdict, y.no, y.value) /\ y.verdict = x.verdict
<1> DEFINE s == x.status  v == x.verdict  m == x.no  u == x.value
<1>1. x = RunRow(s, v, m, u)
  OBVIOUS
<1> HIDE DEF s, v, m, u
<1>2. [x EXCEPT !.no = n] = RunRow(s, v, n, u)
  BY <1>1 DEF RunRow
<1>3. [RunRow(s, v, n, u) EXCEPT !.value = measured] = RunRow(s, v, n, measured)
  BY DEF RunRow
<1>4. Analyzed(x, n, measured) = RunRow(s, v, n, measured)
  BY <1>2, <1>3, Zenon DEF Analyzed
<1> QED
  BY <1>4 DEF RunRow, v

LEMMA RunReviewed ==
  ASSUME NEW x, x = RunRow(x.status, x.verdict, x.no, x.value), NEW mark
  PROVE  LET y == [x EXCEPT !.status = mark]
         IN  y = RunRow(y.status, y.verdict, y.no, y.value) /\ y.verdict = x.verdict
<1> DEFINE s == x.status  v == x.verdict  m == x.no  u == x.value
<1>1. x = RunRow(s, v, m, u)
  OBVIOUS
<1> HIDE DEF s, v, m, u
<1>2. [x EXCEPT !.status = mark] = RunRow(mark, v, m, u)
  BY <1>1 DEF RunRow
<1> QED
  BY <1>2 DEF RunRow, v

Judged(x, mark, d) == [x EXCEPT !.status = mark, !.verdict = d]
LEMMA RunJudged ==
  ASSUME NEW x, x = RunRow(x.status, x.verdict, x.no, x.value), NEW mark, NEW d
  PROVE  LET y == Judged(x, mark, d)
         IN  y = RunRow(y.status, y.verdict, y.no, y.value) /\ y.verdict = d
<1> DEFINE s == x.status  v == x.verdict  m == x.no  u == x.value
<1>1. x = RunRow(s, v, m, u)
  OBVIOUS
<1> HIDE DEF s, v, m, u
<1>2. [x EXCEPT !.status = mark] = RunRow(mark, v, m, u)
  BY <1>1 DEF RunRow
<1>3. [RunRow(mark, v, m, u) EXCEPT !.verdict = d] = RunRow(mark, d, m, u)
  BY DEF RunRow
<1>4. Judged(x, mark, d) = RunRow(mark, d, m, u)
  BY <1>2, <1>3, Zenon DEF Judged
<1> QED
  BY <1>4 DEF RunRow

LEMMA RunGoesOn ==
  ASSUME ReportsIInv, UNCHANGED <<rows, dirs, writer, reqs>>, run'.verdict = run.verdict,
         run' = RunRow(run'.status, run'.verdict, run'.no, run'.value)
  PROVE  ReportsIInv'
<1>1. /\ reqs' = [r \in Requests |-> reqs'[r]]
      /\ \A r \in Requests : IsReportRequest(reqs'[r])
  BY DEF ReportsIInv, ReportsTyped
<1>2. ReportsFit'
  BY DEF ReportsIInv, ReportsFit
<1> QED
  BY <1>1, <1>2, NothingRecorded

LEMMA AnalyzeKept ==
  ASSUME ReportsIInv, NEW measured, R!Analyze(measured)
  PROVE  ReportsIInv'
<1>1. run = RunRow(run.status, run.verdict, run.no, run.value)
  BY DEF ReportsIInv, ReportsTyped
<1>2. run' = Analyzed(run, run.no + 1, measured)
  BY DEF R!Analyze, Analyzed
<1>3. run' = RunRow(run'.status, run'.verdict, run'.no, run'.value) /\ run'.verdict = run.verdict
  BY <1>1, <1>2, RunAnalyzed
<1> QED
  BY <1>3, RunGoesOn DEF R!Analyze

LEMMA AwaitReviewKept ==
  ASSUME ReportsIInv, R!AwaitReview
  PROVE  ReportsIInv'
<1>1. run = RunRow(run.status, run.verdict, run.no, run.value)
  BY DEF ReportsIInv, ReportsTyped
<1>2. run' = [run EXCEPT !.status = "awaiting_review"]
  BY DEF R!AwaitReview
<1>3. run' = RunRow(run'.status, run'.verdict, run'.no, run'.value) /\ run'.verdict = run.verdict
  BY <1>1, <1>2, RunReviewed
<1> QED
  BY <1>3, RunGoesOn DEF R!AwaitReview

LEMMA ReportsCrashKept ==
  ASSUME ReportsIInv, R!Crash
  PROVE  ReportsIInv'
<1>1. /\ reqs' = [r \in Requests |-> R!Idle] /\ UNCHANGED <<run, rows, dirs>>
  BY DEF R!Crash
<1>2. \A r \in Requests : reqs'[r] = R!Idle
  BY <1>1
<1>3. reqs' = [r \in Requests |-> reqs'[r]]
  BY <1>1
<1>4. ReportsFit'
  BY <1>2, IdleIs DEF ReportsFit, ReportFits, Writing, Rendered
<1>5. run' = RunRow(run'.status, run'.verdict, run'.no, run'.value)
  BY <1>1 DEF ReportsIInv, ReportsTyped
<1> QED
  BY <1>1, <1>2, <1>3, <1>4, <1>5, IdleIs, NothingRecorded

\* The next number is above every record and every directory.
LEMMA NextReport ==
  ASSUME ReportsIInv
  PROVE  LET n == R!Max(R!Versions \cup {0}) + 1
         IN  n \in Nat /\ n \notin DOMAIN dirs /\ \A v \in DOMAIN rows : v < n
<1> DEFINE T == R!Versions \cup {0}
<1>1. R!Versions = DOMAIN dirs /\ DOMAIN dirs \subseteq Nat /\ DOMAIN rows \subseteq DOMAIN dirs
  BY DEF ReportsIInv, ReportsTyped, R!Versions
<1>2. T \subseteq Nat /\ T # {}
  BY <1>1
<1>3. IsFiniteSet(T)
  BY <1>1, FS_AddElement DEF ReportsIInv, ReportsTyped
<1>4. DOMAIN dirs \subseteq T
  BY <1>1
<1> HIDE DEF T
<1> DEFINE m == R!Max(T)
<1>5. m \in T /\ \A y \in T : y <= m
  BY <1>2, <1>3, MaxHolds
<1> HIDE DEF m
<1>6. m + 1 \in Nat /\ m + 1 \notin DOMAIN dirs /\ \A v \in DOMAIN rows : v < m + 1
  BY <1>1, <1>2, <1>4, <1>5
<1> QED
  BY <1>6 DEF m, T

LEMMA RenderKept ==
  ASSUME ReportsIInv, NEW r \in Requests, R!Render(r)
  PROVE  ReportsIInv'
<1> DEFINE n == R!Max(R!Versions \cup {0}) + 1
           old == reqs[r]
           y == Stages(old, n, R!Shown(old))
<1>1. R!Goes(r, y) /\ UNCHANGED <<run, rows, dirs, writer>> /\ R!MayRender(old)
  BY Zenon DEF R!Render, Stages
<1>2. n \in Nat /\ n \notin DOMAIN dirs /\ \A v \in DOMAIN rows : v < n
  BY NextReport
<1>3. IsReportRequest(old) /\ ReportFits(old, r, run.verdict, writer, dirs, rows)
  BY DEF ReportsIInv, ReportsTyped, ReportsFit
<1>4. \/ old.kind = "verdict" /\ old.at = "flushed"
      \/ old.kind # "verdict" /\ old.at = "loaded"
  BY <1>1 DEF R!MayRender
<1> HIDE DEF n, old
<1>5. /\ IsReportRequest(y) /\ y.kind = old.kind /\ y.at = "staged"
      /\ y.verdict = old.verdict /\ y.ver = n /\ y.shows = old.verdict /\ y.raced = old.raced
  BY <1>3, StagesIs DEF R!Shown
<1> HIDE DEF y
<1>6. ReportFits(y, r, run.verdict, writer', dirs, rows)
  BY <1>1, <1>2, <1>3, <1>4, <1>5 DEF ReportFits, Writing, Rendered
<1> QED
  BY <1>1, <1>5, <1>6, ReportGoes

\* The directory gets a place of its own, and who chose a number before knows.
LEMMA PublishKept ==
  ASSUME ReportsIInv, NEW r \in Requests, R!Publish(r)
  PROVE  ReportsIInv'
<1> DEFINE old == reqs[r]
<1>1. CASE R!Collides(old)
  BY <1>1, ReportEnds DEF R!Publish
<1>2. CASE ~R!Collides(old)
  <2> DEFINE e == old.ver  x == [by |-> r, shows |-> old.shows]
  <2>1. /\ dirs' = [v \in DOMAIN dirs \cup {e} |-> IF v = e THEN x ELSE dirs[v]]
        /\ reqs' = [q \in Requests |->
             IF q = r THEN [old EXCEPT !.at = "renamed"]
             ELSE IF reqs[q].at = "staged" THEN [reqs[q] EXCEPT !.late = TRUE] ELSE reqs[q]]
        /\ UNCHANGED <<writer, run, rows>>
    BY <1>2, Zenon DEF R!Publish
  <2>2. e \notin DOMAIN dirs /\ old.at = "staged" /\ x.shows = old.shows
    BY <1>2 DEF R!Collides, R!Publish
  <2>3. /\ \A q \in Requests : IsReportRequest(reqs[q])
        /\ \A q \in Requests : ReportFits(reqs[q], q, run.verdict, writer, dirs, rows)
        /\ DOMAIN dirs \subseteq Nat /\ IsFiniteSet(DOMAIN dirs) /\ DOMAIN rows \subseteq DOMAIN dirs
        /\ run = RunRow(run.status, run.verdict, run.no, run.value)
    BY DEF ReportsIInv, ReportsTyped, ReportsFit
  <2>4. e \in Nat /\ old.shows = old.verdict
    BY <2>2, <2>3 DEF ReportFits, Rendered
  <2>5. /\ IsReportRequest(reqs'[r]) /\ reqs'[r].kind = old.kind /\ reqs'[r].at = "renamed"
        /\ reqs'[r].verdict = old.verdict /\ reqs'[r].ver = e /\ reqs'[r].shows = old.shows
        /\ reqs'[r].raced = old.raced
    <3> DEFINE y == [old EXCEPT !.at = "renamed"]
    <3>1. reqs'[r] = y
      BY <2>1
    <3>2. /\ IsReportRequest(y) /\ y.kind = old.kind /\ y.at = "renamed"
          /\ y.verdict = old.verdict /\ y.ver = e /\ y.shows = old.shows /\ y.raced = old.raced
      BY <2>3, PlaceIs
    <3> QED
      BY <3>1, <3>2, Zenon
  <2>6. ASSUME NEW q \in Requests, q # r
        PROVE  /\ IsReportRequest(reqs'[q]) /\ reqs'[q].kind = reqs[q].kind
               /\ reqs'[q].at = reqs[q].at /\ reqs'[q].verdict = reqs[q].verdict
               /\ reqs'[q].ver = reqs[q].ver /\ reqs'[q].shows = reqs[q].shows
               /\ reqs'[q].raced = reqs[q].raced /\ (reqs[q].at = "staged" => reqs'[q].late)
    <3> DEFINE yes == TRUE  z == reqs[q]  y == [z EXCEPT !.late = yes]
    <3>1. /\ IsReportRequest(y) /\ y.kind = z.kind /\ y.at = z.at /\ y.verdict = z.verdict
          /\ y.ver = z.ver /\ y.shows = z.shows /\ y.raced = z.raced /\ y.late = yes
      <4> HIDE DEF yes
      <4> QED
        BY <2>3, LateIs
    <3>2. reqs'[q] = IF z.at = "staged" THEN y ELSE z
      BY <2>1, <2>6
    <3> HIDE DEF y
    <3> QED
      BY <2>3, <3>1, <3>2
  <2> HIDE DEF old, x, e
  <2>7. /\ DOMAIN dirs' = DOMAIN dirs \cup {e} /\ dirs'[e] = x
        /\ \A v \in DOMAIN dirs : dirs'[v] = dirs[v]
    BY <2>1, <2>2
  <2>8. ReportsTyped'
    <3>1. reqs' = [q \in Requests |-> reqs'[q]]
      BY <2>1
    <3>2. \A q \in Requests : IsReportRequest(reqs'[q])
      BY <2>5, <2>6
    <3>3. IsFiniteSet(DOMAIN dirs') /\ DOMAIN dirs' \subseteq Nat /\ DOMAIN rows' \subseteq DOMAIN dirs'
      BY <2>1, <2>3, <2>4, <2>7, FS_AddElement
    <3> QED
      BY <2>1, <2>3, <3>1, <3>2, <3>3 DEF ReportsTyped
  <2>9. ReportsFit'
    <3> SUFFICES ASSUME NEW q \in Requests
                 PROVE  ReportFits(reqs'[q], q, run.verdict, writer, dirs', rows)
      BY <2>1 DEF ReportsFit
    <3>1. ReportFits(reqs[q], q, run.verdict, writer, dirs, rows)
      BY <2>3
    <3>2. CASE q = r
      <4>1. ReportFits(old, r, run.verdict, writer, dirs, rows)
        BY <3>1, <3>2 DEF old
      <4> QED
        BY <2>2, <2>4, <2>5, <2>7, <3>2, <4>1 DEF ReportFits, Writing, Rendered, e
    <3>3. CASE q # r
      BY <2>6, <2>7, <3>1, <3>3 DEF ReportFits
    <3> QED
      BY <3>2, <3>3
  <2>10. RowsAsRecorded' /\ R!NewestShowsVerdict'
    <3>1. \A v \in DOMAIN rows : dirs'[v] = dirs[v]
      BY <2>3, <2>7
    <3> QED
      BY <2>1, <3>1 DEF ReportsIInv, RowsAsRecorded, R!NewestShowsVerdict
  <2> QED
    BY <2>8, <2>9, <2>10 DEF ReportsIInv
<1> QED
  BY <1>1, <1>2

\* What is recorded is what the directory holds; a verdict comes with the newest of all.
LEMMA RecordKept ==
  ASSUME ReportsIInv, NEW r \in Requests, R!Record(r)
  PROVE  ReportsIInv'
<1> DEFINE old == reqs[r]
           e == old.ver
           x == [by |-> dirs[e].by, shows |-> dirs[e].shows, raced |-> old.raced]
<1>1. /\ rows' = [v \in DOMAIN rows \cup {e} |-> IF v = e THEN x ELSE rows[v]]
      /\ old.at = "renamed" /\ writer \in {R!None, r} /\ UNCHANGED dirs
  BY Zenon DEF R!Record
<1>2. /\ \A q \in Requests : IsReportRequest(reqs[q])
      /\ \A q \in Requests : ReportFits(reqs[q], q, run.verdict, writer, dirs, rows)
      /\ DOMAIN dirs \subseteq Nat /\ IsFiniteSet(DOMAIN dirs) /\ DOMAIN rows \subseteq DOMAIN dirs
      /\ run = RunRow(run.status, run.verdict, run.no, run.value)
      /\ reqs = [q \in Requests |-> reqs[q]]
  BY DEF ReportsIInv, ReportsTyped, ReportsFit
<1>3. /\ e \in DOMAIN dirs /\ dirs[e].shows = old.verdict
      /\ old.kind = "verdict" => \A v \in DOMAIN rows : v < e
      /\ old.raced \/ old.kind = "verdict" \/ old.verdict = run.verdict
  BY <1>1, <1>2 DEF ReportFits, Rendered
<1>4. x.by = dirs[e].by /\ x.shows = old.verdict /\ x.raced = old.raced
  BY <1>3
<1> HIDE DEF x
<1>5. /\ DOMAIN rows' = DOMAIN rows \cup {e} /\ rows'[e] = x
      /\ \A v \in DOMAIN rows : v # e => rows'[v] = rows[v]
  BY <1>1
\* Nobody else is writing a verdict.
<1>6. ASSUME NEW q \in Requests, q # r
      PROVE  ~(reqs[q].kind = "verdict" /\ reqs[q].at \in Writing)
  BY <1>1, <1>2, <1>6, ReportsAssumption DEF ReportFits
<1>7. RowsAsRecorded'
  BY <1>1, <1>3, <1>4, <1>5 DEF ReportsIInv, RowsAsRecorded
<1>8. CASE old.kind = "verdict"
  <2>1. /\ run' = [run EXCEPT !.status = "completed", !.verdict = old.verdict]
        /\ reqs' = [q \in Requests |->
             IF q = r THEN R!Idle
             ELSE IF reqs[q].at \notin {"idle", "loading"}
               THEN [reqs[q] EXCEPT !.raced = TRUE] ELSE reqs[q]]
    BY <1>8, Zenon DEF R!Record
  <2>2. /\ run' = RunRow(run'.status, run'.verdict, run'.no, run'.value)
        /\ run'.verdict = old.verdict
    <3> DEFINE mark == "completed"  d == old.verdict
    <3>1. run' = Judged(run, mark, d)
      BY <2>1, Zenon DEF Judged
    <3> HIDE DEF mark, d
    <3>2. LET y == Judged(run, mark, d)
          IN  y = RunRow(y.status, y.verdict, y.no, y.value) /\ y.verdict = d
      BY <1>2, RunJudged
    <3> QED
      BY <3>1, <3>2 DEF d
  <2>3. reqs'[r] = R!Idle
    BY <2>1
  <2>4. ASSUME NEW q \in Requests, q # r
        PROVE  /\ IsReportRequest(reqs'[q]) /\ reqs'[q].kind = reqs[q].kind
               /\ reqs'[q].at = reqs[q].at /\ reqs'[q].verdict = reqs[q].verdict
               /\ reqs'[q].ver = reqs[q].ver /\ reqs'[q].shows = reqs[q].shows
               /\ reqs'[q].late = reqs[q].late
               /\ reqs[q].at \notin {"idle", "loading"} => reqs'[q].raced
    <3> DEFINE yes == TRUE  z == reqs[q]  y == [z EXCEPT !.raced = yes]
    <3>1. /\ IsReportRequest(y) /\ y.kind = z.kind /\ y.at = z.at /\ y.verdict = z.verdict
          /\ y.ver = z.ver /\ y.shows = z.shows /\ y.late = z.late /\ y.raced = yes
      <4> HIDE DEF yes
      <4> QED
        BY <1>2, RacedIs
    <3>2. reqs'[q] = IF z.at \notin {"idle", "loading"} THEN y ELSE z
      BY <2>1, <2>4
    <3> HIDE DEF y
    <3> QED
      BY <1>2, <3>1, <3>2
  <2> HIDE DEF old, e
  <2>5. ReportsTyped'
    <3>1. reqs' = [q \in Requests |-> reqs'[q]]
      BY <2>1
    <3>2. \A q \in Requests : IsReportRequest(reqs'[q])
      BY <2>3, <2>4, IdleIs
    <3>3. DOMAIN rows' \subseteq DOMAIN dirs
      BY <1>2, <1>3, <1>5
    <3> QED
      BY <1>1, <1>2, <2>2, <3>1, <3>2, <3>3 DEF ReportsTyped
  <2>6. ReportsFit'
    <3> SUFFICES ASSUME NEW q \in Requests
                 PROVE  ReportFits(reqs'[q], q, run'.verdict, writer', dirs, rows')
      BY <1>1 DEF ReportsFit
    <3>1. CASE q = r
      BY <2>3, <3>1, IdleIs DEF ReportFits, Writing, Rendered
    <3>2. CASE q # r
      <4>1. ReportFits(reqs[q], q, run.verdict, writer, dirs, rows)
        BY <1>2
      <4>2. ~(reqs[q].kind = "verdict" /\ reqs[q].at \in Writing)
        BY <1>6, <3>2
      <4> QED
        BY <2>4, <3>2, <4>1, <4>2 DEF ReportFits, Writing, Rendered
    <3> QED
      BY <3>1, <3>2
  <2>7. R!NewestShowsVerdict'
    <3>1. \A v \in DOMAIN rows' : v \in Nat /\ v <= e
      BY <1>2, <1>3, <1>5, <1>8
    <3>2. R!Max(DOMAIN rows') = e
      BY <1>5, <3>1, MaxIs
    <3> QED
      BY <1>4, <1>5, <2>2, <3>2 DEF R!NewestShowsVerdict
  <2> QED
    BY <1>7, <2>5, <2>6, <2>7 DEF ReportsIInv
<1>9. CASE old.kind # "verdict"
  <2>1. run' = run /\ reqs' = [reqs EXCEPT ![r] = R!Idle]
    BY <1>9 DEF R!Record, R!Goes
  <2> HIDE DEF old, e
  <2>2. /\ reqs' = [q \in Requests |-> reqs'[q]] /\ reqs'[r] = R!Idle
        /\ \A q \in Requests : q # r => reqs'[q] = reqs[q]
    BY <1>2, <2>1
  <2>3. ReportsTyped'
    <3>1. \A q \in Requests : IsReportRequest(reqs'[q])
      BY <1>2, <2>2, IdleIs
    <3>2. DOMAIN rows' \subseteq DOMAIN dirs
      BY <1>2, <1>3, <1>5
    <3> QED
      BY <1>1, <1>2, <2>1, <2>2, <3>1, <3>2 DEF ReportsTyped
  <2>4. ReportsFit'
    <3> SUFFICES ASSUME NEW q \in Requests
                 PROVE  ReportFits(reqs'[q], q, run.verdict, writer', dirs, rows')
      BY <1>1, <2>1 DEF ReportsFit
    <3>1. CASE q = r
      BY <2>2, <3>1, IdleIs DEF ReportFits, Writing, Rendered
    <3>2. CASE q # r
      <4>1. ReportFits(reqs[q], q, run.verdict, writer, dirs, rows)
        BY <1>2
      <4>2. ~(reqs[q].kind = "verdict" /\ reqs[q].at \in Writing)
        BY <1>6, <3>2
      <4> QED
        BY <2>2, <3>2, <4>1, <4>2 DEF ReportFits, Writing, Rendered
    <3> QED
      BY <3>1, <3>2
  <2>5. R!NewestShowsVerdict'
    <3> DEFINE T == DOMAIN rows'  m == R!Max(T)
    <3>1. T \subseteq Nat /\ T # {} /\ IsFiniteSet(T)
      BY <1>2, <1>3, <1>5, FS_Subset
    <3>2. m \in T /\ \A v \in T : v <= m
      BY <3>1, MaxHolds
    <3>3. rows'[m].shows = run.verdict \/ rows'[m].raced
      <4> HIDE DEF m
      <4>1. CASE m = e
        BY <1>3, <1>4, <1>5, <1>9, <4>1
      <4>2. CASE m # e
        <5>1. m \in DOMAIN rows /\ \A v \in DOMAIN rows : v <= m
          BY <1>5, <3>2, <4>2
        <5>2. DOMAIN rows \subseteq Nat /\ rows'[m] = rows[m]
          BY <1>2, <1>5, <4>2, <5>1
        <5>3. R!Max(DOMAIN rows) = m
          BY <5>1, <5>2, MaxIs
        <5> QED
          BY <5>1, <5>2, <5>3 DEF ReportsIInv, R!NewestShowsVerdict
      <4> QED
        BY <4>1, <4>2
    <3> QED
      BY <2>1, <3>3 DEF R!NewestShowsVerdict
  <2> QED
    BY <1>7, <2>3, <2>4, <2>5 DEF ReportsIInv
<1> QED
  BY <1>8, <1>9

LEMMA ReportsKept == ReportsIInv /\ [R!Next]_reportVars => ReportsIInv'
<1> SUFFICES ASSUME ReportsIInv, [R!Next]_reportVars PROVE ReportsIInv'
  OBVIOUS
<1>1. run = RunRow(run.status, run.verdict, run.no, run.value)
  BY DEF ReportsIInv, ReportsTyped
<1>2. CASE UNCHANGED <<run, rows, dirs, writer, reqs>>
  BY <1>1, <1>2, RunGoesOn
<1>3. ASSUME NEW measured \in Measured, R!Analyze(measured)
      PROVE  ReportsIInv'
  BY <1>3, AnalyzeKept
<1>4. CASE R!AwaitReview \/ R!Crash
  BY <1>4, AwaitReviewKept, ReportsCrashKept
<1>5. CASE R!DropComparison
  BY <1>2, <1>5 DEF R!DropComparison
<1>6. ASSUME NEW r \in Requests, R!Step(r)
      PROVE  ReportsIInv'
  <2>1. CASE \E kind \in {"verdict", "manual", "node", "compare"} : R!Receive(r, kind)
    BY <2>1, ReceiveKept
  <2>2. CASE R!Load(r) \/ R!GiveVerdict(r) \/ R!Render(r)
    BY <2>2, LoadKept, GiveVerdictKept, RenderKept
  <2>3. CASE R!Publish(r) \/ R!Record(r)
    BY <2>3, PublishKept, RecordKept
  <2>4. CASE R!Compare(r) \/ R!Fails(r)
    BY <2>4, ReportEnds DEF R!Compare, R!Fails
  <2> QED
    BY <1>6, <2>1, <2>2, <2>3, <2>4 DEF R!Step
<1> QED
  BY <1>2, <1>3, <1>4, <1>5, <1>6 DEF R!Next, reportVars

\* What is compared is saved with what it gives.
LEMMA ComparisonKept == ComparisonJudged /\ [R!Next]_reportVars => ComparisonJudged'
<1> SUFFICES ASSUME ComparisonJudged, [R!Next]_reportVars PROVE ComparisonJudged'
  OBVIOUS
<1>1. CASE UNCHANGED comparison
  BY <1>1 DEF ComparisonJudged
<1>2. CASE comparison' = R!NoComparison
  BY <1>2 DEF ComparisonJudged
<1>3. ASSUME NEW r \in Requests, comparison' = R!Saved(reqs[r])
      PROVE  ComparisonJudged'
  <2> DEFINE q == reqs[r]  judged == R!ComparisonRows(q.value, BaselineRun.metrics)
             fits == R!Compatible(judged)
  <2>1. comparison' = [no |-> q.no, value |-> q.value, judged |-> judged, compatible |-> fits]
    BY <1>3, Zenon DEF R!Saved
  <2> HIDE DEF fits, q
  <2>2. comparison'.value = q.value
    BY <2>1
  <2>3. comparison'.judged = R!ComparisonRows(q.value, BaselineRun.metrics)
    <3> HIDE DEF judged
    <3>1. comparison'.judged = judged
      BY <2>1
    <3> QED
      BY <3>1, Zenon DEF judged
  <2>4. comparison'.compatible = R!Compatible(comparison'.judged)
    <3> HIDE DEF judged
    <3>1. comparison'.judged = judged /\ comparison'.compatible = fits
      BY <2>1
    <3> QED
      BY <3>1, Zenon DEF fits
  <2> QED
    BY <2>2, <2>3, <2>4 DEF ComparisonJudged
<1>4. \/ UNCHANGED comparison \/ comparison' = R!NoComparison
      \/ \E r \in Requests : comparison' = R!Saved(reqs[r])
  <2>1. CASE UNCHANGED reportVars
    BY <2>1 DEF reportVars
  <2>2. CASE \E measured \in Measured : R!Analyze(measured)
    BY <2>2 DEF R!Analyze
  <2>3. CASE R!AwaitReview \/ R!DropComparison \/ R!Crash
    BY <2>3 DEF R!AwaitReview, R!DropComparison, R!Crash
  <2>4. ASSUME NEW r \in Requests, R!Step(r)
        PROVE  UNCHANGED comparison \/ comparison' = R!Saved(reqs[r])
    BY <2>4 DEF R!Step, R!Receive, R!Load, R!Compare, R!GiveVerdict, R!Render, R!Publish,
                R!Record, R!Fails
  <2> QED
    BY <2>1, <2>2, <2>3, <2>4 DEF R!Next
<1> QED
  BY <1>1, <1>2, <1>3, <1>4

\* A comparable metric is one that both runs measured, in the same way.
LEMMA AssessmentIs ==
  ASSUME NEW target, NEW basis, NEW key, NEW judged, judged = R!ComparisonRows(target, basis),
         key \in DOMAIN judged
  PROVE  /\ judged[key] \in {"stable", "improved", "regressed"}
              => key \in DOMAIN target \cap DOMAIN basis
         /\ key \in DOMAIN target \cap DOMAIN basis /\ judged[key] # "incompatible"
              => target[key].setup = basis[key].setup
<1>1. judged[key] = R!Assessment(target, basis, key)
  BY DEF R!ComparisonRows
<1>2. CASE key \notin DOMAIN target
  BY <1>1, <1>2 DEF R!Assessment
<1>3. CASE key \in DOMAIN target /\ key \notin DOMAIN basis
  BY <1>1, <1>3 DEF R!Assessment
<1>4. CASE key \in DOMAIN target /\ key \in DOMAIN basis
  BY <1>1, <1>4 DEF R!Assessment, R!SameSetup
<1> QED
  BY <1>2, <1>3, <1>4

LEMMA FreshIsTrue == ComparisonJudged => R!FreshComparisonIsTrue
<1> DEFINE basis == BaselineRun.metrics
           judged == comparison.judged
           shared == DOMAIN run.value \cap DOMAIN basis
<1>1. SUFFICES ASSUME ComparisonJudged, comparison # R!NoComparison, ~R!Outdated
               PROVE  /\ comparison.no = run.no
                      /\ judged = R!ComparisonRows(run.value, basis)
                      /\ comparison.compatible =>
                           /\ shared # {}
                           /\ \A key \in shared : run.value[key].setup = basis[key].setup
  BY Zenon DEF R!FreshComparisonIsTrue
<1>2. comparison.no = run.no /\ comparison.value = run.value
  BY <1>1 DEF R!Outdated, R!Checksum
<1>3. judged = R!ComparisonRows(run.value, basis)
  BY <1>1, <1>2 DEF ComparisonJudged
<1>4. comparison.compatible =>
        /\ \E key \in DOMAIN judged : judged[key] \in {"stable", "improved", "regressed"}
        /\ \A key \in DOMAIN judged : judged[key] # "incompatible"
  BY <1>1, Zenon DEF ComparisonJudged, R!Compatible
<1> HIDE DEF basis, judged
<1>5. DOMAIN judged = DOMAIN run.value \cup DOMAIN basis
  BY <1>3 DEF R!ComparisonRows
<1>6. ASSUME comparison.compatible
      PROVE  shared # {} /\ \A key \in shared : run.value[key].setup = basis[key].setup
  <2>1. shared # {}
    BY <1>3, <1>4, <1>6, AssessmentIs
  <2>2. ASSUME NEW key \in shared
        PROVE  run.value[key].setup = basis[key].setup
    BY <1>3, <1>4, <1>5, <1>6, <2>2, AssessmentIs
  <2> QED
    BY <2>1, <2>2
<1> QED
  BY <1>2, <1>3, <1>6

\* The newest report shows the verdict in force, whatever failed or crashed between two
\* verdicts, unless its request had loaded before a verdict was stored (reports.generate_reports
\* and submit_verdict, whose rows are committed with the report's).
THEOREM NewestShows == ServicesSpec => []NewestShowsVerdict
<1>1. ServicesInit => ReportsIInv
  BY ReportsStart DEF ServicesInit
<1>2. ReportsIInv /\ [ServicesNext]_servicesVars => ReportsIInv'
  <2> SUFFICES ASSUME ReportsIInv, [ServicesNext]_servicesVars
               PROVE  ReportsIInv'
    OBVIOUS
  <2>1. [R!Next]_reportVars
    BY DEF ServicesNext, RunLog, RunIndex, RunWorkflow, RunChat, RunCases, RunReports, RunUpdates,
           servicesVars
  <2> QED
    BY <2>1, ReportsKept
<1>3. ReportsIInv => NewestShowsVerdict
  BY DEF ReportsIInv, NewestShowsVerdict
<1> QED
  BY <1>1, <1>2, <1>3, PTL DEF ServicesSpec

\* A recorded report keeps the files it was recorded with, and a generation finds its place
\* free unless somebody published after it chose its number (_next_report_version).
THEOREM VersionsKept == ServicesSpec => []VersionsAreNotReused
<1>1. ServicesInit => ReportsIInv
  BY ReportsStart DEF ServicesInit
<1>2. ReportsIInv /\ [ServicesNext]_servicesVars => ReportsIInv'
  <2> SUFFICES ASSUME ReportsIInv, [ServicesNext]_servicesVars
               PROVE  ReportsIInv'
    OBVIOUS
  <2>1. [R!Next]_reportVars
    BY DEF ServicesNext, RunLog, RunIndex, RunWorkflow, RunChat, RunCases, RunReports, RunUpdates,
           servicesVars
  <2> QED
    BY <2>1, ReportsKept
<1>3. ReportsIInv => VersionsAreNotReused
  BY DEF ReportsIInv, RowsAsRecorded, ReportsFit, ReportFits, VersionsAreNotReused,
         R!VersionsAreNotReused
<1> QED
  BY <1>1, <1>2, <1>3, PTL DEF ServicesSpec

\* A comparison that is not shown as outdated judges the run's own metrics of the analysis it
\* names, and calls compatible only what was measured alike (run_comparisons.metric_snapshot,
\* whose checksum names the analysis, and comparison_payload).
THEOREM ComparisonTrue == ServicesSpec => []FreshComparisonIsTrue
<1>1. ServicesInit => ComparisonJudged
  BY ReportsStart DEF ServicesInit
<1>2. ComparisonJudged /\ [ServicesNext]_servicesVars => ComparisonJudged'
  <2> SUFFICES ASSUME ComparisonJudged, [ServicesNext]_servicesVars
               PROVE  ComparisonJudged'
    OBVIOUS
  <2>1. [R!Next]_reportVars
    BY DEF ServicesNext, RunLog, RunIndex, RunWorkflow, RunChat, RunCases, RunReports, RunUpdates,
           servicesVars
  <2> QED
    BY <2>1, ComparisonKept
<1>3. ComparisonJudged => FreshComparisonIsTrue
  BY FreshIsTrue DEF FreshComparisonIsTrue
<1> QED
  BY <1>1, <1>2, <1>3, PTL DEF ServicesSpec

-----------------------------------------------------------------------------
(* The index of a knowledge base: as long as no two threads have worked at *)
(* once, a thread's task keeps the base as the thread has read it, but for *)
(* documents whose upload was under way.                                   *)

BaseOf(s, c, r) == [status |-> s, conf |-> c, repos |-> r]
IndexTask(s, a, l, c, y) ==
  [status |-> s, attempts |-> a, lapsed |-> l, cancel |-> c, sync |-> y]
IsIndexTask(x) == x = IndexTask(x.status, x.attempts, x.lapsed, x.cancel, x.sync)
IndexerOf(t, n, a, c, r, d, b, f) ==
  [task |-> t, no |-> n, at |-> a, conf |-> c, repos |-> r, docs |-> d, built |-> b,
   failed |-> f]
IsIndexer(th) ==
  th = IndexerOf(th.task, th.no, th.at, th.conf, th.repos, th.docs, th.built, th.failed)
TasksFit(q) ==
  /\ q \in Seq({q[t] : t \in DOMAIN q})
  /\ \A t \in DOMAIN q : IsIndexTask(q[t])

IsBase(b) == b = BaseOf(b.status, b.conf, b.repos)

IndexTyped ==
  /\ IsBase(base)
  /\ docs = [d \in Docs |-> docs[d]]
  /\ TasksFit(tasks)
  /\ \A th \in threads : IsIndexer(th) /\ th.task \in DOMAIN tasks
  /\ together \in BOOLEAN

\* An upload has its file and no row yet, a live row has its file.
UploadsFit ==
  /\ uploading \subseteq docFiles \cap Docs /\ \A d \in uploading : docs[d] = "none"
  /\ \A d \in Docs : docs[d] = "live" => d \in docFiles

\* One task is active at a time, and that of a stale base synchronises.
OneIndexTask ==
  /\ \A t, u \in K!ActiveTasks : t = u
  /\ base.status = "stale" => \A t \in K!ActiveTasks : tasks[t].sync

\* An index lists what it could not read, and holds nothing else than what it lists.
ListsAll(x) == x.docs \subseteq x.chunks \cup x.failed /\ x.chunks \subseteq x.docs
IndexesFit ==
  /\ ListsAll(published)
  /\ \A th \in threads : th.at \in {"ready", "published"} => ListsAll(th.built)

\* What a thread at work knows.
Works(th) ==
  /\ th.at # "ended" => tasks[th.task].status = "running" /\ ~th.failed
  /\ th.at \in {"read", "ready", "published"} =>
       /\ th.conf = base.conf /\ th.repos = base.repos /\ base.status # "succeeded"
       /\ th.docs \subseteq K!Wanted /\ K!Wanted \ missed \subseteq th.docs
  /\ th.at \in {"ready", "published"} =>
       /\ th.built.conf = th.conf /\ th.built.docs = th.docs /\ th.built.targets = base.repos
  /\ th.at = "published" => published = th.built
  /\ th.at = "ended" /\ base.status = "succeeded" =>
       ~th.failed /\ tasks[th.task].status = "running"

\* What a base that is marked succeeded publishes.
Succeeded ==
  base.status = "succeeded" =>
    /\ published.conf = base.conf /\ published.docs \subseteq K!Wanted
    /\ K!Wanted \ missed \subseteq published.chunks \cup published.failed
    /\ threads = {} /\ ~K!Idle => uploading = {}

IndexerAlone ==
  ~together =>
    /\ \A th, o \in threads : th = o
    /\ \A th \in threads : Works(th)
    /\ base.status # "stale" => published.targets = base.repos
    /\ Succeeded
    /\ \A d \in published.chunks : docs[d] # "gone"

IndexIInv == IndexTyped /\ UploadsFit /\ OneIndexTask /\ IndexesFit /\ IndexerAlone


LEMMA BaseMarked ==
  ASSUME NEW b, IsBase(b), NEW s
  PROVE  LET a == [b EXCEPT !.status = s]
         IN  IsBase(a) /\ a.status = s /\ a.conf = b.conf /\ a.repos = b.repos
<1> DEFINE x == b.status  c == b.conf  r == b.repos
<1>1. b = BaseOf(x, c, r)
  BY DEF IsBase
<1> HIDE DEF x, c, r
<1>2. [b EXCEPT !.status = s] = BaseOf(s, c, r)
  BY <1>1 DEF BaseOf
<1>3. /\ IsBase(BaseOf(s, c, r)) /\ BaseOf(s, c, r).status = s
      /\ BaseOf(s, c, r).conf = c /\ BaseOf(s, c, r).repos = r
  BY DEF IsBase, BaseOf
<1> QED
  BY <1>2, <1>3, Zenon DEF c, r

\* The settings, or the sources, change.
Reset(b, c) == [b EXCEPT !.status = "stale", !.conf = c]
Resourced(b, r) == [b EXCEPT !.status = "stale", !.repos = r]
LEMMA ResetIs ==
  ASSUME NEW b, IsBase(b), NEW y
  PROVE  /\ IsBase(Reset(b, y)) /\ Reset(b, y).status = "stale"
         /\ IsBase(Resourced(b, y)) /\ Resourced(b, y).status = "stale"
<1> DEFINE x == b.status  c == b.conf  r == b.repos  mark == "stale"
<1>1. b = BaseOf(x, c, r)
  BY DEF IsBase
<1>2. /\ Reset(b, y) = [b EXCEPT !.status = mark, !.conf = y]
      /\ Resourced(b, y) = [b EXCEPT !.status = mark, !.repos = y]
  BY Zenon DEF Reset, Resourced
<1> HIDE DEF x, c, r, mark
<1>3. [b EXCEPT !.status = mark] = BaseOf(mark, c, r)
  BY <1>1 DEF BaseOf
<1>4. /\ [BaseOf(mark, c, r) EXCEPT !.conf = y] = BaseOf(mark, y, r)
      /\ [BaseOf(mark, c, r) EXCEPT !.repos = y] = BaseOf(mark, c, y)
  BY DEF BaseOf
<1>5. Reset(b, y) = BaseOf(mark, y, r) /\ Resourced(b, y) = BaseOf(mark, c, y)
  BY <1>2, <1>3, <1>4, Zenon
<1>6. \A k, s : IsBase(BaseOf(mark, k, s)) /\ BaseOf(mark, k, s).status = mark
  BY DEF IsBase, BaseOf
<1> QED
  BY <1>5, <1>6, Zenon DEF mark

\* What a rewritten task keeps.
LEMMA IndexTaskIs ==
  ASSUME NEW s, NEW a, NEW l, NEW c, NEW y
  PROVE  LET x == IndexTask(s, a, l, c, y)
         IN  IsIndexTask(x) /\ x.status = s /\ x.sync = y
BY DEF IsIndexTask, IndexTask

LEMMA TaskChanged ==
  ASSUME NEW x, IsIndexTask(x), NEW w
  PROVE  /\ LET z == [x EXCEPT !.status = w]
            IN  IsIndexTask(z) /\ z.sync = x.sync /\ z.status = w
         /\ LET z == [x EXCEPT !.attempts = w]
            IN  IsIndexTask(z) /\ z.sync = x.sync /\ z.status = x.status
         /\ LET z == [x EXCEPT !.lapsed = w]
            IN  IsIndexTask(z) /\ z.sync = x.sync /\ z.status = x.status
         /\ LET z == [x EXCEPT !.cancel = w]
            IN  IsIndexTask(z) /\ z.sync = x.sync /\ z.status = x.status
<1> DEFINE s == x.status  a == x.attempts  l == x.lapsed  c == x.cancel  y == x.sync
<1>1. x = IndexTask(s, a, l, c, y)
  BY DEF IsIndexTask
<1> HIDE DEF s, a, l, c, y
<1>2. /\ [x EXCEPT !.status = w] = IndexTask(w, a, l, c, y)
      /\ [x EXCEPT !.attempts = w] = IndexTask(s, w, l, c, y)
      /\ [x EXCEPT !.lapsed = w] = IndexTask(s, a, w, c, y)
      /\ [x EXCEPT !.cancel = w] = IndexTask(s, a, l, w, y)
  BY <1>1 DEF IndexTask
<1>3. /\ IndexTask(w, a, l, c, y).status = w /\ IndexTask(w, a, l, c, y).sync = y
      /\ IndexTask(s, w, l, c, y).status = s /\ IndexTask(s, w, l, c, y).sync = y
      /\ IndexTask(s, a, w, c, y).status = s /\ IndexTask(s, a, w, c, y).sync = y
      /\ IndexTask(s, a, l, w, y).status = s /\ IndexTask(s, a, l, w, y).sync = y
  BY IndexTaskIs
<1>4. /\ IsIndexTask(IndexTask(w, a, l, c, y)) /\ IsIndexTask(IndexTask(s, w, l, c, y))
      /\ IsIndexTask(IndexTask(s, a, w, c, y)) /\ IsIndexTask(IndexTask(s, a, l, w, y))
  BY IndexTaskIs
<1> QED
  BY <1>2, <1>3, <1>4, Zenon DEF s, y

LEMMA TasksRewritten ==
  ASSUME NEW q, TasksFit(q), NEW f, f = [v \in DOMAIN q |-> f[v]],
         \A v \in DOMAIN q : IsIndexTask(f[v])
  PROVE  TasksFit(f) /\ DOMAIN f = DOMAIN q
<1> DEFINE ALL == {f[v] : v \in DOMAIN f}
<1>1. Len(q) \in Nat /\ DOMAIN q = 1..Len(q) /\ DOMAIN f = DOMAIN q
  <2>1. q \in Seq({q[v] : v \in DOMAIN q})
    BY DEF TasksFit
  <2>2. DOMAIN f = DOMAIN q
    OBVIOUS
  <2> QED
    BY <2>1, <2>2
<1>2. \A v \in 1..Len(q) : f[v] \in ALL
  BY <1>1
<1> HIDE DEF ALL
<1>3. [v \in 1..Len(q) |-> f[v]] \in Seq(ALL)
  BY <1>1, <1>2, IsASeq
<1>4. f \in Seq(ALL)
  BY <1>1, <1>3
<1> QED
  BY <1>1, <1>4 DEF TasksFit, ALL

\* One task is rewritten and stays the same kind of task.
Rewrites(q, z, t) ==
  /\ TasksFit(z) /\ DOMAIN z = DOMAIN q /\ z[t].sync = q[t].sync
  /\ \A u \in DOMAIN q : u # t => z[u] = q[u]

LEMMA RewritesOn ==
  ASSUME NEW q, NEW x, NEW z, NEW t \in DOMAIN q, Rewrites(q, x, t), Rewrites(x, z, t)
  PROVE  Rewrites(q, z, t)
BY DEF Rewrites

LEMMA TaskRewritten ==
  ASSUME NEW q, TasksFit(q), NEW t \in DOMAIN q, NEW x, IsIndexTask(x), x.sync = q[t].sync
  PROVE  LET z == [q EXCEPT ![t] = x] IN Rewrites(q, z, t) /\ z[t] = x
<1> DEFINE z == [q EXCEPT ![t] = x]
<1>1. z = [v \in DOMAIN q |-> IF v = t THEN x ELSE q[v]]
  OBVIOUS
<1> HIDE DEF z
<1>2. /\ z = [v \in DOMAIN q |-> z[v]] /\ z[t] = x
      /\ \A v \in DOMAIN q : v # t => z[v] = q[v]
  BY <1>1
<1>3. \A v \in DOMAIN q : IsIndexTask(z[v])
  BY <1>2 DEF TasksFit
<1>4. TasksFit(z) /\ DOMAIN z = DOMAIN q
  BY <1>2, <1>3, TasksRewritten
<1> QED
  BY <1>2, <1>4 DEF Rewrites, z

LEMMA TaskField ==
  ASSUME NEW q, TasksFit(q), NEW t \in DOMAIN q, NEW w
  PROVE  /\ LET z == [q EXCEPT ![t].status = w] IN Rewrites(q, z, t) /\ z[t].status = w
         /\ LET z == [q EXCEPT ![t].attempts = w]
            IN  Rewrites(q, z, t) /\ z[t].status = q[t].status
         /\ LET z == [q EXCEPT ![t].lapsed = w]
            IN  Rewrites(q, z, t) /\ z[t].status = q[t].status
         /\ LET z == [q EXCEPT ![t].cancel = w]
            IN  Rewrites(q, z, t) /\ z[t].status = q[t].status
<1> DEFINE x == q[t]
           a == [x EXCEPT !.status = w]  b == [x EXCEPT !.attempts = w]
           c == [x EXCEPT !.lapsed = w]  d == [x EXCEPT !.cancel = w]
<1>1. IsIndexTask(x)
  BY DEF TasksFit
<1>2. /\ IsIndexTask(a) /\ a.sync = x.sync /\ a.status = w
      /\ IsIndexTask(b) /\ b.sync = x.sync /\ b.status = x.status
      /\ IsIndexTask(c) /\ c.sync = x.sync /\ c.status = x.status
      /\ IsIndexTask(d) /\ d.sync = x.sync /\ d.status = x.status
  BY <1>1, TaskChanged
<1>3. /\ [q EXCEPT ![t].status = w] = [q EXCEPT ![t] = a]
      /\ [q EXCEPT ![t].attempts = w] = [q EXCEPT ![t] = b]
      /\ [q EXCEPT ![t].lapsed = w] = [q EXCEPT ![t] = c]
      /\ [q EXCEPT ![t].cancel = w] = [q EXCEPT ![t] = d]
  OBVIOUS
<1> HIDE DEF a, b, c, d
<1>4. /\ Rewrites(q, [q EXCEPT ![t] = a], t) /\ [q EXCEPT ![t] = a][t] = a
      /\ Rewrites(q, [q EXCEPT ![t] = b], t) /\ [q EXCEPT ![t] = b][t] = b
      /\ Rewrites(q, [q EXCEPT ![t] = c], t) /\ [q EXCEPT ![t] = c][t] = c
      /\ Rewrites(q, [q EXCEPT ![t] = d], t) /\ [q EXCEPT ![t] = d][t] = d
  BY <1>2, TaskRewritten
<1> HIDE DEF x
<1> QED
  BY <1>2, <1>3, <1>4, Zenon DEF x

LEMMA TaskStatus ==
  ASSUME NEW q, TasksFit(q), NEW t \in DOMAIN q, NEW w
  PROVE  LET z == [q EXCEPT ![t].status = w]
         IN  Rewrites(q, z, t) /\ z[t].status = w
BY TaskField

LEMMA TaskAttempts ==
  ASSUME NEW q, TasksFit(q), NEW t \in DOMAIN q, NEW w
  PROVE  LET z == [q EXCEPT ![t].attempts = w]
         IN  Rewrites(q, z, t) /\ z[t].status = q[t].status
BY TaskField

LEMMA TaskLapsed ==
  ASSUME NEW q, TasksFit(q), NEW t \in DOMAIN q, NEW w
  PROVE  LET z == [q EXCEPT ![t].lapsed = w]
         IN  Rewrites(q, z, t) /\ z[t].status = q[t].status
BY TaskField

LEMMA TaskCancel ==
  ASSUME NEW q, TasksFit(q), NEW t \in DOMAIN q, NEW w
  PROVE  LET z == [q EXCEPT ![t].cancel = w]
         IN  Rewrites(q, z, t) /\ z[t].status = q[t].status
BY TaskField

\* The tasks as the handlers write them.
Claimed(q, t) == [q EXCEPT ![t].status = "running", ![t].attempts = @ + 1, ![t].lapsed = FALSE]
LEMMA ClaimedIs ==
  ASSUME NEW q, TasksFit(q), NEW t \in DOMAIN q
  PROVE  Rewrites(q, Claimed(q, t), t) /\ Claimed(q, t)[t].status = "running"
<1> DEFINE mark == "running"  no == FALSE  n == q[t].attempts + 1
           x == [q EXCEPT ![t].status = mark]  y == [x EXCEPT ![t].attempts = n]
           z == [y EXCEPT ![t].lapsed = no]
<1>1. Claimed(q, t) = z
  BY DEF Claimed
<1> HIDE DEF mark, no, n
<1>2. Rewrites(q, x, t) /\ x[t].status = mark
  BY TaskStatus
<1>3. TasksFit(x) /\ t \in DOMAIN x
  BY <1>2 DEF Rewrites
<1> HIDE DEF x
<1>4. Rewrites(x, y, t) /\ y[t].status = mark
  BY <1>2, <1>3, TaskAttempts
<1>5. TasksFit(y) /\ t \in DOMAIN y
  BY <1>3, <1>4 DEF Rewrites
<1> HIDE DEF y
<1>6. Rewrites(y, z, t) /\ z[t].status = mark
  BY <1>4, <1>5, TaskLapsed
<1> HIDE DEF z
<1>7. Rewrites(q, y, t)
  BY <1>2, <1>4, RewritesOn
<1>8. Rewrites(q, z, t)
  BY <1>6, <1>7, RewritesOn
<1> QED
  BY <1>1, <1>6, <1>8, Zenon DEF mark

Cancelled(q, t) ==
  [q EXCEPT ![t].cancel = TRUE, ![t].status = IF @ = "queued" THEN "cancelled" ELSE @]
LEMMA CancelledIs ==
  ASSUME NEW q, TasksFit(q), NEW t \in DOMAIN q
  PROVE  /\ Rewrites(q, Cancelled(q, t), t)
         /\ Cancelled(q, t)[t].status
              = IF q[t].status = "queued" THEN "cancelled" ELSE q[t].status
<1> DEFINE yes == TRUE
           mark == IF q[t].status = "queued" THEN "cancelled" ELSE q[t].status
           x == [q EXCEPT ![t].cancel = yes]  z == [x EXCEPT ![t].status = mark]
<1>1. Cancelled(q, t) = z
  BY DEF Cancelled
<1> HIDE DEF mark, yes
<1>2. Rewrites(q, x, t) /\ x[t].status = q[t].status
  BY TaskCancel
<1>3. TasksFit(x) /\ t \in DOMAIN x
  BY <1>2 DEF Rewrites
<1> HIDE DEF x
<1>4. Rewrites(x, z, t) /\ z[t].status = mark
  BY <1>2, <1>3, TaskStatus
<1> HIDE DEF z
<1>5. Rewrites(q, z, t)
  BY <1>2, <1>4, RewritesOn
<1> QED
  BY <1>1, <1>4, <1>5, Zenon DEF mark

SettledAs(q, t, s) == [q EXCEPT ![t].status = s, ![t].lapsed = FALSE]
LEMMA SettledAsIs ==
  ASSUME NEW q, TasksFit(q), NEW t \in DOMAIN q, NEW s
  PROVE  Rewrites(q, SettledAs(q, t, s), t) /\ SettledAs(q, t, s)[t].status = s
<1> DEFINE no == FALSE
           x == [q EXCEPT ![t].status = s]  z == [x EXCEPT ![t].lapsed = no]
<1>1. SettledAs(q, t, s) = z
  BY DEF SettledAs
<1> HIDE DEF no
<1>2. Rewrites(q, x, t) /\ x[t].status = s
  BY TaskStatus
<1>3. TasksFit(x) /\ t \in DOMAIN x
  BY <1>2 DEF Rewrites
<1> HIDE DEF x
<1>4. Rewrites(x, z, t) /\ z[t].status = s
  BY <1>2, <1>3, TaskLapsed
<1> HIDE DEF z
<1>5. Rewrites(q, z, t)
  BY <1>2, <1>4, RewritesOn
<1> QED
  BY <1>1, <1>4, <1>5, Zenon

LEMMA LapsedChanged ==
  ASSUME NEW x, IsIndexTask(x), NEW w
  PROVE  /\ IsIndexTask([x EXCEPT !.lapsed = w]) /\ [x EXCEPT !.lapsed = w].sync = x.sync
         /\ [x EXCEPT !.lapsed = w].status = x.status
BY TaskChanged

\* What a crash makes of a task whose lease had run out.
Requeued(x) == [x EXCEPT !.status = "queued", !.lapsed = FALSE]
LEMMA RequeuedIs ==
  ASSUME NEW x, IsIndexTask(x)
  PROVE  /\ IsIndexTask(Requeued(x)) /\ Requeued(x).sync = x.sync
         /\ Requeued(x).status = "queued"
<1> DEFINE mark == "queued"  no == FALSE
           y == [x EXCEPT !.status = mark]  z == [y EXCEPT !.lapsed = no]
<1>1. Requeued(x) = z
  BY DEF Requeued
<1> HIDE DEF mark, no
<1>2. IsIndexTask(y) /\ y.sync = x.sync /\ y.status = mark
  BY TaskChanged
<1> HIDE DEF y
<1>3. IsIndexTask(z) /\ z.sync = y.sync /\ z.status = y.status
  BY <1>2, TaskChanged
<1> HIDE DEF z
<1> QED
  BY <1>1, <1>2, <1>3, Zenon DEF mark

LEMMA TaskQueued ==
  ASSUME NEW q, TasksFit(q), NEW x, IsIndexTask(x)
  PROVE  LET z == Append(q, x)
         IN  /\ TasksFit(z) /\ DOMAIN z = DOMAIN q \cup {Len(q) + 1}
             /\ Len(q) + 1 \notin DOMAIN q
             /\ z[Len(q) + 1] = x /\ \A v \in DOMAIN q : z[v] = q[v]
<1> DEFINE T == {q[v] : v \in DOMAIN q} \cup {x}
           z == Append(q, x)
<1>1. q \in Seq({q[v] : v \in DOMAIN q})
  BY DEF TasksFit
<1>2. q \in Seq(T)
  <2> DEFINE ALL == {q[v] : v \in DOMAIN q}
  <2>1. q \in Seq(ALL) /\ ALL \subseteq T
    BY <1>1
  <2> HIDE DEF ALL, T
  <2> QED
    BY <2>1, SeqMonotonic
<1>3. x \in T
  OBVIOUS
<1> HIDE DEF T
<1>4. /\ z \in Seq(T) /\ Len(q) \in Nat /\ DOMAIN q = 1..Len(q) /\ Len(z) = Len(q) + 1
      /\ DOMAIN z = 1..Len(z) /\ z[Len(q) + 1] = x /\ \A v \in 1..Len(q) : z[v] = q[v]
  BY <1>2, <1>3
<1>5. /\ DOMAIN z = DOMAIN q \cup {Len(q) + 1} /\ Len(q) + 1 \notin DOMAIN q
      /\ \A v \in DOMAIN q : z[v] = q[v]
  BY <1>4
<1> HIDE DEF z
<1>6. z \in Seq({z[v] : v \in DOMAIN z})
  <2>1. z = [v \in 1..Len(z) |-> z[v]]
    BY <1>4
  <2> DEFINE ALL == {z[v] : v \in DOMAIN z}
  <2>2. \A v \in 1..Len(z) : z[v] \in ALL
    BY <1>4
  <2>3. Len(z) \in Nat
    BY <1>4
  <2> HIDE DEF ALL
  <2>4. [v \in 1..Len(z) |-> z[v]] \in Seq(ALL)
    BY <2>2, <2>3, IsASeq
  <2> QED
    BY <2>1, <2>4 DEF ALL
<1>7. \A v \in DOMAIN z : IsIndexTask(z[v])
  BY <1>4, <1>5 DEF TasksFit
<1> QED
  BY <1>4, <1>5, <1>6, <1>7 DEF TasksFit, z

\* A thread's record as it goes on.
LEMMA IndexerIs ==
  ASSUME NEW t, NEW n, NEW a, NEW c, NEW r, NEW d, NEW b, NEW f
  PROVE  LET th == IndexerOf(t, n, a, c, r, d, b, f)
         IN  /\ IsIndexer(th) /\ th.task = t /\ th.at = a /\ th.conf = c /\ th.repos = r
             /\ th.docs = d /\ th.built = b /\ th.failed = f
BY DEF IsIndexer, IndexerOf

LEMMA IndexerAt ==
  ASSUME NEW th, IsIndexer(th), NEW a
  PROVE  [th EXCEPT !.at = a]
           = IndexerOf(th.task, th.no, a, th.conf, th.repos, th.docs, th.built, th.failed)
<1> DEFINE t == th.task  n == th.no  x == th.at  c == th.conf  r == th.repos  d == th.docs
           b == th.built  f == th.failed
<1>1. th = IndexerOf(t, n, x, c, r, d, b, f)
  BY DEF IsIndexer
<1> HIDE DEF t, n, x, c, r, d, b, f
<1>2. [th EXCEPT !.at = a] = IndexerOf(t, n, a, c, r, d, b, f)
  BY <1>1 DEF IndexerOf
<1> QED
  BY <1>2 DEF t, n, c, r, d, b, f

HasRead(th, y, z, w) == [th EXCEPT !.at = "read", !.conf = y, !.repos = z, !.docs = w]
LEMMA HasReadIs ==
  ASSUME NEW th, IsIndexer(th), NEW y, NEW z, NEW w
  PROVE  HasRead(th, y, z, w)
           = IndexerOf(th.task, th.no, "read", y, z, w, th.built, th.failed)
<1> DEFINE t == th.task  n == th.no  x == th.at  c == th.conf  r == th.repos  d == th.docs
           b == th.built  f == th.failed  a == "read"
<1>1. th = IndexerOf(t, n, x, c, r, d, b, f)
  BY DEF IsIndexer
<1>2. HasRead(th, y, z, w) = [th EXCEPT !.at = a, !.conf = y, !.repos = z, !.docs = w]
  BY Zenon DEF HasRead
<1> HIDE DEF t, n, x, c, r, d, b, f, a
<1>3. [th EXCEPT !.at = a] = IndexerOf(t, n, a, c, r, d, b, f)
  BY <1>1 DEF IndexerOf
<1>4. [IndexerOf(t, n, a, c, r, d, b, f) EXCEPT !.conf = y]
        = IndexerOf(t, n, a, y, r, d, b, f)
  BY DEF IndexerOf
<1>5. [IndexerOf(t, n, a, y, r, d, b, f) EXCEPT !.repos = z]
        = IndexerOf(t, n, a, y, z, d, b, f)
  BY DEF IndexerOf
<1>6. [IndexerOf(t, n, a, y, z, d, b, f) EXCEPT !.docs = w]
        = IndexerOf(t, n, a, y, z, w, b, f)
  BY DEF IndexerOf
<1> QED
  BY <1>2, <1>3, <1>4, <1>5, <1>6, Zenon DEF t, n, b, f, a

HasBuilt(th, k) == [th EXCEPT !.at = "ready", !.built = k]
LEMMA HasBuiltIs ==
  ASSUME NEW th, IsIndexer(th), NEW k
  PROVE  HasBuilt(th, k)
           = IndexerOf(th.task, th.no, "ready", th.conf, th.repos, th.docs, k, th.failed)
<1> DEFINE t == th.task  n == th.no  x == th.at  c == th.conf  r == th.repos  d == th.docs
           b == th.built  f == th.failed  a == "ready"
<1>1. th = IndexerOf(t, n, x, c, r, d, b, f)
  BY DEF IsIndexer
<1>2. HasBuilt(th, k) = [th EXCEPT !.at = a, !.built = k]
  BY Zenon DEF HasBuilt
<1> HIDE DEF t, n, x, c, r, d, b, f, a
<1>3. [th EXCEPT !.at = a] = IndexerOf(t, n, a, c, r, d, b, f)
  BY <1>1 DEF IndexerOf
<1>4. [IndexerOf(t, n, a, c, r, d, b, f) EXCEPT !.built = k]
        = IndexerOf(t, n, a, c, r, d, k, f)
  BY DEF IndexerOf
<1> QED
  BY <1>2, <1>3, <1>4, Zenon DEF t, n, c, r, d, f, a

HasRaised(th) == [th EXCEPT !.at = "ended", !.failed = TRUE]
LEMMA HasRaisedIs ==
  ASSUME NEW th, IsIndexer(th)
  PROVE  HasRaised(th)
           = IndexerOf(th.task, th.no, "ended", th.conf, th.repos, th.docs, th.built, TRUE)
<1> DEFINE t == th.task  n == th.no  x == th.at  c == th.conf  r == th.repos  d == th.docs
           b == th.built  f == th.failed  a == "ended"  y == TRUE
<1>1. th = IndexerOf(t, n, x, c, r, d, b, f)
  BY DEF IsIndexer
<1>2. HasRaised(th) = [th EXCEPT !.at = a, !.failed = y]
  BY Zenon DEF HasRaised
<1> HIDE DEF t, n, x, c, r, d, b, f, a, y
<1>3. [th EXCEPT !.at = a] = IndexerOf(t, n, a, c, r, d, b, f)
  BY <1>1 DEF IndexerOf
<1>4. [IndexerOf(t, n, a, c, r, d, b, f) EXCEPT !.failed = y]
        = IndexerOf(t, n, a, c, r, d, b, y)
  BY DEF IndexerOf
<1> QED
  BY <1>2, <1>3, <1>4, Zenon DEF t, n, c, r, d, b, a, y

\* One task of the base is written and stays the kind of task it is: none becomes active.
LEMMA NoneActivated ==
  ASSUME OneIndexTask, DOMAIN tasks' = DOMAIN tasks,
         \A t \in DOMAIN tasks :
           /\ tasks'[t].sync = tasks[t].sync
           /\ tasks'[t].status \in {"queued", "running"} =>
                tasks[t].status \in {"queued", "running"},
         base'.status = "stale" => base.status = "stale"
  PROVE  OneIndexTask' /\ (~K!Idle' => ~K!Idle)
<1>1. \A t \in K!ActiveTasks' : t \in K!ActiveTasks /\ tasks'[t].sync = tasks[t].sync
  BY DEF K!ActiveTasks
<1> QED
  BY <1>1 DEF OneIndexTask, K!Idle

LEMMA IndexStarts == K!Init => IndexIInv
<1> SUFFICES ASSUME K!Init PROVE IndexIInv
  OBVIOUS
<1> USE DEF K!Init, K!NoIndex
<1>1. TasksFit(tasks)
  BY DEF TasksFit
<1>2. IndexTyped
  BY <1>1 DEF IndexTyped, IsBase, BaseOf
<1>3. UploadsFit /\ OneIndexTask
  BY DEF UploadsFit, OneIndexTask, K!ActiveTasks
<1>4. IndexesFit
  BY DEF IndexesFit, ListsAll
<1>5. IndexerAlone
  BY DEF IndexerAlone, Succeeded
<1> QED
  BY <1>2, <1>3, <1>4, <1>5 DEF IndexIInv

\* A step that leaves the rows, the index and the threads alone.
LEMMA IndexStays ==
  ASSUME IndexIInv, UNCHANGED <<docs, published, threads, missed, together>>,
         IsBase(base'), base'.conf = base.conf, base'.repos = base.repos,
         base'.status = "stale" <=> base.status = "stale",
         base'.status = "succeeded" => base.status = "succeeded",
         TasksFit(tasks'), DOMAIN tasks \subseteq DOMAIN tasks',
         \A t \in DOMAIN tasks : tasks[t].status = "running" => tasks'[t].status = "running",
         UploadsFit', OneIndexTask',
         ~together /\ base'.status = "succeeded" /\ threads = {} /\ ~K!Idle' => uploading' = {}
  PROVE  IndexIInv'
<1>1. IndexTyped'
  BY DEF IndexIInv, IndexTyped
<1>2. IndexesFit'
  BY DEF IndexIInv, IndexesFit
<1>3. IndexerAlone'
  <2> SUFFICES ASSUME ~together PROVE IndexerAlone'
    BY DEF IndexerAlone
  <2>1. /\ \A th, o \in threads : th = o
        /\ \A th \in threads : Works(th) /\ th.task \in DOMAIN tasks
        /\ base.status # "stale" => published.targets = base.repos
        /\ Succeeded
        /\ \A d \in published.chunks : docs[d] # "gone"
    BY DEF IndexIInv, IndexerAlone, IndexTyped
  <2>2. K!Wanted' = K!Wanted
    BY DEF K!Wanted
  <2>3. \A th \in threads : Works(th)'
    BY <2>1, <2>2 DEF Works
  <2>4. Succeeded'
    BY <2>1, <2>2 DEF Succeeded
  <2> QED
    BY <2>1, <2>3, <2>4 DEF IndexerAlone
<1> QED
  BY <1>1, <1>2, <1>3 DEF IndexIInv

\* enqueue_index keeps what a stale base asks for, and one task active.
LEMMA Enqueued ==
  ASSUME IndexIInv, NEW s, K!Enqueue(s)
  PROVE  /\ IsBase(base') /\ base'.conf = base.conf /\ base'.repos = base.repos
         /\ base'.status = "stale" <=> base.status = "stale"
         /\ base'.status = "succeeded" => base.status = "succeeded" /\ ~K!Idle
         /\ TasksFit(tasks') /\ DOMAIN tasks \subseteq DOMAIN tasks'
         /\ \A t \in DOMAIN tasks : tasks'[t] = tasks[t]
         /\ OneIndexTask'
<1>1. CASE ~K!Idle
  <2>1. UNCHANGED <<tasks, base>>
    BY <1>1 DEF K!Enqueue
  <2>2. IsBase(base) /\ TasksFit(tasks) /\ OneIndexTask
    BY DEF IndexIInv, IndexTyped
  <2>3. OneIndexTask'
    BY <2>1, <2>2 DEF OneIndexTask, K!ActiveTasks
  <2> QED
    BY <1>1, <2>1, <2>2, <2>3
<1>2. CASE K!Idle
  <2> DEFINE m == IF base.status = "stale" THEN base.status ELSE "queued"
             x == [status |-> "queued", attempts |-> 0, lapsed |-> FALSE,
                   cancel |-> FALSE, sync |-> K!Forced(s)]
  <2>1. tasks' = Append(tasks, x) /\ base' = [base EXCEPT !.status = m]
    BY <1>2 DEF K!Enqueue
  <2>2. IsIndexTask(x) /\ x.sync = K!Forced(s)
    BY DEF IsIndexTask, IndexTask
  <2>3. IsBase(base) /\ TasksFit(tasks)
    BY DEF IndexIInv, IndexTyped
  <2>4. m = "stale" <=> base.status = "stale"
    OBVIOUS
  <2>5. m # "succeeded"
    OBVIOUS
  <2> HIDE DEF m, x
  <2>6. IsBase(base') /\ base'.conf = base.conf /\ base'.repos = base.repos /\ base'.status = m
    BY <2>1, <2>3, BaseMarked
  <2>7. /\ TasksFit(tasks') /\ DOMAIN tasks' = DOMAIN tasks \cup {Len(tasks) + 1}
        /\ tasks'[Len(tasks) + 1] = x /\ \A t \in DOMAIN tasks : tasks'[t] = tasks[t]
    BY <2>1, <2>2, <2>3, TaskQueued
  <2>8. OneIndexTask'
    <3>1. \A t \in K!ActiveTasks' : t = Len(tasks) + 1
      BY <1>2, <2>7 DEF K!Idle, K!ActiveTasks
    <3>2. base.status = "stale" => K!Forced(s)
      BY DEF K!Forced
    <3> QED
      BY <2>2, <2>4, <2>6, <2>7, <3>1, <3>2 DEF OneIndexTask
  <2> QED
    BY <2>4, <2>5, <2>6, <2>7, <2>8
<1> QED
  BY <1>1, <1>2

\* A base whose status is written, unless it is stale.
LEMMA StatusWritten ==
  ASSUME IndexIInv, NEW s, K!Marked(s), s # "stale"
  PROVE  /\ IsBase(base') /\ base'.conf = base.conf /\ base'.repos = base.repos
         /\ base'.status = "stale" <=> base.status = "stale"
         /\ base'.status \in {"stale", s}
<1> DEFINE m == IF base.status = "stale" THEN base.status ELSE s
<1>1. base' = [base EXCEPT !.status = m]
  BY DEF K!Marked
<1>2. m \in {"stale", s} /\ (m = "stale" <=> base.status = "stale")
  OBVIOUS
<1>3. IsBase(base)
  BY DEF IndexIInv, IndexTyped
<1> HIDE DEF m
<1>4. IsBase(base') /\ base'.conf = base.conf /\ base'.repos = base.repos /\ base'.status = m
  BY <1>1, <1>3, BaseMarked
<1> QED
  BY <1>2, <1>4

LEMMA StartIndexKept == ASSUME IndexIInv, K!StartIndex PROVE IndexIInv'
<1>1. /\ K!Idle /\ K!Enqueue(TRUE)
      /\ UNCHANGED <<docs, docFiles, uploading, published, threads, missed, together, stalls>>
  BY DEF K!StartIndex
<1> DEFINE on == TRUE
<1>2. K!Enqueue(on)
  BY <1>1
<1> HIDE DEF on
<1>3. UploadsFit'
  BY <1>1 DEF IndexIInv, UploadsFit
<1>4. /\ IsBase(base') /\ base'.conf = base.conf /\ base'.repos = base.repos
      /\ base'.status = "stale" <=> base.status = "stale"
      /\ base'.status # "succeeded"
      /\ TasksFit(tasks') /\ DOMAIN tasks \subseteq DOMAIN tasks'
      /\ \A t \in DOMAIN tasks : tasks'[t] = tasks[t]
      /\ OneIndexTask'
  BY <1>1, <1>2, Enqueued
<1> QED
  BY <1>1, <1>3, <1>4, IndexStays

\* A step of the uploads that has no task.
LEMMA UploadingKept ==
  ASSUME IndexIInv, NEW d \in Docs, K!UploadBegins(d) \/ K!UploadFails(d)
  PROVE  IndexIInv'
<1>1. UNCHANGED <<base, docs, published, tasks, threads, missed, together>>
  BY DEF K!UploadBegins, K!UploadFails
<1>2. UploadsFit'
  BY DEF IndexIInv, UploadsFit, K!UploadBegins, K!UploadFails
<1>3. OneIndexTask' /\ (K!Idle' <=> K!Idle)
  BY <1>1 DEF IndexIInv, OneIndexTask, K!ActiveTasks, K!Idle
<1>4. ~together /\ base.status = "succeeded" /\ threads = {} /\ ~K!Idle => uploading' = {}
  <2>1. ~K!Idle => uploading' \subseteq uploading
    BY DEF K!UploadBegins, K!UploadFails
  <2>2. ~together /\ base.status = "succeeded" /\ threads = {} /\ ~K!Idle => uploading = {}
    BY DEF IndexIInv, IndexerAlone, Succeeded
  <2> QED
    BY <2>1, <2>2
<1>5. IsBase(base) /\ TasksFit(tasks)
  BY DEF IndexIInv, IndexTyped
<1> QED
  BY <1>1, <1>2, <1>3, <1>4, <1>5, IndexStays

\* A task is written whose thread, if any, goes on, and the base may be marked.
LEMMA TaskMoved ==
  ASSUME IndexIInv, NEW t \in DOMAIN tasks, Rewrites(tasks, tasks', t),
         tasks[t].status = "running" => tasks'[t].status = "running",
         tasks'[t].status \in {"queued", "running"} => tasks[t].status \in {"queued", "running"},
         IsBase(base'), base'.conf = base.conf, base'.repos = base.repos,
         base'.status = "stale" <=> base.status = "stale",
         base'.status = "succeeded" => base.status = "succeeded",
         UNCHANGED <<docs, docFiles, uploading, published, threads, missed, together>>
  PROVE  IndexIInv'
<1>1. /\ TasksFit(tasks') /\ DOMAIN tasks' = DOMAIN tasks
      /\ \A u \in DOMAIN tasks :
           /\ tasks'[u].sync = tasks[u].sync
           /\ tasks'[u].status \in {"queued", "running"} =>
                tasks[u].status \in {"queued", "running"}
           /\ tasks[u].status = "running" => tasks'[u].status = "running"
  BY DEF Rewrites
<1>2. OneIndexTask' /\ (~K!Idle' => ~K!Idle)
  BY <1>1, NoneActivated DEF IndexIInv
<1>3. UploadsFit'
  BY DEF IndexIInv, UploadsFit
<1>4. ~together /\ base'.status = "succeeded" /\ threads = {} /\ ~K!Idle' => uploading' = {}
  BY <1>2 DEF IndexIInv, IndexerAlone, Succeeded
<1> QED
  BY <1>1, <1>2, <1>3, <1>4, IndexStays

LEMMA LapseKept ==
  ASSUME IndexIInv, NEW t \in DOMAIN tasks, K!Lapse(t) \/ K!Renew(t)
  PROVE  IndexIInv'
<1>1. PICK l : tasks' = [tasks EXCEPT ![t].lapsed = l]
  BY DEF K!Lapse, K!Renew
<1>2. UNCHANGED <<base, docs, docFiles, uploading, published, threads, missed, together>>
  BY DEF K!Lapse, K!Renew
<1>3. TasksFit(tasks) /\ IsBase(base)
  BY DEF IndexIInv, IndexTyped
<1>4. Rewrites(tasks, tasks', t) /\ tasks'[t].status = tasks[t].status
  BY <1>1, <1>3, TaskLapsed
<1> QED
  BY <1>2, <1>3, <1>4, TaskMoved

LEMMA CancelIndexKept ==
  ASSUME IndexIInv, NEW t \in DOMAIN tasks, K!CancelIndex(t)
  PROVE  IndexIInv'
<1> DEFINE mark == "cancelled"
<1>1. /\ tasks' = Cancelled(tasks, t)
      /\ base' = base \/ (base.status # "stale" /\ base' = [base EXCEPT !.status = mark])
      /\ UNCHANGED <<docs, docFiles, uploading, published, threads, missed, together>>
  BY DEF K!CancelIndex, Cancelled
<1>2. TasksFit(tasks) /\ IsBase(base) /\ mark \notin {"stale", "succeeded"}
  BY DEF IndexIInv, IndexTyped
<1> HIDE DEF mark
<1>3. /\ Rewrites(tasks, tasks', t)
      /\ tasks'[t].status = IF tasks[t].status = "queued" THEN "cancelled" ELSE tasks[t].status
  BY <1>1, <1>2, CancelledIs
<1>4. /\ IsBase(base') /\ base'.conf = base.conf /\ base'.repos = base.repos
      /\ base'.status = "stale" <=> base.status = "stale"
      /\ base'.status = "succeeded" => base.status = "succeeded"
  <2>1. CASE base' = base
    BY <1>2, <2>1
  <2>2. CASE base.status # "stale" /\ base' = [base EXCEPT !.status = mark]
    <3>1. /\ IsBase(base') /\ base'.conf = base.conf /\ base'.repos = base.repos
          /\ base'.status = mark
      BY <1>2, <2>2, BaseMarked
    <3> QED
      BY <1>2, <2>2, <3>1
  <2> QED
    BY <1>1, <2>1, <2>2
<1> QED
  BY <1>1, <1>3, <1>4, TaskMoved

\* The settings or the sources change while no task is active, so no thread is at work.
LEMMA ConfigureKept == ASSUME IndexIInv, K!Configure \/ K!SaveSource PROVE IndexIInv'
<1> DEFINE c == base.conf + 1  r == base.repos + 1
<1>1. /\ K!Idle
      /\ base' = Reset(base, c) \/ base' = Resourced(base, r)
      /\ UNCHANGED <<docs, docFiles, uploading, published, tasks, threads, missed, together>>
  BY DEF K!Configure, K!SaveSource, Reset, Resourced
<1>2. IsBase(base)
  BY DEF IndexIInv, IndexTyped
<1> HIDE DEF c, r
<1>3. IsBase(base') /\ base'.status = "stale"
  BY <1>1, <1>2, ResetIs
<1>4. IndexTyped'
  BY <1>1, <1>3 DEF IndexIInv, IndexTyped
<1>5. UploadsFit' /\ OneIndexTask' /\ IndexesFit'
  BY <1>1 DEF IndexIInv, UploadsFit, OneIndexTask, IndexesFit, K!Idle, K!ActiveTasks
<1>6. IndexerAlone'
  <2>1. \A th \in threads : th.task \in DOMAIN tasks => tasks[th.task].status # "running"
    BY <1>1 DEF K!Idle, K!ActiveTasks
  <2>2. ~together => \A th \in threads : th.at = "ended" /\ Works(th)'
    BY <1>1, <1>3, <2>1 DEF IndexIInv, IndexTyped, IndexerAlone, Works
  <2>3. ~together => Succeeded'
    BY <1>3 DEF Succeeded
  <2> QED
    BY <1>1, <1>3, <2>2, <2>3 DEF IndexIInv, IndexerAlone
<1> QED
  BY <1>4, <1>5, <1>6 DEF IndexIInv

\* A document joins: the task it joins may have read the rows before.
LEMMA UploadEndsKept ==
  ASSUME IndexIInv, NEW d \in Docs, K!UploadEnds(d)
  PROVE  IndexIInv'
<1> DEFINE live == "live"  off == FALSE
<1>1. /\ d \in uploading /\ uploading' = uploading \ {d} /\ docs' = [docs EXCEPT ![d] = live]
      /\ missed' = (IF threads = {} THEN missed ELSE missed \cup {d})
      /\ K!Enqueue(off) /\ UNCHANGED <<docFiles, published, threads, together>>
  BY DEF K!UploadEnds
<1> HIDE DEF off
<1>2. /\ IsBase(base') /\ base'.conf = base.conf /\ base'.repos = base.repos
      /\ base'.status = "stale" <=> base.status = "stale"
      /\ base'.status = "succeeded" => base.status = "succeeded" /\ ~K!Idle
      /\ TasksFit(tasks') /\ DOMAIN tasks \subseteq DOMAIN tasks'
      /\ \A t \in DOMAIN tasks : tasks'[t] = tasks[t]
      /\ OneIndexTask'
  BY <1>1, Enqueued
<1>3. docs = [x \in Docs |-> docs[x]]
  BY DEF IndexIInv, IndexTyped
<1>4. /\ docs' = [x \in Docs |-> docs'[x]] /\ docs'[d] = "live"
      /\ \A x \in Docs : x # d => docs'[x] = docs[x]
  BY <1>1, <1>3
<1>5. IndexTyped'
  BY <1>1, <1>2, <1>4 DEF IndexIInv, IndexTyped
<1>6. UploadsFit'
  BY <1>1, <1>4 DEF IndexIInv, UploadsFit
<1>7. IndexesFit'
  BY <1>1 DEF IndexIInv, IndexesFit
<1>8. IndexerAlone'
  <2> SUFFICES ASSUME ~together PROVE IndexerAlone'
    BY <1>1 DEF IndexerAlone
  <2>1. /\ \A th, o \in threads : th = o
        /\ \A th \in threads : Works(th) /\ th.task \in DOMAIN tasks
        /\ base.status # "stale" => published.targets = base.repos
        /\ Succeeded
        /\ \A x \in published.chunks : docs[x] # "gone"
    BY DEF IndexIInv, IndexerAlone, IndexTyped
  <2>2. K!Wanted' = K!Wanted \cup {d}
    BY <1>4 DEF K!Wanted
  <2>3. \A th \in threads : Works(th)'
    <3>1. threads # {} => missed' = missed \cup {d}
      BY <1>1
    <3>2. K!Wanted \subseteq K!Wanted' /\ (threads # {} => K!Wanted' \ missed' \subseteq K!Wanted \ missed)
      BY <2>2, <3>1
    <3> HIDE DEF live
    <3> QED
      BY <1>1, <1>2, <2>1, <3>2 DEF Works
  <2>4. Succeeded'
    <3> SUFFICES ASSUME base'.status = "succeeded" PROVE Succeeded'
      BY DEF Succeeded
    <3>1. base.status = "succeeded" /\ ~K!Idle
      BY <1>2
    <3>2. threads # {}
      BY <1>1, <2>1, <3>1 DEF Succeeded
    <3>3. missed' = missed \cup {d}
      BY <1>1, <3>2
    <3>4. K!Wanted' \ missed' \subseteq K!Wanted \ missed /\ K!Wanted \subseteq K!Wanted'
      BY <2>2, <3>3
    <3> QED
      BY <1>1, <1>2, <2>1, <3>1, <3>2, <3>4 DEF Succeeded
  <2>5. \A x \in published.chunks : docs'[x] # "gone"
    BY <1>1, <1>3, <1>4, <2>1
  <2> QED
    BY <1>1, <1>2, <2>1, <2>3, <2>4, <2>5 DEF IndexerAlone
<1> QED
  BY <1>2, <1>5, <1>6, <1>7, <1>8 DEF IndexIInv

LEMMA DeleteDocumentKept ==
  ASSUME IndexIInv, NEW d \in Docs, K!DeleteDocument(d)
  PROVE  IndexIInv'
<1> DEFINE mark == "pending"  off == FALSE
<1>1. /\ K!Idle /\ docs[d] = "live" /\ docs' = [docs EXCEPT ![d] = mark]
      /\ K!Enqueue(off) /\ UNCHANGED <<docFiles, uploading, published, threads, missed, together>>
  BY DEF K!DeleteDocument
<1> HIDE DEF off
<1>2. /\ IsBase(base') /\ base'.conf = base.conf /\ base'.repos = base.repos
      /\ base'.status = "stale" <=> base.status = "stale"
      /\ base'.status # "succeeded"
      /\ TasksFit(tasks') /\ DOMAIN tasks \subseteq DOMAIN tasks'
      /\ \A t \in DOMAIN tasks : tasks'[t] = tasks[t]
      /\ OneIndexTask'
  BY <1>1, Enqueued
<1>3. docs = [x \in Docs |-> docs[x]]
  BY DEF IndexIInv, IndexTyped
<1>4. /\ docs' = [x \in Docs |-> docs'[x]] /\ docs'[d] = "pending"
      /\ \A x \in Docs : x # d => docs'[x] = docs[x]
  BY <1>1, <1>3
<1>5. IndexTyped'
  BY <1>1, <1>2, <1>4 DEF IndexIInv, IndexTyped
<1>6. UploadsFit'
  BY <1>1, <1>4 DEF IndexIInv, UploadsFit
<1>7. IndexesFit'
  BY <1>1 DEF IndexIInv, IndexesFit
<1>8. IndexerAlone'
  <2> SUFFICES ASSUME ~together PROVE IndexerAlone'
    BY <1>1 DEF IndexerAlone
  <2>1. /\ \A th, o \in threads : th = o
        /\ \A th \in threads : Works(th) /\ th.task \in DOMAIN tasks
        /\ base.status # "stale" => published.targets = base.repos
        /\ \A x \in published.chunks : docs[x] # "gone"
    BY DEF IndexIInv, IndexerAlone, IndexTyped
  <2>2. \A th \in threads : th.at = "ended"
    BY <1>1, <2>1 DEF Works, K!Idle, K!ActiveTasks
  <2>3. \A th \in threads : Works(th)'
    BY <1>2, <2>2 DEF Works
  <2>4. Succeeded'
    BY <1>2 DEF Succeeded
  <2>5. \A x \in published.chunks : docs'[x] # "gone"
    BY <1>1, <1>3, <1>4, <2>1
  <2> QED
    BY <1>1, <1>2, <2>1, <2>3, <2>4, <2>5 DEF IndexerAlone
<1> QED
  BY <1>2, <1>5, <1>6, <1>7, <1>8 DEF IndexIInv

\* What is known as long as threads have not overlapped.
LEMMA KnownAlone ==
  ASSUME IndexIInv, ~together
  PROVE  /\ \A th, o \in threads : th = o
         /\ \A th \in threads : Works(th) /\ th.task \in DOMAIN tasks
         /\ base.status # "stale" => published.targets = base.repos
         /\ Succeeded
         /\ \A d \in published.chunks : docs[d] # "gone"
BY DEF IndexIInv, IndexerAlone, IndexTyped

\* A thread goes on.
LEMMA IndexerGoes ==
  ASSUME IndexIInv, NEW th \in threads, NEW v, K!Goes(th, v), IsIndexer(v), v.task = th.task,
         v.at \in {"ready", "published"} => ListsAll(v.built)
  PROVE  /\ \A o \in threads' : IsIndexer(o) /\ o.task \in DOMAIN tasks
         /\ \A o \in threads' : o.at \in {"ready", "published"} => ListsAll(o.built)
         /\ ~together => threads = {th} /\ threads' = {v}
<1>1. threads' = (threads \ {th}) \cup {v}
  BY DEF K!Goes
<1>2. \A o \in threads : IsIndexer(o) /\ o.task \in DOMAIN tasks
  BY DEF IndexIInv, IndexTyped
<1>3. \A o \in threads : o.at \in {"ready", "published"} => ListsAll(o.built)
  BY DEF IndexIInv, IndexesFit
<1>4. ~together => threads = {th}
  BY KnownAlone
<1> QED
  BY <1>1, <1>2, <1>3, <1>4

\* The thread of a step, and what it is.
LEMMA IndexerTyped ==
  ASSUME IndexIInv, NEW th \in threads
  PROVE  IsIndexer(th) /\ th.task \in DOMAIN tasks /\ IsBase(base) /\ TasksFit(tasks)
         /\ docs = [d \in Docs |-> docs[d]] /\ together \in BOOLEAN
BY DEF IndexIInv, IndexTyped

LEMMA IndexClaimKept ==
  ASSUME IndexIInv, NEW t \in DOMAIN tasks, K!Claim(t)
  PROVE  IndexIInv'
<1> DEFINE n == tasks[t].attempts + 1  k == K!NoIndex  no == FALSE
           x == [task |-> t, no |-> n, at |-> "claimed", conf |-> 0, repos |-> 0, docs |-> {},
                 built |-> k, failed |-> no]
<1>0. PICK v : v = x
  OBVIOUS
<1>1. /\ tasks[t].status \in {"queued", "running"}
      /\ tasks' = Claimed(tasks, t)
      /\ threads' = threads \cup {v} /\ together' = (together \/ threads # {})
      /\ UNCHANGED <<base, docs, docFiles, uploading, published, missed>>
  BY <1>0 DEF K!Claim, K!Claimable, Claimed
<1> HIDE DEF n, k
<1>2. IsIndexer(v) /\ v.task = t /\ v.at = "claimed" /\ ~v.failed
  BY <1>0 DEF IsIndexer, IndexerOf
<1> HIDE DEF x
<1>3. TasksFit(tasks)
  BY DEF IndexIInv, IndexTyped
<1>4. Rewrites(tasks, tasks', t) /\ tasks'[t].status = "running"
  BY <1>1, <1>3, ClaimedIs
<1>5. /\ TasksFit(tasks') /\ DOMAIN tasks' = DOMAIN tasks
      /\ \A u \in DOMAIN tasks :
           /\ tasks'[u].sync = tasks[u].sync
           /\ tasks'[u].status \in {"queued", "running"} =>
                tasks[u].status \in {"queued", "running"}
  BY <1>1, <1>4 DEF Rewrites
<1>6. OneIndexTask'
  BY <1>1, <1>5, NoneActivated DEF IndexIInv
<1>7. IndexTyped'
  BY <1>1, <1>2, <1>5 DEF IndexIInv, IndexTyped
<1>8. UploadsFit'
  BY <1>1 DEF IndexIInv, UploadsFit
<1>9. IndexesFit'
  BY <1>1, <1>2 DEF IndexIInv, IndexesFit
<1>10. IndexerAlone'
  <2> SUFFICES ASSUME ~together' PROVE IndexerAlone'
    BY DEF IndexerAlone
  <2>1. ~together /\ threads = {} /\ threads' = {v}
    BY <1>1
  <2>2. Works(v)'
    BY <1>2, <1>4 DEF Works
  <2>3. K!Wanted' = K!Wanted
    BY <1>1 DEF K!Wanted
  <2>4. Succeeded'
    BY <1>1, <2>1, <2>3, KnownAlone DEF Succeeded
  <2> QED
    BY <1>1, <2>1, <2>2, <2>4, KnownAlone DEF IndexerAlone
<1> QED
  BY <1>6, <1>7, <1>8, <1>9, <1>10 DEF IndexIInv

LEMMA ReadKept == ASSUME IndexIInv, NEW th \in threads, K!Read(th) PROVE IndexIInv'
<1> DEFINE mark == "running"
<1>0. PICK v : v = HasRead(th, base.conf, base.repos, K!Wanted)
  OBVIOUS
<1>1. /\ th.at = "claimed" /\ K!Goes(th, v) /\ K!Marked(mark)
      /\ UNCHANGED <<docs, docFiles, uploading, published, tasks, missed, together>>
  BY <1>0 DEF K!Read, K!Marked, HasRead
<1>2. IsIndexer(th) /\ th.task \in DOMAIN tasks
  BY IndexerTyped
<1>3. /\ IsIndexer(v) /\ v.task = th.task /\ v.at = "read" /\ v.conf = base.conf
      /\ v.repos = base.repos /\ v.docs = K!Wanted /\ v.failed = th.failed
  BY <1>0, <1>2, HasReadIs, IndexerIs
<1> HIDE DEF mark
<1>4. /\ IsBase(base') /\ base'.conf = base.conf /\ base'.repos = base.repos
      /\ base'.status = "stale" <=> base.status = "stale"
      /\ base'.status # "succeeded"
  BY <1>1, StatusWritten DEF mark
<1>5. /\ \A o \in threads' : IsIndexer(o) /\ o.task \in DOMAIN tasks
      /\ \A o \in threads' : o.at \in {"ready", "published"} => ListsAll(o.built)
      /\ ~together => threads = {th} /\ threads' = {v}
  BY <1>1, <1>3, IndexerGoes
<1>6. IndexTyped' /\ UploadsFit' /\ IndexesFit'
  BY <1>1, <1>4, <1>5 DEF IndexIInv, IndexTyped, UploadsFit, IndexesFit
<1>7. OneIndexTask'
  BY <1>1, <1>4, NoneActivated DEF IndexIInv
<1>8. IndexerAlone'
  <2> SUFFICES ASSUME ~together PROVE IndexerAlone'
    BY <1>1 DEF IndexerAlone
  <2>1. Works(th)
    BY KnownAlone
  <2>2. K!Wanted' = K!Wanted
    BY <1>1 DEF K!Wanted
  <2>3. Works(v)'
    BY <1>1, <1>3, <1>4, <2>1, <2>2 DEF Works
  <2>4. Succeeded'
    BY <1>4 DEF Succeeded
  <2> QED
    BY <1>1, <1>4, <1>5, <2>3, <2>4, KnownAlone DEF IndexerAlone
<1> QED
  BY <1>6, <1>7, <1>8 DEF IndexIInv

\* The index that is built lists everything the thread read, at the base's repositories.
LEMMA BuiltIs ==
  ASSUME IndexIInv, NEW th \in threads, NEW bad \in SUBSET K!Changed(th)
  PROVE  LET b == K!Built(th, bad)
         IN  /\ b.conf = th.conf /\ b.docs = th.docs /\ b.targets = K!Synchronised(th)
             /\ ListsAll(b)
<1>1. ListsAll(published)
  BY DEF IndexIInv, IndexesFit
<1> DEFINE g == K!Changed(th)  k == K!Kept(th)
<1>2. k \cup g = th.docs
  <2>1. CASE published.conf # th.conf
    BY <2>1 DEF K!Changed, K!Kept
  <2>2. CASE published.conf = th.conf
    BY <1>1, <2>2 DEF K!Changed, K!Kept, ListsAll
  <2> QED
    BY <2>1, <2>2
<1>3. g = K!Changed(th) /\ k = K!Kept(th)
  OBVIOUS
<1> HIDE DEF g, k
<1>4. K!Built(th, bad) = [conf |-> th.conf, docs |-> th.docs, failed |-> bad,
                          targets |-> K!Synchronised(th), chunks |-> k \cup (g \ bad)]
  BY <1>3 DEF K!Built
<1> QED
  BY <1>2, <1>3, <1>4 DEF ListsAll

LEMMA BuildKept == ASSUME IndexIInv, NEW th \in threads, K!Build(th) PROVE IndexIInv'
<1>1. PICK bad \in SUBSET K!Changed(th) : K!Goes(th, HasBuilt(th, K!Built(th, bad)))
  BY DEF K!Build, HasBuilt
<1>0. PICK b : b = K!Built(th, bad)
  OBVIOUS
<1> DEFINE v == HasBuilt(th, b)
<1>2. /\ th.at = "read" /\ K!Goes(th, v)
      /\ UNCHANGED <<base, docs, docFiles, uploading, published, tasks, missed, together>>
  BY <1>1, <1>0 DEF K!Build
<1>3. b.conf = th.conf /\ b.docs = th.docs /\ b.targets = K!Synchronised(th) /\ ListsAll(b)
  BY <1>0, BuiltIs
<1>4. IsIndexer(th) /\ th.task \in DOMAIN tasks
  BY IndexerTyped
<1>5. /\ IsIndexer(v) /\ v.task = th.task /\ v.at = "ready" /\ v.conf = th.conf
      /\ v.repos = th.repos /\ v.docs = th.docs /\ v.built = b /\ v.failed = th.failed
  BY <1>4, HasBuiltIs, IndexerIs
<1> HIDE DEF v
<1>6. /\ \A o \in threads' : IsIndexer(o) /\ o.task \in DOMAIN tasks
      /\ \A o \in threads' : o.at \in {"ready", "published"} => ListsAll(o.built)
      /\ ~together => threads = {th} /\ threads' = {v}
  BY <1>2, <1>3, <1>5, IndexerGoes
<1>7. IndexTyped' /\ UploadsFit' /\ IndexesFit'
  BY <1>2, <1>6 DEF IndexIInv, IndexTyped, UploadsFit, IndexesFit
<1>8. OneIndexTask'
  BY <1>2, NoneActivated DEF IndexIInv
<1>9. IndexerAlone'
  <2> SUFFICES ASSUME ~together PROVE IndexerAlone'
    BY <1>2 DEF IndexerAlone
  <2>1. Works(th)
    BY KnownAlone
  <2>2. K!Wanted' = K!Wanted
    BY <1>2 DEF K!Wanted
  <2>3. b.targets = base.repos
    <3>1. CASE tasks[th.task].sync
      BY <1>2, <1>3, <2>1, <3>1 DEF K!Synchronised, Works
    <3>2. CASE ~tasks[th.task].sync
      <4>1. base.status # "stale"
        <5>1. th.task \in K!ActiveTasks
          BY <1>2, <1>4, <2>1 DEF Works, K!ActiveTasks
        <5> QED
          BY <3>2, <5>1 DEF IndexIInv, OneIndexTask
      <4> QED
        BY <1>3, <3>2, <4>1, KnownAlone DEF K!Synchronised
    <3> QED
      BY <3>1, <3>2
  <2>4. Works(v)'
    BY <1>2, <1>3, <1>5, <2>1, <2>2, <2>3 DEF Works
  <2>5. Succeeded'
    BY <1>2, <2>1 DEF Works, Succeeded
  <2> QED
    BY <1>2, <1>6, <2>4, <2>5, KnownAlone DEF IndexerAlone
<1> QED
  BY <1>7, <1>8, <1>9 DEF IndexIInv

LEMMA IndexPublishKept == ASSUME IndexIInv, NEW th \in threads, K!Publish(th) PROVE IndexIInv'
<1> DEFINE mark == "published"  v == [th EXCEPT !.at = mark]
<1>1. /\ th.at = "ready" /\ K!Goes(th, v) /\ published' = th.built
      /\ UNCHANGED <<base, docs, docFiles, uploading, tasks, missed, together>>
  BY DEF K!Publish
<1>2. IsIndexer(th) /\ th.task \in DOMAIN tasks
  BY IndexerTyped
<1> HIDE DEF mark
<1>3. /\ IsIndexer(v) /\ v.task = th.task /\ v.at = mark /\ v.conf = th.conf
      /\ v.repos = th.repos /\ v.docs = th.docs /\ v.built = th.built /\ v.failed = th.failed
  BY <1>2, IndexerAt, IndexerIs
<1> HIDE DEF v
<1>4. ListsAll(th.built)
  BY <1>1 DEF IndexIInv, IndexesFit
<1>5. /\ \A o \in threads' : IsIndexer(o) /\ o.task \in DOMAIN tasks
      /\ \A o \in threads' : o.at \in {"ready", "published"} => ListsAll(o.built)
      /\ ~together => threads = {th} /\ threads' = {v}
  BY <1>1, <1>3, <1>4, IndexerGoes
<1>6. IndexTyped' /\ UploadsFit'
  BY <1>1, <1>5 DEF IndexIInv, IndexTyped, UploadsFit
<1>7. IndexesFit'
  BY <1>1, <1>4, <1>5 DEF IndexIInv, IndexesFit, ListsAll
<1>8. OneIndexTask'
  BY <1>1, NoneActivated DEF IndexIInv
<1>9. IndexerAlone'
  <2> SUFFICES ASSUME ~together PROVE IndexerAlone'
    BY <1>1 DEF IndexerAlone
  <2>1. Works(th)
    BY KnownAlone
  <2>2. K!Wanted' = K!Wanted
    BY <1>1 DEF K!Wanted
  <2>3. Works(v)'
    BY <1>1, <1>3, <2>1, <2>2 DEF Works, mark
  <2>4. Succeeded'
    BY <1>1, <2>1 DEF Works, Succeeded
  <2>5. published'.targets = base.repos
    BY <1>1, <2>1 DEF Works
  <2>6. \A d \in published'.chunks : docs[d] # "gone"
    <3>1. th.built.chunks \subseteq K!Wanted
      BY <1>1, <1>4, <2>1 DEF Works, ListsAll
    <3> QED
      BY <1>1, <3>1 DEF K!Wanted
  <2> QED
    BY <1>1, <1>5, <2>3, <2>4, <2>5, <2>6 DEF IndexerAlone
<1> QED
  BY <1>6, <1>7, <1>8, <1>9 DEF IndexIInv

LEMMA IndexFinishKept == ASSUME IndexIInv, NEW th \in threads, K!Finish(th) PROVE IndexIInv'
<1> DEFINE mark == "ended"  good == "succeeded"  v == [th EXCEPT !.at = mark]
<1>1. /\ th.at = "published" /\ K!Goes(th, v) /\ base' = [base EXCEPT !.status = good]
      /\ docFiles' = {d \in docFiles : docs[d] # "pending"}
      /\ docs' = [d \in Docs |-> IF docs[d] = "pending" THEN "gone" ELSE docs[d]]
      /\ UNCHANGED <<uploading, published, tasks, missed, together>>
  BY DEF K!Finish
<1>2. IsIndexer(th) /\ th.task \in DOMAIN tasks /\ IsBase(base)
  BY IndexerTyped
<1> HIDE DEF mark, good
<1>3. /\ IsIndexer(v) /\ v.task = th.task /\ v.at = mark /\ v.failed = th.failed
  BY <1>2, IndexerAt, IndexerIs
<1> HIDE DEF v
<1>4. /\ IsBase(base') /\ base'.conf = base.conf /\ base'.repos = base.repos
      /\ base'.status = "succeeded"
  BY <1>1, <1>2, BaseMarked DEF good
<1>5. /\ docs' = [d \in Docs |-> docs'[d]]
      /\ \A d \in Docs : /\ docs[d] = "pending" => docs'[d] = "gone"
                         /\ docs[d] # "pending" => docs'[d] = docs[d]
  BY <1>1
<1>6. /\ \A o \in threads' : IsIndexer(o) /\ o.task \in DOMAIN tasks
      /\ \A o \in threads' : o.at \in {"ready", "published"} => ListsAll(o.built)
      /\ ~together => threads = {th} /\ threads' = {v}
  BY <1>1, <1>3, IndexerGoes DEF mark
<1>7. IndexTyped'
  BY <1>1, <1>4, <1>5, <1>6 DEF IndexIInv, IndexTyped
<1>8. UploadsFit'
  BY <1>1, <1>5 DEF IndexIInv, UploadsFit
<1>9. IndexesFit'
  BY <1>1, <1>6 DEF IndexIInv, IndexesFit
<1>10. OneIndexTask'
  BY <1>1, <1>4, NoneActivated DEF IndexIInv
<1>11. IndexerAlone'
  <2> SUFFICES ASSUME ~together PROVE IndexerAlone'
    BY <1>1 DEF IndexerAlone
  <2>1. /\ published = th.built /\ published.conf = base.conf /\ published.docs = th.docs
        /\ published.targets = base.repos /\ th.docs \subseteq K!Wanted
        /\ K!Wanted \ missed \subseteq th.docs
        /\ tasks[th.task].status = "running" /\ ~th.failed
    BY <1>1, KnownAlone DEF Works
  <2>2. ListsAll(published)
    BY DEF IndexIInv, IndexesFit
  <2>3. K!Wanted' = K!Wanted
    BY <1>5 DEF K!Wanted
  <2>4. Works(v)'
    BY <1>1, <1>3, <2>1 DEF Works, mark
  <2>5. Succeeded'
    BY <1>1, <1>4, <1>6, <2>1, <2>2, <2>3 DEF Succeeded, ListsAll
  <2>6. \A d \in published.chunks : docs'[d] # "gone"
    <3>1. published.chunks \subseteq K!Wanted
      BY <2>1, <2>2 DEF ListsAll
    <3> QED
      BY <1>5, <3>1 DEF K!Wanted
  <2> QED
    BY <1>1, <1>4, <1>6, <2>1, <2>4, <2>5, <2>6 DEF IndexerAlone
<1> QED
  BY <1>7, <1>8, <1>9, <1>10, <1>11 DEF IndexIInv

\* A thread ends without having finished.
LEMMA ThreadStops ==
  ASSUME IndexIInv, NEW th \in threads, NEW v, K!Goes(th, v), IsIndexer(v), v.task = th.task,
         v.at = "ended",
         IsBase(base'), base'.conf = base.conf, base'.repos = base.repos,
         base'.status = "stale" <=> base.status = "stale", base'.status # "succeeded",
         TasksFit(tasks'), DOMAIN tasks' = DOMAIN tasks,
         \A t \in DOMAIN tasks :
           /\ tasks'[t].sync = tasks[t].sync
           /\ tasks'[t].status \in {"queued", "running"} =>
                tasks[t].status \in {"queued", "running"},
         UNCHANGED <<docs, docFiles, uploading, published, missed, together>>
  PROVE  IndexIInv'
<1>1. /\ \A o \in threads' : IsIndexer(o) /\ o.task \in DOMAIN tasks
      /\ \A o \in threads' : o.at \in {"ready", "published"} => ListsAll(o.built)
      /\ ~together => threads = {th} /\ threads' = {v}
  BY IndexerGoes
<1>2. IndexTyped' /\ UploadsFit' /\ IndexesFit'
  BY <1>1 DEF IndexIInv, IndexTyped, UploadsFit, IndexesFit
<1>3. OneIndexTask'
  BY NoneActivated DEF IndexIInv
<1>4. IndexerAlone'
  <2> SUFFICES ASSUME ~together PROVE IndexerAlone'
    BY DEF IndexerAlone
  <2>1. Works(v)'
    BY DEF Works
  <2>2. Succeeded'
    BY DEF Succeeded
  <2> QED
    BY <1>1, <2>1, <2>2, KnownAlone DEF IndexerAlone
<1> QED
  BY <1>2, <1>3, <1>4 DEF IndexIInv

LEMMA IndexRaiseKept == ASSUME IndexIInv, NEW th \in threads, K!Raise(th) PROVE IndexIInv'
<1> DEFINE mark == "failed"
<1>0. PICK v : v = HasRaised(th)
  OBVIOUS
<1>1. /\ K!Goes(th, v) /\ K!Marked(mark)
      /\ UNCHANGED <<docs, docFiles, uploading, published, tasks, missed, together>>
  BY <1>0 DEF K!Raise, HasRaised
<1>2. IsIndexer(th) /\ TasksFit(tasks)
  BY IndexerTyped
<1>3. IsIndexer(v) /\ v.task = th.task /\ v.at = "ended"
  <2> DEFINE yes == TRUE
  <2>1. v = IndexerOf(th.task, th.no, "ended", th.conf, th.repos, th.docs, th.built, yes)
    BY <1>0, <1>2, HasRaisedIs
  <2> HIDE DEF yes
  <2> QED
    BY <2>1, IndexerIs
<1> HIDE DEF mark
<1>4. /\ IsBase(base') /\ base'.conf = base.conf /\ base'.repos = base.repos
      /\ base'.status = "stale" <=> base.status = "stale"
      /\ base'.status # "succeeded"
  BY <1>1, StatusWritten DEF mark
<1>5. /\ TasksFit(tasks') /\ DOMAIN tasks' = DOMAIN tasks
      /\ \A t \in DOMAIN tasks :
           /\ tasks'[t].sync = tasks[t].sync
           /\ tasks'[t].status \in {"queued", "running"} =>
                tasks[t].status \in {"queued", "running"}
  BY <1>1, <1>2
<1> QED
  BY <1>1, <1>3, <1>4, <1>5, ThreadStops

LEMMA NoticeCancelKept ==
  ASSUME IndexIInv, NEW th \in threads, K!NoticeCancel(th)
  PROVE  IndexIInv'
<1> DEFINE mark == "cancelled"  last == "ended"
<1>0. PICK v : v = [th EXCEPT !.at = last]
  OBVIOUS
<1>1. /\ K!Goes(th, v) /\ K!Marked(mark) /\ tasks' = [tasks EXCEPT ![th.task].status = mark]
      /\ UNCHANGED <<docs, docFiles, uploading, published, missed, together>>
  BY <1>0 DEF K!NoticeCancel
<1>2. IsIndexer(th) /\ TasksFit(tasks) /\ th.task \in DOMAIN tasks
  BY IndexerTyped
<1> HIDE DEF mark, last
<1>3. IsIndexer(v) /\ v.task = th.task /\ v.at = "ended"
  BY <1>0, <1>2, IndexerAt, IndexerIs DEF last
<1>4. /\ IsBase(base') /\ base'.conf = base.conf /\ base'.repos = base.repos
      /\ base'.status = "stale" <=> base.status = "stale"
      /\ base'.status # "succeeded"
  BY <1>1, StatusWritten DEF mark
<1>5. Rewrites(tasks, tasks', th.task) /\ tasks'[th.task].status = mark
  BY <1>1, <1>2, TaskStatus
<1>6. /\ TasksFit(tasks') /\ DOMAIN tasks' = DOMAIN tasks
      /\ \A t \in DOMAIN tasks :
           /\ tasks'[t].sync = tasks[t].sync
           /\ tasks'[t].status \in {"queued", "running"} =>
                tasks[t].status \in {"queued", "running"}
  BY <1>5 DEF Rewrites, mark
<1> QED
  BY <1>1, <1>3, <1>4, <1>6, ThreadStops

\* The thread is gone; a task it finished is not queued again.
LEMMA IndexSettleKept == ASSUME IndexIInv, NEW th \in threads, K!Settle(th) PROVE IndexIInv'
<1>0. PICK m : m = K!Outcome(th)
  OBVIOUS
<1>1. /\ th.at = "ended" /\ threads' = threads \ {th}
      /\ tasks' = IF tasks[th.task].status = "running" THEN SettledAs(tasks, th.task, m) ELSE tasks
      /\ UNCHANGED <<base, docs, docFiles, uploading, published, missed, together>>
  BY <1>0 DEF K!Settle, SettledAs
<1>2. th.task \in DOMAIN tasks /\ TasksFit(tasks) /\ IsBase(base)
  BY IndexerTyped
<1>3. /\ TasksFit(tasks') /\ DOMAIN tasks' = DOMAIN tasks
      /\ \A t \in DOMAIN tasks :
           /\ tasks'[t].sync = tasks[t].sync
           /\ tasks'[t].status \in {"queued", "running"} =>
                tasks[t].status \in {"queued", "running"}
      /\ \A t \in DOMAIN tasks : t # th.task => tasks'[t] = tasks[t]
      /\ tasks[th.task].status = "running" => tasks'[th.task].status = m
  <2>1. CASE tasks[th.task].status = "running"
    <3>1. Rewrites(tasks, tasks', th.task) /\ tasks'[th.task].status = m
      BY <1>1, <1>2, <2>1, SettledAsIs
    <3> QED
      BY <2>1, <3>1 DEF Rewrites
  <2>2. CASE tasks[th.task].status # "running"
    BY <1>1, <1>2, <2>2
  <2> QED
    BY <2>1, <2>2
<1>4. OneIndexTask' /\ (~K!Idle' => ~K!Idle)
  BY <1>1, <1>3, NoneActivated DEF IndexIInv
<1>5. IndexTyped' /\ UploadsFit' /\ IndexesFit'
  BY <1>1, <1>3 DEF IndexIInv, IndexTyped, UploadsFit, IndexesFit
<1>6. IndexerAlone'
  <2> SUFFICES ASSUME ~together PROVE IndexerAlone'
    BY <1>1 DEF IndexerAlone
  <2>1. threads' = {}
    BY <1>1, KnownAlone
  <2>2. K!Wanted' = K!Wanted
    BY <1>1 DEF K!Wanted
  <2>3. base.status = "succeeded" => K!Idle'
    <3> SUFFICES ASSUME base.status = "succeeded" PROVE K!Idle'
      OBVIOUS
    <3>1. ~th.failed /\ tasks[th.task].status = "running"
      BY <1>1, KnownAlone DEF Works
    <3>2. m = "succeeded"
      BY <1>0, <3>1 DEF K!Outcome
    <3>3. th.task \in K!ActiveTasks
      BY <1>2, <3>1 DEF K!ActiveTasks
    <3>4. \A t \in K!ActiveTasks : t = th.task
      BY <3>3 DEF IndexIInv, OneIndexTask
    <3>5. \A t \in K!ActiveTasks' : t \in K!ActiveTasks /\ t # th.task
      BY <1>3, <3>1, <3>2 DEF K!ActiveTasks
    <3> QED
      BY <3>4, <3>5 DEF K!Idle
  <2>4. Succeeded'
    BY <1>1, <2>2, <2>3, KnownAlone DEF Succeeded
  <2> QED
    BY <1>1, <2>1, <2>4, KnownAlone DEF IndexerAlone
<1> QED
  BY <1>4, <1>5, <1>6 DEF IndexIInv

LEMMA IndexCrashKept == ASSUME IndexIInv, K!Crash PROVE IndexIInv'
<1>1. /\ threads' = {} /\ uploading' = {}
      /\ UNCHANGED <<base, docs, docFiles, published, missed, together>>
  BY DEF K!Crash
<1>2. PICK lapsed \in {TRUE, FALSE} :
        tasks' = [t \in DOMAIN tasks |->
          IF tasks[t].status = "running" /\ lapsed
            THEN IF tasks[t].attempts < MaxAttempts
                   THEN [tasks[t] EXCEPT !.status = "queued", !.lapsed = FALSE]
                   ELSE [tasks[t] EXCEPT !.lapsed = TRUE]
            ELSE tasks[t]]
  BY DEF K!Crash
<1>3. TasksFit(tasks) /\ IsBase(base)
  BY DEF IndexIInv, IndexTyped
<1>4. /\ tasks' = [t \in DOMAIN tasks |-> tasks'[t]]
      /\ \A t \in DOMAIN tasks :
           \/ tasks'[t] = tasks[t]
           \/ tasks[t].status = "running" /\ tasks'[t] = Requeued(tasks[t])
           \/ \E l : tasks'[t] = [tasks[t] EXCEPT !.lapsed = l]
  BY <1>2, Zenon DEF Requeued
<1>5. \A t \in DOMAIN tasks :
        /\ IsIndexTask(tasks'[t]) /\ tasks'[t].sync = tasks[t].sync
        /\ tasks'[t].status \in {"queued", "running"} =>
             tasks[t].status \in {"queued", "running"}
  <2> TAKE t \in DOMAIN tasks
  <2>1. IsIndexTask(tasks[t])
    BY <1>3 DEF TasksFit
  <2>2. CASE tasks'[t] = tasks[t]
    BY <2>1, <2>2
  <2>3. CASE tasks[t].status = "running" /\ tasks'[t] = Requeued(tasks[t])
    BY <2>1, <2>3, RequeuedIs
  <2>4. CASE \E l : tasks'[t] = [tasks[t] EXCEPT !.lapsed = l]
    <3>1. PICK l : tasks'[t] = [tasks[t] EXCEPT !.lapsed = l]
      BY <2>4
    <3>2. PICK x : x = tasks[t] /\ IsIndexTask(x)
      BY <2>1
    <3>3. /\ IsIndexTask([x EXCEPT !.lapsed = l]) /\ [x EXCEPT !.lapsed = l].sync = x.sync
          /\ [x EXCEPT !.lapsed = l].status = x.status
      BY <3>2, LapsedChanged
    <3> QED
      BY <3>1, <3>2, <3>3
  <2> QED
    BY <1>4, <2>2, <2>3, <2>4
<1>6. TasksFit(tasks') /\ DOMAIN tasks' = DOMAIN tasks
  <2>1. PICK f : f = tasks'
    OBVIOUS
  <2>2. f = [t \in DOMAIN tasks |-> f[t]] /\ \A t \in DOMAIN tasks : IsIndexTask(f[t])
    BY <1>4, <1>5, <2>1
  <2>3. TasksFit(f) /\ DOMAIN f = DOMAIN tasks
    BY <1>3, <2>2, TasksRewritten
  <2> QED
    BY <2>1, <2>3
<1>7. OneIndexTask'
  BY <1>1, <1>5, <1>6, NoneActivated DEF IndexIInv
<1>8. IndexTyped' /\ UploadsFit' /\ IndexesFit'
  BY <1>1, <1>3, <1>6 DEF IndexIInv, IndexTyped, UploadsFit, IndexesFit
<1>9. IndexerAlone'
  <2> SUFFICES ASSUME ~together PROVE IndexerAlone'
    BY <1>1 DEF IndexerAlone
  <2>1. K!Wanted' = K!Wanted
    BY <1>1 DEF K!Wanted
  <2>2. Succeeded'
    BY <1>1, <2>1, KnownAlone DEF Succeeded
  <2> QED
    BY <1>1, <2>2, KnownAlone DEF IndexerAlone
<1> QED
  BY <1>7, <1>8, <1>9 DEF IndexIInv

\* The index, the rows and the task of a knowledge base keep fitting each other.
LEMMA IndexKept == ASSUME IndexIInv, [K!Next]_indexVars PROVE IndexIInv'
<1>1. CASE UNCHANGED indexVars
  BY <1>1 DEF indexVars, IndexIInv, IndexTyped, UploadsFit, OneIndexTask, IndexesFit,
              IndexerAlone, Works, Succeeded, K!ActiveTasks, K!Idle, K!Wanted
<1>2. CASE K!Configure \/ K!SaveSource
  BY <1>2, ConfigureKept
<1>3. CASE K!StartIndex
  BY <1>3, StartIndexKept
<1>4. CASE K!Crash
  BY <1>4, IndexCrashKept
<1>5. ASSUME NEW d \in Docs, K!UploadBegins(d) \/ K!UploadFails(d)
      PROVE  IndexIInv'
  BY <1>5, UploadingKept
<1>6. ASSUME NEW d \in Docs, K!UploadEnds(d)
      PROVE  IndexIInv'
  BY <1>6, UploadEndsKept
<1>7. ASSUME NEW d \in Docs, K!DeleteDocument(d)
      PROVE  IndexIInv'
  BY <1>7, DeleteDocumentKept
<1>8. ASSUME NEW t \in DOMAIN tasks, K!CancelIndex(t)
      PROVE  IndexIInv'
  BY <1>8, CancelIndexKept
<1>9. ASSUME NEW t \in DOMAIN tasks, K!Claim(t)
      PROVE  IndexIInv'
  BY <1>9, IndexClaimKept
<1>10. ASSUME NEW t \in DOMAIN tasks, K!Lapse(t) \/ K!Renew(t)
       PROVE  IndexIInv'
  BY <1>10, LapseKept
<1>11. ASSUME NEW th \in threads, K!Read(th)
       PROVE  IndexIInv'
  BY <1>11, ReadKept
<1>12. ASSUME NEW th \in threads, K!Build(th)
       PROVE  IndexIInv'
  BY <1>12, BuildKept
<1>13. ASSUME NEW th \in threads, K!Publish(th)
       PROVE  IndexIInv'
  BY <1>13, IndexPublishKept
<1>14. ASSUME NEW th \in threads, K!Finish(th)
       PROVE  IndexIInv'
  BY <1>14, IndexFinishKept
<1>15. ASSUME NEW th \in threads, K!Raise(th)
       PROVE  IndexIInv'
  BY <1>15, IndexRaiseKept
<1>16. ASSUME NEW th \in threads, K!NoticeCancel(th)
       PROVE  IndexIInv'
  BY <1>16, NoticeCancelKept
<1>17. ASSUME NEW th \in threads, K!Settle(th)
       PROVE  IndexIInv'
  BY <1>17, IndexSettleKept
<1> QED
  BY <1>1, <1>2, <1>3, <1>4, <1>5, <1>6, <1>7, <1>8, <1>9, <1>10, <1>11, <1>12, <1>13, <1>14,
     <1>15, <1>16, <1>17 DEF K!Next

LEMMA IndexAlways == ServicesSpec => []IndexIInv
<1>1. ServicesInit => IndexIInv
  BY IndexStarts DEF ServicesInit
<1>2. IndexIInv /\ [ServicesNext]_servicesVars => IndexIInv'
  <2> SUFFICES ASSUME IndexIInv, [ServicesNext]_servicesVars
               PROVE  IndexIInv'
    OBVIOUS
  <2>1. [K!Next]_indexVars
    BY DEF ServicesNext, RunLog, RunIndex, RunWorkflow, RunChat, RunCases, RunReports, RunUpdates,
           servicesVars
  <2> QED
    BY <2>1, IndexKept
<1> QED
  BY <1>1, <1>2, PTL DEF ServicesSpec

\* A base that is marked succeeded, with nothing at work and no two threads ever at work
\* at once, publishes the present settings, synchronised repositories and every document
\* but those that joined the task while it ran (execute_index, enqueue_index).
THEOREM SucceededCurrent == ServicesSpec => []SucceededIsCurrent
<1>1. IndexIInv => SucceededIsCurrent
  BY DEF IndexIInv, IndexerAlone, Succeeded, SucceededIsCurrent, K!SucceededIsCurrent
<1> QED
  BY <1>1, IndexAlways, PTL

\* A document whose deletion was completed is not searchable, and one that is kept has
\* its file (execute_index's second session, delete_document).
THEOREM DeletionComplete == ServicesSpec => []DeletionIsComplete
<1>1. IndexIInv => DeletionIsComplete
  BY DEF IndexIInv, IndexerAlone, UploadsFit, DeletionIsComplete, K!DeletionIsComplete
<1> QED
  BY <1>1, IndexAlways, PTL

-----------------------------------------------------------------------------
(* Types.  What TypeOK adds to the invariants above are bounds on what is  *)
(* in flight.                                                              *)

\* The queue and the batch keep their sizes, and nothing is stored that was not emitted.
LogBounds ==
  /\ Len(queue) <= QueueSize /\ Len(thread.batch) <= BatchSize
  /\ Events \cap (ToSet(queue) \cup ToSet(thread.batch)) \subseteq seen
  /\ file \cup emergency \cup late \cup gone \cup emitting \subseteq seen
  /\ index \cup pending \subseteq file

LEMMA LogTypes == LogIInv /\ LogBounds => TypeOK
BY DEF LogIInv, LogTyped, LogBounds, ThreadFits, Threads, Items, TypeOK, ToSet

\* A step of the thread that leaves the queue alone keeps the bounds if its batch shrinks.
LEMMA BatchBounds ==
  ASSUME LogBounds, queue' = queue, UNCHANGED <<emitting, seen, emergency, late>>,
         Len(thread'.batch) <= BatchSize, ToSet(thread'.batch) \subseteq ToSet(thread.batch),
         file \subseteq file', file' \cup gone' \subseteq seen, index' \cup pending' \subseteq file'
  PROVE  LogBounds'
BY DEF LogBounds

LEMMA QueueBounds ==
  ASSUME LogIInv, LogBounds, Start \/ StopBegins \/ StopPut \/ Exit \/ Crash \/ RetryPending
  PROVE  LogBounds'
<1>1. /\ queue \in Seq(Items) /\ thread.indexable \subseteq file
      /\ Len(<<>>) = 0 /\ QueueSize \in Nat /\ BatchSize \in Nat
      /\ {Stop, Replay} \cap Events = {} /\ {Stop, Replay} \subseteq Items
  BY LogAssumption DEF LogIInv, LogTyped, ThreadFits, Items
<1>2. CASE Start
  <2>1. thread'.batch = <<>> /\ UNCHANGED <<queue, emitting, seen, disk, late, gone>>
    BY <1>2, OffIs, Zenon DEF Start, Working
  <2> QED
    BY <1>1, <2>1, NothingHeld DEF LogBounds, disk
<1>3. CASE StopBegins
  BY <1>3 DEF StopBegins, LogBounds, disk
<1>4. ASSUME NEW e \in {Stop, Replay}, Len(queue) < QueueSize, queue' = Append(queue, e),
             UNCHANGED <<thread, emitting, seen, disk, late, gone>>
      PROVE  LogBounds'
  <2>1. ToSet(queue') = ToSet(queue) \cup {e} /\ Len(queue') = Len(queue) + 1 /\ Len(queue) \in Nat
    BY <1>1, <1>4, AppendHolds
  <2> QED
    BY <1>1, <1>4, <2>1 DEF LogBounds, disk
<1>5. CASE StopPut
  <2>1. \/ Len(queue) < QueueSize /\ queue' = Append(queue, Stop)
        \/ queue' = queue
    BY <1>5 DEF StopPut
  <2>2. UNCHANGED <<thread, emitting, seen, disk, late, gone>>
    BY <1>5 DEF StopPut
  <2> QED
    BY <1>4, <2>1, <2>2 DEF LogBounds, disk
<1>6. CASE RetryPending
  <2>1. \/ Len(queue) < QueueSize /\ queue' = Append(queue, Replay)
        \/ queue' = queue
    BY <1>6 DEF RetryPending
  <2>2. UNCHANGED <<thread, emitting, seen, disk, late, gone>>
    BY <1>6 DEF RetryPending
  <2> QED
    BY <1>4, <2>1, <2>2 DEF LogBounds, disk
<1>7. CASE Exit \/ Crash
  <2>1. /\ ProcessEnds /\ UNCHANGED <<seen, disk>>
        /\ late' \subseteq late \cup emitting /\ gone' \subseteq gone \cup (InMemory \cap Events)
    BY <1>7 DEF Exit, Crash
  <2>2. queue' = <<>> /\ emitting' = {} /\ thread'.batch = <<>>
    BY <2>1, OffIs, Zenon DEF ProcessEnds, Working
  <2>3. InMemory \cap Events \subseteq seen
    BY <1>1 DEF LogBounds, InMemory
  <2> QED
    BY <1>1, <2>1, <2>2, <2>3, NothingHeld DEF LogBounds, disk
<1> QED
  BY <1>2, <1>3, <1>5, <1>6, <1>7

LEMMA EventBounds ==
  ASSUME LogIInv, LogBounds, NEW e \in Events, Emit(e) \/ Put(e) \/ ReplayLine(e)
  PROVE  LogBounds'
<1>1. queue \in Seq(Items) /\ e \in Items
  BY DEF LogIInv, LogTyped, Items
<1>2. CASE Emit(e)
  BY <1>2 DEF Emit, LogBounds, disk
<1>3. CASE Put(e)
  <2>1. /\ e \in emitting /\ emitting' = emitting \ {e} /\ late' \subseteq late \cup {e}
        /\ \/ Len(queue) < QueueSize /\ queue' = Append(queue, e) /\ emergency' = emergency
           \/ queue' = queue /\ emergency' = emergency \cup {e}
        /\ UNCHANGED <<thread, seen, file, index, pending, gone>>
    BY <1>3 DEF Put
  <2>2. queue' = Append(queue, e) =>
          ToSet(queue') = ToSet(queue) \cup {e} /\ Len(queue') = Len(queue) + 1
    BY <1>1, AppendHolds
  <2>3. Len(queue') <= QueueSize
    <3>1. Len(queue) \in Nat /\ QueueSize \in Nat
      BY <1>1, LogAssumption
    <3> QED
      BY <2>1, <2>2, <3>1 DEF LogBounds
  <2>4. e \in seen
    BY <2>1 DEF LogBounds
  <2>5. Events \cap (ToSet(queue') \cup ToSet(thread'.batch)) \subseteq seen'
    BY <2>1, <2>2, <2>4 DEF LogBounds
  <2> QED
    BY <2>1, <2>3, <2>4, <2>5 DEF LogBounds
<1>4. CASE ReplayLine(e)
  <2>1. /\ thread \in Threads /\ index' = index \cup {e} /\ e \in pending
        /\ thread' = [thread EXCEPT !.done = thread.done \cup {e}]
        /\ UNCHANGED <<queue, emitting, seen, file, pending, emergency, late, gone>>
    BY <1>4 DEF ReplayLine, LogIInv, LogTyped
  <2>2. thread'.batch = thread.batch
    BY <2>1, DoneSet, Zenon DEF Working
  <2> QED
    BY <2>1, <2>2, BatchBounds DEF LogBounds
<1> QED
  BY <1>2, <1>3, <1>4

LEMMA BatchIs ==
  ASSUME NEW a, NEW b, NEW x, NEW s, NEW d, NEW t
  PROVE  Working(a, b, x, s, d, t).batch = b
BY DEF Working

LEMMA ThreadBounds ==
  ASSUME LogIInv, LogBounds, Take \/ Item \/ Persist \/ PersistFails \/ ReplayEnds
  PROVE  LogBounds'
<1>1. /\ queue \in Seq(Items) /\ thread \in Threads /\ thread.batch \in Seq(Items)
      /\ thread.indexable \subseteq file /\ Len(<<>>) = 0
      /\ QueueSize \in Nat /\ BatchSize \in Nat \ {0}
  BY LogAssumption DEF LogIInv, LogTyped, ThreadFits, Threads
<1>2. CASE Take
  <2> DEFINE n == IF Len(queue) < BatchSize THEN Len(queue) ELSE BatchSize
             batch == SubSeq(queue, 1, n)
             left == SubSeq(queue, n + 1, Len(queue))
  <2>1. /\ queue # <<>> /\ queue' = left
        /\ \/ thread' = [Off EXCEPT !.at = "replay"]
           \/ thread' = [Off EXCEPT !.at = "items", !.batch = batch]
        /\ UNCHANGED <<emitting, seen, disk, late, gone>>
    BY <1>2 DEF Take
  <2>2. n \in 0..Len(queue) /\ n \in Nat /\ n <= BatchSize /\ Len(queue) \in Nat
    BY <1>1
  <2> HIDE DEF n
  <2>3. /\ ToSet(queue) = ToSet(batch) \cup ToSet(left)
        /\ Len(batch) = n /\ Len(left) = Len(queue) - n
    BY <1>1, <2>2, SplitHolds
  <2> HIDE DEF batch, left
  <2>4. thread'.batch = <<>> \/ thread'.batch = batch
    BY <2>1, OffIs, Zenon DEF Working
  <2>5. Len(thread'.batch) <= BatchSize /\ ToSet(thread'.batch) \subseteq ToSet(queue)
    BY <1>1, <2>2, <2>3, <2>4, NothingHeld
  <2>6. Len(queue') <= QueueSize /\ ToSet(queue') \subseteq ToSet(queue)
    BY <1>1, <2>1, <2>2, <2>3 DEF LogBounds
  <2> QED
    BY <2>1, <2>5, <2>6 DEF LogBounds, disk
<1>3. CASE Item
  <2> DEFINE item == Head(thread.batch)
             more == Tail(thread.batch)
  <2>1. /\ thread.batch # <<>>
        /\ UNCHANGED <<queue, emitting, seen, index, pending, emergency, late>>
        /\ \/ file' = file /\ gone' = gone
           \/ item \in Events /\ file' = file \cup {item} /\ gone' = gone
           \/ item \in Events /\ file' = file /\ gone' = gone \cup {item}
    BY <1>3 DEF Item
  <2>2. ToSet(thread.batch) = {item} \cup ToSet(more) /\ Len(more) = Len(thread.batch) - 1
    BY <1>1, <2>1, TailHolds
  <2>3. thread'.batch = more
    <3>1. \/ thread' = [thread EXCEPT !.batch = more, !.stops = TRUE]
          \/ thread' = TurnsToReplay(thread, more)
          \/ thread' = [thread EXCEPT !.batch = more,
                                      !.indexable = thread.indexable \cup {item}]
          \/ thread' = [thread EXCEPT !.batch = more]
      BY <1>3 DEF Item, TakesStop, Rest, TurnsToReplay
    <3> HIDE DEF more, item
    <3>2. CASE thread' = [thread EXCEPT !.batch = more, !.stops = TRUE]
      <4>1. thread' = Working(thread.at, more, thread.indexable, TRUE, thread.done, thread.then)
        BY <1>1, <3>2, BatchStopsSet, Zenon
      <4>2. \A p : Working(thread.at, more, thread.indexable, p, thread.done,
                           thread.then).batch = more
        BY BatchIs
      <4> QED
        BY <4>1, <4>2, Zenon
    <3>3. CASE thread' = TurnsToReplay(thread, more)
      <4>1. thread' = Working("replay", more, thread.indexable, thread.stops, thread.done, "items")
        BY <1>1, <3>3, TurnsToReplayIs, Zenon
      <4> QED
        BY <4>1, BatchIs
    <3>4. CASE thread' = [thread EXCEPT !.batch = more,
                                        !.indexable = thread.indexable \cup {item}]
      <4>1. thread' = Working(thread.at, more, thread.indexable \cup {item}, thread.stops,
                              thread.done, thread.then)
        BY <1>1, <3>4, BatchIndexableSet, Zenon
      <4> QED
        BY <4>1, BatchIs
    <3>5. CASE thread' = [thread EXCEPT !.batch = more]
      <4>1. thread' = Working(thread.at, more, thread.indexable, thread.stops, thread.done,
                              thread.then)
        BY <1>1, <3>5, BatchSet, Zenon
      <4> QED
        BY <4>1, BatchIs
    <3> QED
      BY <3>1, <3>2, <3>3, <3>4, <3>5
  <2>4. item \in Events => item \in seen
    BY <2>2 DEF LogBounds
  <2>5. Len(thread'.batch) <= BatchSize
    <3>1. Len(thread.batch) \in Nat
      BY <1>1
    <3> QED
      BY <1>1, <2>2, <2>3, <3>1 DEF LogBounds
  <2> HIDE DEF more, item
  <2>6. ToSet(thread'.batch) \subseteq ToSet(thread.batch)
    BY <2>2, <2>3
  <2>7. file \subseteq file' /\ file' \cup gone' \subseteq seen /\ index' \cup pending' \subseteq file'
    BY <2>1, <2>4 DEF LogBounds
  <2> QED
    BY <2>1, <2>5, <2>6, <2>7, BatchBounds
<1>4. CASE Persist \/ PersistFails
  <2>1. /\ thread' = AfterBatch
        /\ UNCHANGED <<queue, emitting, seen, file, emergency, late, gone>>
        /\ index' \subseteq index \cup thread.indexable
        /\ pending' \subseteq pending \cup thread.indexable
    BY <1>4 DEF Persist, PersistFails
  <2>2. thread'.batch = <<>>
    BY <2>1, OffIs, Zenon DEF AfterBatch, Working
  <2>3. Len(thread'.batch) <= BatchSize /\ ToSet(thread'.batch) \subseteq ToSet(thread.batch)
    BY <1>1, <2>2, NothingHeld
  <2> QED
    BY <1>1, <2>1, <2>3, BatchBounds DEF LogBounds
<1>5. CASE ReplayEnds
  <2>1. /\ thread' = LeavesReplay(thread) /\ pending' \subseteq pending
        /\ UNCHANGED <<queue, emitting, seen, file, index, emergency, late, gone>>
    BY <1>5 DEF ReplayEnds, Unresolved, LeavesReplay
  <2>2. thread'.batch = thread.batch
    <3>1. thread' = Working(thread.then, thread.batch, thread.indexable, thread.stops, {}, "off")
      BY <1>1, <2>1, LeavesReplayIs, Zenon
    <3> QED
      BY <3>1, BatchIs
  <2> QED
    BY <2>1, <2>2, BatchBounds DEF LogBounds
<1> QED
  BY <1>2, <1>3, <1>4, <1>5

LEMMA LogBounded ==
  /\ Init => LogBounds
  /\ LogIInv /\ LogBounds /\ [Next]_vars => LogBounds'
<1>1. Init => LogBounds
  <2>1. Len(<<>>) = 0 /\ QueueSize \in Nat /\ BatchSize \in Nat
    BY LogAssumption
  <2>2. Init => thread.batch = <<>>
    BY OffIs, Zenon DEF Init, Working
  <2> QED
    BY <2>1, <2>2, NothingHeld DEF Init, LogBounds
<1>2. UNCHANGED vars /\ LogBounds => LogBounds'
  BY DEF vars, LogBounds
<1> QED
  BY <1>1, <1>2, QueueBounds, EventBounds, ThreadBounds DEF Next


-----------------------------------------------------------------------------
(* Types of the index: what the base, the rows and the threads refer to.   *)

ReadsWithin(th) ==
  /\ th.conf \in 0..MaxConf /\ th.docs \subseteq Docs
  /\ th.built.conf \in 0..MaxConf /\ th.built.docs \subseteq Docs
BaseWithin(b) == b.status \in K!Status /\ {b.conf, b.repos} \subseteq 1..MaxConf
RowStates == {"none", "live", "pending", "gone"}

IndexBounds ==
  /\ BaseWithin(base)
  /\ docs \in [Docs -> RowStates]
  /\ docFiles \subseteq Docs /\ missed \subseteq Docs
  /\ published.conf \in 0..MaxConf /\ published.docs \subseteq Docs
  /\ \A th \in threads : ReadsWithin(th)

LEMMA IndexTypes == IndexIInv /\ IndexBounds => K!TypeOK
BY DEF IndexIInv, IndexTyped, UploadsFit, IndexBounds, BaseWithin, RowStates, K!TypeOK

\* The base's status is written and nothing else of it.
LEMMA MarkWithin ==
  ASSUME IndexIInv, IndexBounds, NEW m \in K!Status, base' = [base EXCEPT !.status = m]
  PROVE  BaseWithin(base')
<1>1. IsBase(base) /\ BaseWithin(base)
  BY DEF IndexIInv, IndexTyped, IndexBounds
<1>2. base'.status = m /\ base'.conf = base.conf /\ base'.repos = base.repos
  BY <1>1, BaseMarked
<1> QED
  BY <1>1, <1>2 DEF BaseWithin

LEMMA EnqueuedWithin ==
  ASSUME IndexIInv, IndexBounds, NEW s, K!Enqueue(s)
  PROVE  BaseWithin(base')
<1> DEFINE m == IF base.status = "stale" THEN base.status ELSE "queued"
<1>1. base' = [base EXCEPT !.status = m] \/ base' = base
  BY DEF K!Enqueue
<1>2. m \in K!Status
  BY DEF K!Status
<1> HIDE DEF m
<1>3. CASE base' = [base EXCEPT !.status = m]
  BY <1>2, <1>3, MarkWithin
<1>4. CASE base' = base
  BY <1>4 DEF IndexBounds, BaseWithin
<1> QED
  BY <1>1, <1>3, <1>4

LEMMA MarkedWithin ==
  ASSUME IndexIInv, IndexBounds, NEW s \in K!Status, K!Marked(s)
  PROVE  BaseWithin(base')
<1> DEFINE m == IF base.status = "stale" THEN base.status ELSE s
<1>1. base' = [base EXCEPT !.status = m]
  BY DEF K!Marked
<1>2. m \in K!Status
  BY DEF K!Status
<1> HIDE DEF m
<1> QED
  BY <1>1, <1>2, MarkWithin

LEMMA ResetFields ==
  ASSUME NEW b, IsBase(b), NEW y
  PROVE  /\ Reset(b, y).status = "stale" /\ Reset(b, y).conf = y /\ Reset(b, y).repos = b.repos
         /\ Resourced(b, y).status = "stale" /\ Resourced(b, y).conf = b.conf
         /\ Resourced(b, y).repos = y
<1> DEFINE x == b.status  c == b.conf  r == b.repos  mark == "stale"
<1>1. b = BaseOf(x, c, r)
  BY DEF IsBase
<1>2. /\ Reset(b, y) = [b EXCEPT !.status = mark, !.conf = y]
      /\ Resourced(b, y) = [b EXCEPT !.status = mark, !.repos = y]
  BY Zenon DEF Reset, Resourced
<1> HIDE DEF x, c, r, mark
<1>3. [b EXCEPT !.status = mark] = BaseOf(mark, c, r)
  BY <1>1 DEF BaseOf
<1>4. /\ [BaseOf(mark, c, r) EXCEPT !.conf = y] = BaseOf(mark, y, r)
      /\ [BaseOf(mark, c, r) EXCEPT !.repos = y] = BaseOf(mark, c, y)
  BY DEF BaseOf
<1>5. Reset(b, y) = BaseOf(mark, y, r) /\ Resourced(b, y) = BaseOf(mark, c, y)
  BY <1>2, <1>3, <1>4, Zenon
<1>6. /\ BaseOf(mark, y, r).status = mark /\ BaseOf(mark, y, r).conf = y
      /\ BaseOf(mark, y, r).repos = r
      /\ BaseOf(mark, c, y).status = mark /\ BaseOf(mark, c, y).conf = c
      /\ BaseOf(mark, c, y).repos = y
  BY DEF BaseOf
<1> QED
  BY <1>5, <1>6, Zenon DEF mark, c, r

\* Settings and sources grow while their bound lasts.
LEMMA ConfigureWithin ==
  ASSUME IndexIInv, IndexBounds, K!Configure \/ K!SaveSource
  PROVE  IndexBounds'
<1> DEFINE c == base.conf + 1  r == base.repos + 1
<1>1. /\ base.conf + base.repos <= MaxConf
      /\ base' = Reset(base, c) \/ base' = Resourced(base, r)
      /\ UNCHANGED <<docs, docFiles, published, threads, missed>>
  BY DEF K!Configure, K!SaveSource, Reset, Resourced
<1>2. IsBase(base) /\ base.conf \in 1..MaxConf /\ base.repos \in 1..MaxConf /\ MaxConf \in Nat
  BY IndexAssumption DEF IndexIInv, IndexTyped, IndexBounds, BaseWithin
<1>3. c \in 1..MaxConf /\ r \in 1..MaxConf
  BY <1>1, <1>2
<1> HIDE DEF c, r
<1>4. /\ base'.status = "stale"
      /\ \/ base'.conf = c /\ base'.repos = base.repos
         \/ base'.conf = base.conf /\ base'.repos = r
  <2>1. CASE base' = Reset(base, c)
    BY <1>2, <2>1, ResetFields
  <2>2. CASE base' = Resourced(base, r)
    BY <1>2, <2>2, ResetFields
  <2> QED
    BY <1>1, <2>1, <2>2
<1>5. BaseWithin(base')
  BY <1>2, <1>3, <1>4 DEF BaseWithin, K!Status
<1> QED
  BY <1>1, <1>5 DEF IndexBounds

\* Documents come and go as they are named.
LEMMA DocumentsWithin ==
  ASSUME IndexIInv, IndexBounds, NEW d \in Docs,
         K!UploadBegins(d) \/ K!UploadEnds(d) \/ K!UploadFails(d) \/ K!DeleteDocument(d)
  PROVE  IndexBounds'
<1>1. CASE K!UploadBegins(d) \/ K!UploadFails(d)
  BY <1>1 DEF K!UploadBegins, K!UploadFails, IndexBounds, BaseWithin
<1>2. CASE K!UploadEnds(d) \/ K!DeleteDocument(d)
  <2> DEFINE live == "live"  leaves == "pending"  no == FALSE
  <2>1. /\ docs' = [docs EXCEPT ![d] = live] \/ docs' = [docs EXCEPT ![d] = leaves]
        /\ missed' \in {missed, missed \cup {d}}
        /\ K!Enqueue(no) /\ UNCHANGED <<docFiles, published, threads>>
    BY <1>2 DEF K!UploadEnds, K!DeleteDocument
  <2>2. {live, leaves} \subseteq RowStates
    BY DEF RowStates
  <2> HIDE DEF live, leaves, no
  <2>3. BaseWithin(base')
    BY <2>1, EnqueuedWithin
  <2> QED
    BY <2>1, <2>2, <2>3 DEF IndexBounds
<1> QED
  BY <1>1, <1>2

\* A thread goes on with what is within.
LEMMA GoesWithin ==
  ASSUME IndexIInv, IndexBounds, NEW th \in threads, NEW v, K!Goes(th, v), ReadsWithin(v),
         BaseWithin(base'), UNCHANGED missed, docFiles' \subseteq docFiles,
         docs' \in [Docs -> RowStates], published' = published \/ published' = th.built
  PROVE  IndexBounds'
<1>1. threads' = (threads \ {th}) \cup {v}
  BY DEF K!Goes
<1>2. \A o \in threads' : ReadsWithin(o)
  BY <1>1 DEF IndexBounds
<1>3. published'.conf \in 0..MaxConf /\ published'.docs \subseteq Docs
  BY DEF IndexBounds, ReadsWithin
<1> QED
  BY <1>2, <1>3 DEF IndexBounds

LEMMA TasksWithin ==
  ASSUME IndexIInv, IndexBounds, NEW t \in DOMAIN tasks,
         K!CancelIndex(t) \/ K!Claim(t) \/ K!Lapse(t) \/ K!Renew(t)
  PROVE  IndexBounds'
<1>1. CASE K!CancelIndex(t)
  <2> DEFINE m == "cancelled"
  <2>1. /\ base' = [base EXCEPT !.status = m] \/ base' = base
        /\ UNCHANGED <<docs, docFiles, published, threads, missed>>
    BY <1>1 DEF K!CancelIndex
  <2>2. m \in K!Status
    BY DEF K!Status
  <2> HIDE DEF m
  <2>3. BaseWithin(base')
    <3>1. base' = base => BaseWithin(base')
      BY DEF IndexBounds, BaseWithin
    <3> QED
      BY <2>1, <2>2, <3>1, MarkWithin
  <2> QED
    BY <2>1, <2>3 DEF IndexBounds
<1>2. CASE K!Claim(t)
  <2> DEFINE n == tasks[t].attempts + 1  no == FALSE
             x == [task |-> t, no |-> n, at |-> "claimed", conf |-> 0, repos |-> 0, docs |-> {},
                   built |-> K!NoIndex, failed |-> no]
  <2>1. threads' = threads \cup {x} /\ UNCHANGED <<base, docs, docFiles, published, missed>>
    BY <1>2 DEF K!Claim
  <2>2. ReadsWithin(x)
    <3>1. 0 \in 0..MaxConf
      BY IndexAssumption
    <3> QED
      BY <3>1 DEF ReadsWithin, K!NoIndex
  <2> HIDE DEF x
  <2> QED
    BY <2>1, <2>2 DEF IndexBounds, BaseWithin
<1>3. CASE K!Lapse(t) \/ K!Renew(t)
  BY <1>3 DEF K!Lapse, K!Renew, IndexBounds, BaseWithin
<1> QED
  BY <1>1, <1>2, <1>3

LEMMA ThreadsWithin ==
  ASSUME IndexIInv, IndexBounds, NEW th \in threads,
         \/ K!Read(th) \/ K!Build(th) \/ K!Publish(th) \/ K!Finish(th)
         \/ K!Raise(th) \/ K!NoticeCancel(th) \/ K!Settle(th)
  PROVE  IndexBounds'
<1>1. IsIndexer(th) /\ ReadsWithin(th) /\ BaseWithin(base) /\ docs \in [Docs -> RowStates]
  BY IndexerTyped DEF IndexBounds
<1>2. CASE K!Read(th)
  <2> DEFINE mark == "running"
  <2>1. PICK v : v = HasRead(th, base.conf, base.repos, K!Wanted)
    OBVIOUS
  <2>2. /\ K!Goes(th, v) /\ K!Marked(mark) /\ UNCHANGED <<docs, docFiles, published, missed>>
    BY <1>2, <2>1 DEF K!Read, K!Marked, HasRead
  <2>3. v.conf = base.conf /\ v.docs = K!Wanted /\ v.built = th.built
    BY <1>1, <2>1, HasReadIs, IndexerIs
  <2>4. ReadsWithin(v)
    <3>1. base.conf \in 0..MaxConf
      BY <1>1 DEF BaseWithin
    <3>2. K!Wanted \subseteq Docs
      BY DEF K!Wanted
    <3> QED
      BY <1>1, <2>3, <3>1, <3>2 DEF ReadsWithin
  <2>5. mark \in K!Status
    BY DEF K!Status
  <2> HIDE DEF mark
  <2>6. BaseWithin(base')
    BY <2>2, <2>5, MarkedWithin
  <2> QED
    BY <1>1, <2>2, <2>4, <2>6, GoesWithin
<1>3. CASE K!Build(th)
  <2>1. PICK bad \in SUBSET K!Changed(th) : K!Goes(th, HasBuilt(th, K!Built(th, bad)))
    BY <1>3, Zenon DEF K!Build, HasBuilt
  <2>2. PICK b : b = K!Built(th, bad)
    OBVIOUS
  <2>3. PICK v : v = HasBuilt(th, b)
    OBVIOUS
  <2>4. K!Goes(th, v) /\ UNCHANGED <<base, docs, docFiles, published, missed>>
    <3>1. UNCHANGED <<base, docs, docFiles, published, missed>>
      BY <1>3, Zenon DEF K!Build
    <3> QED
      BY <2>1, <2>2, <2>3, <3>1, Zenon
  <2>5. b.conf = th.conf /\ b.docs = th.docs
    BY <2>2, BuiltIs
  <2>6. v.conf = th.conf /\ v.docs = th.docs /\ v.built = b
    BY <1>1, <2>3, HasBuiltIs, IndexerIs
  <2>7. ReadsWithin(v)
    BY <1>1, <2>5, <2>6 DEF ReadsWithin
  <2> QED
    BY <1>1, <2>4, <2>7, GoesWithin
<1>4. ASSUME NEW a, NEW v, v = [th EXCEPT !.at = a] PROVE ReadsWithin(v)
  <2>1. v.conf = th.conf /\ v.docs = th.docs /\ v.built = th.built
    BY <1>1, <1>4, IndexerAt, IndexerIs
  <2> QED
    BY <1>1, <2>1 DEF ReadsWithin
<1>5. CASE K!Publish(th)
  <2> DEFINE mark == "published"
  <2>1. PICK v : v = [th EXCEPT !.at = mark]
    OBVIOUS
  <2>2. K!Goes(th, v) /\ published' = th.built /\ UNCHANGED <<base, docs, docFiles, missed>>
    BY <1>5, <2>1 DEF K!Publish
  <2> HIDE DEF mark
  <2> QED
    BY <1>1, <1>4, <2>1, <2>2, GoesWithin
<1>6. CASE K!Finish(th)
  <2> DEFINE mark == "ended"  done == "succeeded"  left == "gone"
  <2>1. PICK v : v = [th EXCEPT !.at = mark]
    OBVIOUS
  <2>2. /\ K!Goes(th, v) /\ base' = [base EXCEPT !.status = done]
        /\ docs' = [d \in Docs |-> IF docs[d] = "pending" THEN left ELSE docs[d]]
        /\ docFiles' \subseteq docFiles /\ UNCHANGED <<published, missed>>
    BY <1>6, <2>1 DEF K!Finish
  <2>3. done \in K!Status /\ left \in RowStates
    BY DEF K!Status, RowStates
  <2> HIDE DEF mark, done, left
  <2>4. BaseWithin(base')
    BY <2>2, <2>3, MarkWithin
  <2>5. docs' \in [Docs -> RowStates]
    BY <1>1, <2>2, <2>3
  <2> QED
    BY <1>4, <2>1, <2>2, <2>4, <2>5, GoesWithin
<1>7. CASE K!Raise(th)
  <2> DEFINE mark == "failed"  yes == TRUE
  <2>1. PICK v : v = HasRaised(th)
    OBVIOUS
  <2>2. K!Goes(th, v) /\ K!Marked(mark) /\ UNCHANGED <<docs, docFiles, published, missed>>
    BY <1>7, <2>1 DEF K!Raise, HasRaised
  <2>3. v = IndexerOf(th.task, th.no, "ended", th.conf, th.repos, th.docs, th.built, yes)
    BY <1>1, <2>1, HasRaisedIs
  <2>4. mark \in K!Status
    BY DEF K!Status
  <2> HIDE DEF mark, yes
  <2>5. v.conf = th.conf /\ v.docs = th.docs /\ v.built = th.built
    BY <2>3, IndexerIs
  <2>6. ReadsWithin(v) /\ BaseWithin(base')
    BY <1>1, <2>2, <2>4, <2>5, MarkedWithin DEF ReadsWithin
  <2> QED
    BY <1>1, <2>2, <2>6, GoesWithin
<1>8. CASE K!NoticeCancel(th)
  <2> DEFINE mark == "cancelled"  last == "ended"
  <2>1. PICK v : v = [th EXCEPT !.at = last]
    OBVIOUS
  <2>2. K!Goes(th, v) /\ K!Marked(mark) /\ UNCHANGED <<docs, docFiles, published, missed>>
    BY <1>8, <2>1 DEF K!NoticeCancel
  <2>3. mark \in K!Status
    BY DEF K!Status
  <2> HIDE DEF mark, last
  <2>4. BaseWithin(base')
    BY <2>2, <2>3, MarkedWithin
  <2> QED
    BY <1>1, <1>4, <2>1, <2>2, <2>4, GoesWithin
<1>9. CASE K!Settle(th)
  BY <1>9 DEF K!Settle, IndexBounds, BaseWithin
<1> QED
  BY <1>2, <1>3, <1>5, <1>6, <1>7, <1>8, <1>9

LEMMA IndexWithin ==
  /\ K!Init => IndexBounds
  /\ IndexIInv /\ IndexBounds /\ [K!Next]_indexVars => IndexBounds'
<1>1. K!Init => IndexBounds
  <2>1. MaxConf \in Nat \ {0}
    BY IndexAssumption
  <2> QED
    BY <2>1 DEF K!Init, K!NoIndex, K!Status, IndexBounds, BaseWithin, RowStates
<1>2. ASSUME IndexIInv, IndexBounds, K!StartIndex PROVE IndexBounds'
  <2> DEFINE yes == TRUE
  <2>1. K!Enqueue(yes) /\ UNCHANGED <<docs, docFiles, published, threads, missed>>
    BY <1>2, Zenon DEF K!StartIndex
  <2> HIDE DEF yes
  <2>2. BaseWithin(base')
    BY <1>2, <2>1, EnqueuedWithin
  <2> QED
    BY <1>2, <2>1, <2>2 DEF IndexBounds
<1>3. ASSUME IndexBounds, K!Crash \/ UNCHANGED indexVars PROVE IndexBounds'
  <2>1. /\ UNCHANGED <<base, docs, docFiles, published, missed>>
        /\ threads' = {} \/ UNCHANGED threads
    BY <1>3, Zenon DEF K!Crash, indexVars
  <2> QED
    BY <1>3, <2>1 DEF IndexBounds, BaseWithin
<1> QED
  BY <1>1, <1>2, <1>3, ConfigureWithin, DocumentsWithin, TasksWithin, ThreadsWithin DEF K!Next

-----------------------------------------------------------------------------
-----------------------------------------------------------------------------
(* Types of the workflow versions: no two rows share number and            *)
(* generation, since the database takes no second row with both.           *)

NumbersFit(q) ==
  /\ \A v \in DOMAIN q : q[v].status \in VersionStates
  /\ \A v, w \in DOMAIN q : v # w => q[v].no # q[w].no \/ q[v].gen # q[w].gen
WorkflowBounds == resources \in BOOLEAN /\ NumbersFit(versions)

LEMMA WorkflowTypes == WorkflowIInv /\ WorkflowBounds => W!TypeOK
<1> SUFFICES ASSUME WorkflowIInv, WorkflowBounds PROVE W!TypeOK
  OBVIOUS
<1>1. \A v, w \in DOMAIN versions : v # w =>
        <<versions[v].no, versions[v].gen>> # <<versions[w].no, versions[w].gen>>
  BY DEF WorkflowBounds, NumbersFit
<1> QED
  BY <1>1 DEF WorkflowIInv, PointersFit, WorkflowBounds, NumbersFit, VersionStates, W!Ids, W!TypeOK

\* A version that is marked or rewritten keeps its number.
LEMMA NumbersAre ==
  ASSUME NEW x, IsVersion(x), NEW mark, NEW p, NEW k, NEW r
  PROVE  /\ LET y == [x EXCEPT !.status = mark] IN y.no = x.no /\ y.gen = x.gen
         /\ LET y == Republished(x, p, k) IN y.no = x.no /\ y.gen = x.gen
         /\ LET y == SavedAs(x, k, r) IN y.no = x.no /\ y.gen = x.gen
<1> DEFINE a == x.no  b == x.gen  c == x.status  d == x.rev  h == x.content
<1>1. x = VersionOf(a, b, c, d, h)
  BY DEF IsVersion
<1>2. Republished(x, p, k) = [x EXCEPT !.status = p, !.content = k]
  BY Zenon DEF Republished
<1>3. SavedAs(x, k, r) = [x EXCEPT !.content = k, !.rev = r]
  BY Zenon DEF SavedAs
<1> HIDE DEF a, b, c, d, h
<1>4. \A s : [x EXCEPT !.status = s] = VersionOf(a, b, s, d, h)
  BY <1>1 DEF VersionOf
<1>5. [VersionOf(a, b, p, d, h) EXCEPT !.content = k] = VersionOf(a, b, p, d, k)
  BY DEF VersionOf
<1>6. [x EXCEPT !.content = k] = VersionOf(a, b, c, d, k)
  BY <1>1 DEF VersionOf
<1>7. [VersionOf(a, b, c, d, k) EXCEPT !.rev = r] = VersionOf(a, b, c, r, k)
  BY DEF VersionOf
<1>8. [x EXCEPT !.status = mark] = VersionOf(a, b, mark, d, h)
  BY <1>4
<1>9. Republished(x, p, k) = VersionOf(a, b, p, d, k)
  BY <1>2, <1>4, <1>5, Zenon
<1>10. SavedAs(x, k, r) = VersionOf(a, b, c, r, k)
  BY <1>3, <1>6, <1>7, Zenon
<1>11. /\ VersionOf(a, b, mark, d, h).no = a /\ VersionOf(a, b, mark, d, h).gen = b
       /\ VersionOf(a, b, p, d, k).no = a /\ VersionOf(a, b, p, d, k).gen = b
       /\ VersionOf(a, b, c, r, k).no = a /\ VersionOf(a, b, c, r, k).gen = b
  BY DEF VersionOf
<1> QED
  BY <1>8, <1>9, <1>10, <1>11, Zenon DEF a, b

LEMMA NumbersKept ==
  ASSUME NEW q, SeqFits(q), NumbersFit(q), NEW f, f = [v \in DOMAIN q |-> f[v]],
         \A v \in DOMAIN q : /\ IsVersion(f[v]) /\ f[v].status \in VersionStates
                             /\ f[v].no = q[v].no /\ f[v].gen = q[v].gen
  PROVE  NumbersFit(f) /\ Len(f) = Len(q)
<1>1. DOMAIN f = DOMAIN q /\ Len(f) = Len(q)
  BY SeqRewritten
<1> QED
  BY <1>1 DEF NumbersFit

\* A row whose number and generation no other has.
LEMMA NumberAdded ==
  ASSUME NEW q, SeqFits(q), NumbersFit(q), NEW x, IsVersion(x), x.status \in VersionStates,
         \A v \in DOMAIN q : q[v].no # x.no \/ q[v].gen # x.gen
  PROVE  NumbersFit(Append(q, x))
<1> DEFINE z == Append(q, x)
<1>1. /\ DOMAIN z = DOMAIN q \cup {Len(q) + 1} /\ Len(q) + 1 \notin DOMAIN q
      /\ z[Len(q) + 1] = x /\ \A v \in DOMAIN q : z[v] = q[v]
  BY SeqGrows
<1> HIDE DEF z
<1>2. \A v \in DOMAIN z : z[v].status \in VersionStates
  BY <1>1 DEF NumbersFit
<1>3. \A v, w \in DOMAIN z : v # w => z[v].no # z[w].no \/ z[v].gen # z[w].gen
  BY <1>1 DEF NumbersFit
<1> QED
  BY <1>2, <1>3 DEF NumbersFit, z

\* Rows that are marked or rewritten, one by one.
LEMMA RowsNumbered ==
  ASSUME WorkflowIInv, WorkflowBounds, NEW f, f = [v \in DOMAIN versions |-> f[v]],
         \A v \in DOMAIN versions :
           \/ f[v] = versions[v]
           \/ \E mark \in VersionStates : f[v] = [versions[v] EXCEPT !.status = mark]
           \/ \E mark \in VersionStates : \E k :
                IsContent(k) /\ f[v] = Republished(versions[v], mark, k)
           \/ \E k, r : IsContent(k) /\ f[v] = SavedAs(versions[v], k, r)
  PROVE  NumbersFit(f) /\ SeqFits(f) /\ DOMAIN f = DOMAIN versions /\ Len(f) = Len(versions)
         /\ \A v \in DOMAIN versions : f[v].no = versions[v].no /\ f[v].gen = versions[v].gen
<1>1. SeqFits(versions) /\ NumbersFit(versions)
  BY DEF WorkflowIInv, WorkflowBounds
<1>2. ASSUME NEW v \in DOMAIN versions
      PROVE  /\ IsVersion(f[v]) /\ f[v].status \in VersionStates
             /\ f[v].no = versions[v].no /\ f[v].gen = versions[v].gen
  <2>1. IsVersion(versions[v]) /\ versions[v].status \in VersionStates
    BY <1>1 DEF SeqFits, NumbersFit
  <2>2. CASE f[v] = versions[v]
    BY <2>1, <2>2
  <2>3. ASSUME NEW mark \in VersionStates, f[v] = [versions[v] EXCEPT !.status = mark]
        PROVE  /\ IsVersion(f[v]) /\ f[v].status \in VersionStates
               /\ f[v].no = versions[v].no /\ f[v].gen = versions[v].gen
    <3> DEFINE y == [versions[v] EXCEPT !.status = mark]
    <3>1. IsVersion(y) /\ y.status = mark /\ y.no = versions[v].no /\ y.gen = versions[v].gen
      BY <2>1, VersionMarked, NumbersAre
    <3>2. f[v] = y
      BY <2>3
    <3> HIDE DEF y
    <3> QED
      BY <3>1, <3>2
  <2>4. ASSUME NEW mark \in VersionStates, NEW k, IsContent(k),
               f[v] = Republished(versions[v], mark, k)
        PROVE  /\ IsVersion(f[v]) /\ f[v].status \in VersionStates
               /\ f[v].no = versions[v].no /\ f[v].gen = versions[v].gen
    <3>1. PICK y : y = Republished(versions[v], mark, k)
      OBVIOUS
    <3>2. /\ IsVersion(y) /\ y.status = mark
          /\ y.no = versions[v].no /\ y.gen = versions[v].gen
      BY <2>1, <2>4, <3>1, RepublishedIs, NumbersAre
    <3> QED
      BY <2>4, <3>1, <3>2 DEF VersionStates
  <2>5. ASSUME NEW k, NEW r, IsContent(k), f[v] = SavedAs(versions[v], k, r)
        PROVE  /\ IsVersion(f[v]) /\ f[v].status \in VersionStates
               /\ f[v].no = versions[v].no /\ f[v].gen = versions[v].gen
    <3>1. PICK y : y = SavedAs(versions[v], k, r)
      OBVIOUS
    <3>2. /\ IsVersion(y) /\ y.status = versions[v].status
          /\ y.no = versions[v].no /\ y.gen = versions[v].gen
      BY <2>1, <2>5, <3>1, SavedAsIs, NumbersAre
    <3> QED
      BY <2>1, <2>5, <3>1, <3>2
  <2> QED
    BY <2>2, <2>3, <2>4, <2>5
<1>3. SeqFits(f) /\ DOMAIN f = DOMAIN versions /\ Len(f) = Len(versions)
  BY <1>1, <1>2, SeqRewritten
<1>4. NumbersFit(f)
  BY <1>1, <1>2, NumbersKept
<1> QED
  BY <1>2, <1>3, <1>4

LEMMA RowSet ==
  ASSUME NEW q, NEW w, NEW y, NEW f, f = [q EXCEPT ![w] = y]
  PROVE  /\ f = [v \in DOMAIN q |-> f[v]]
         /\ \A v \in DOMAIN q : f[v] = q[v] \/ (v = w /\ f[v] = y)
OBVIOUS

\* A save writes one row, and a publication puts one in force and retires another.
LEMMA RewriteNumbers ==
  ASSUME WorkflowIInv, WorkflowBounds,
         \/ \E s \in saving : W!SaveCommits(s)
         \/ \E p \in publishing : W!EnableCommits(p)
  PROVE  NumbersFit(versions')
<1>1. ASSUME NEW s \in saving, W!SaveCommits(s) PROVE NumbersFit(versions')
  <2> DEFINE w == s.v  k == s.content  r == s.rev
  <2>1. versions' = [versions EXCEPT ![w] = SavedAs(versions[w], k, r)]
    BY <1>1 DEF W!SaveCommits, SavedAs
  <2>2. IsContent(k)
    BY DEF WorkflowIInv, PointersFit
  <2> HIDE DEF w, k, r
  <2>3. PICK f : f = versions'
    OBVIOUS
  <2>4. PICK y : y = SavedAs(versions[w], k, r)
    OBVIOUS
  <2>5. /\ f = [v \in DOMAIN versions |-> f[v]]
        /\ \A v \in DOMAIN versions : f[v] = versions[v] \/ (v = w /\ f[v] = y)
    BY <2>1, <2>3, <2>4, RowSet
  <2>6. \A v \in DOMAIN versions :
          \/ f[v] = versions[v]
          \/ \E c, t : IsContent(c) /\ f[v] = SavedAs(versions[v], c, t)
    BY <2>2, <2>4, <2>5, Zenon
  <2>7. NumbersFit(f)
    BY <2>5, <2>6, RowsNumbered
  <2> QED
    BY <2>3, <2>7
<1>2. ASSUME NEW p \in publishing, W!EnableCommits(p) PROVE NumbersFit(versions')
  <2> DEFINE w == p.v  was == p.loaded.published  k == W!Repinned(p)  out == "retired"
             mark == W!Written(versions[w].status, p.was, "published")
             h == [g \in Files |-> IF p.pins[g] # p.seen.pins[g] THEN p.pins[g]
                                   ELSE versions[w].content.pins[g]]
  <2>1. w \in DOMAIN versions /\ IsContent(versions[w].content)
    BY RowsFit DEF WorkflowIInv, PointersFit, W!Ids
  <2>2. k = [versions[w].content EXCEPT !.pins = h]
    BY DEF W!Repinned
  <2>3. IsContent(k)
    <3> HIDE DEF w, h, k
    <3> QED
      BY <2>1, <2>2, ContentRepinned
  <2>4. versions' = [v \in DOMAIN versions |->
          IF v = w THEN Republished(versions[w], mark, k)
          ELSE IF v = was /\ versions[v].no # versions[w].no
            THEN [versions[v] EXCEPT !.status = out] ELSE versions[v]]
    BY <1>2, Zenon DEF W!EnableCommits, Republished, W!Ids
  <2>5. out \in VersionStates /\ mark \in VersionStates
    <3>1. mark \in {versions[w].status, "published"}
      BY WrittenIs
    <3> HIDE DEF mark, w
    <3> QED
      BY <2>1, <3>1 DEF VersionStates, WorkflowBounds, NumbersFit
  <2> HIDE DEF k, out, w, was, mark
  <2>6. PICK f : f = versions'
    OBVIOUS
  <2>7. /\ f = [v \in DOMAIN versions |-> f[v]]
        /\ \A v \in DOMAIN versions :
             \/ f[v] = versions[v]
             \/ f[v] = [versions[v] EXCEPT !.status = out]
             \/ f[v] = Republished(versions[v], mark, k)
    BY <2>4, <2>6
  <2>8. \A v \in DOMAIN versions :
          \/ f[v] = versions[v]
          \/ \E m \in VersionStates : f[v] = [versions[v] EXCEPT !.status = m]
          \/ \E m \in VersionStates : \E c :
               IsContent(c) /\ f[v] = Republished(versions[v], m, c)
    BY <2>3, <2>5, <2>7, Zenon
  <2>9. NumbersFit(f)
    BY <2>7, <2>8, RowsNumbered
  <2> QED
    BY <2>6, <2>9
<1> QED
  BY <1>1, <1>2

\* A request marks one row and adds one, if no other has its number and generation.
LEMMA CommitNumbers ==
  ASSUME WorkflowIInv, WorkflowBounds, NEW q \in working, W!Commits(q)
  PROVE  versions' = versions \/ NumbersFit(versions')
<1>1. PICK f : f = Remarked(q)
  OBVIOUS
<1>2. versions' = versions
      \/ /\ versions' = IF q.new = W!NoVersion THEN f ELSE Append(f, q.new)
         /\ q.new # W!NoVersion => ~W!Taken(q.new)
  BY <1>1, Zenon DEF W!Commits, Remarked, W!Ids
<1>3. IsVersion(q.new) /\ q.new.status \in VersionStates
      /\ (q.v # 0 => q.status \in VersionStates)
  BY DEF WorkflowIInv, WorkingFits, FitsAs, VersionStates
<1>4. \A v \in DOMAIN versions :
        f[v] = versions[v] \/ \E m \in VersionStates : f[v] = [versions[v] EXCEPT !.status = m]
  <2> SUFFICES ASSUME NEW v \in DOMAIN versions
               PROVE  \/ f[v] = versions[v]
                      \/ \E m \in VersionStates : f[v] = [versions[v] EXCEPT !.status = m]
    OBVIOUS
  <2>1. PICK mark : mark = W!Written(versions[v].status, q.was, q.status)
    OBVIOUS
  <2>2. f[v] = versions[v] \/ (v = q.v /\ f[v] = [versions[v] EXCEPT !.status = mark])
    BY <1>1, <2>1, Zenon DEF Remarked
  <2>3. v = q.v => mark \in VersionStates
    <3>1. v # 0 /\ versions[v].status \in VersionStates
      BY RowsFit DEF RowsKeep, WorkflowBounds, NumbersFit
    <3> QED
      BY <1>3, <2>1, <3>1, WrittenIs
  <2> QED
    BY <2>2, <2>3, Zenon
<1>5. f = [v \in DOMAIN versions |-> f[v]]
  BY <1>1, Zenon DEF Remarked
<1>6. /\ NumbersFit(f) /\ SeqFits(f) /\ DOMAIN f = DOMAIN versions
      /\ \A v \in DOMAIN versions : f[v].no = versions[v].no /\ f[v].gen = versions[v].gen
  BY <1>4, <1>5, RowsNumbered
<1>7. CASE versions' = Append(f, q.new) /\ ~W!Taken(q.new)
  <2>1. \A v \in DOMAIN f : f[v].no # q.new.no \/ f[v].gen # q.new.gen
    BY <1>6, <1>7 DEF W!Taken, W!Ids
  <2>2. NumbersFit(Append(f, q.new))
    BY <1>3, <1>6, <2>1, NumberAdded
  <2> QED
    BY <1>7, <2>2
<1> QED
  BY <1>2, <1>6, <1>7

LEMMA WorkflowWithin ==
  /\ W!Init => WorkflowBounds
  /\ WorkflowIInv /\ WorkflowBounds /\ (W!Next \/ UNCHANGED workflowVars) => WorkflowBounds'
<1>1. W!Init => WorkflowBounds
  BY DEF W!Init, WorkflowBounds, NumbersFit
<1>2. ASSUME WorkflowIInv, WorkflowBounds, W!Next \/ UNCHANGED workflowVars
      PROVE  WorkflowBounds'
  <2>1. resources' \in BOOLEAN /\ (versions' = versions \/ NumbersFit(versions'))
    <3>1. CASE W!SwitchResource \/ W!Crash \/ UNCHANGED workflowVars
      BY <1>2, <3>1 DEF W!SwitchResource, W!Crash, workflowVars, WorkflowBounds
    <3>2. ASSUME NEW r \in Savers,
                 \/ W!EnsureDraft(r) \/ W!Pause(r) \/ W!Reenable(r)
                 \/ W!SaveLoads(r) \/ W!EnableBegins(r)
                 \/ \E v \in W!Ids : W!CreateVersion(r, v) \/ W!Archive(r, v)
          PROVE  UNCHANGED <<resources, versions>>
      BY <3>2, Zenon DEF W!EnsureDraft, W!Pause, W!Reenable, W!SaveLoads, W!EnableBegins,
                         W!CreateVersion, W!Archive, W!Loads
    <3>3. ASSUME NEW f \in Files, W!EditFile(f)
          PROVE  UNCHANGED <<resources, versions>>
      BY <3>3, Zenon DEF W!EditFile
    <3>4. ASSUME NEW p \in publishing,
                 \/ W!Refused(p) \/ W!ReplaceFile(p)
                 \/ \E f \in Files : W!ReadFile(p, f) \/ W!CheckFile(p, f)
          PROVE  UNCHANGED <<resources, versions>>
      BY <3>4, Zenon DEF W!Refused, W!ReplaceFile, W!ReadFile, W!CheckFile
    <3>5. ASSUME NEW q \in working, W!Commits(q)
          PROVE  resources' = resources /\ (versions' = versions \/ NumbersFit(versions'))
      <4>1. resources' = resources
        BY <3>5, Zenon DEF W!Commits
      <4> QED
        BY <1>2, <3>5, <4>1, CommitNumbers
    <3>6. CASE \/ \E s \in saving : W!SaveCommits(s)
               \/ \E p \in publishing : W!EnableCommits(p)
      <4>1. resources' = resources
        BY <3>6, Zenon DEF W!SaveCommits, W!EnableCommits
      <4> QED
        BY <1>2, <3>6, <4>1, RewriteNumbers DEF WorkflowBounds
    <3>7. resources \in BOOLEAN
      BY <1>2 DEF WorkflowBounds
    <3> QED
      BY <1>2, <3>1, <3>2, <3>3, <3>4, <3>5, <3>6, <3>7, Zenon DEF W!Next
  <2> QED
    BY <1>2, <2>1 DEF WorkflowBounds
<1> QED
  BY <1>1, <1>2

-----------------------------------------------------------------------------
(* Types of the answers: whoever listens has a job in the table.           *)

ChatBounds == listening \subseteq C!Busy

LEMMA ChatTypes == ChatIInv /\ ChatBounds => C!TypeOK
<1> SUFFICES ASSUME ChatIInv, ChatBounds PROVE C!TypeOK
  OBVIOUS
<1>1. \A c \in Conversations : answers[c] \in Seq(C!Ended \cup {"running"})
  BY DEF ChatIInv, ChatTyped
<1>2. \A c \in Conversations : \A i \in DOMAIN answers[c] : answers[c][i] \in C!Ended \cup {"running"}
  BY <1>1
<1> QED
  BY <1>2 DEF ChatIInv, ChatTyped, JobsFit, ChatBounds, C!Busy, C!TypeOK

LEMMA CancelledBusy ==
  ASSUME ChatIInv, NEW c \in Conversations
  PROVE  \A d \in Conversations : C!Cancelled(c)[d] = C!NoJob => active[d] = C!NoJob
<1>1. active \in [Conversations -> Jobs]
  BY DEF ChatIInv, ChatTyped
<1>2. CASE active[c].state # "running"
  BY <1>2 DEF C!Cancelled
<1>3. CASE active[c].state = "running"
  <2> DEFINE f == [active EXCEPT ![c].state = "cancelling"]
  <2>1. C!Cancelled(c) = f
    BY <1>3 DEF C!Cancelled
  <2>2. f[c] # C!NoJob /\ \A d \in Conversations : d # c => f[d] = active[d]
    BY <1>1, StateSet
  <2> HIDE DEF f
  <2> QED
    BY <2>1, <2>2
<1> QED
  BY <1>2, <1>3

LEMMA ChatWithin ==
  /\ C!Init => ChatBounds
  /\ ChatIInv /\ ChatBounds /\ [C!Next]_chatVars => ChatBounds'
<1>1. C!Init => ChatBounds
  BY DEF C!Init, ChatBounds
<1>2. ASSUME ChatIInv, ChatBounds, [C!Next]_chatVars PROVE ChatBounds'
  <2>0. /\ active \in [Conversations -> Jobs] /\ listening \subseteq C!Busy
        /\ C!Busy = {c \in Conversations : active[c] # C!NoJob}
    BY <1>2 DEF ChatIInv, ChatTyped, ChatBounds, C!Busy
  <2>1. CASE \/ UNCHANGED chatVars \/ C!Restart
             \/ \E c \in Conversations : C!CreateConversation(c) \/ C!DeleteConversation(c)
    <3>1. listening' = {} \/ UNCHANGED <<active, listening>>
      BY <2>1 DEF chatVars, C!Restart, C!CreateConversation, C!DeleteConversation
    <3> QED
      BY <2>0, <3>1 DEF ChatBounds, C!Busy
  <2>2. ASSUME NEW c \in Conversations, C!SendMessage(c) PROVE ChatBounds'
    <3> DEFINE j == [state |-> "running", message |-> Len(answers[c]) + 1]
    <3>1. active' = [active EXCEPT ![c] = j] /\ listening' = listening \cup {c}
      BY <2>2 DEF C!SendMessage
    <3>2. j # C!NoJob
      BY DEF C!NoJob
    <3> HIDE DEF j
    <3> QED
      BY <2>0, <3>1, <3>2 DEF ChatBounds, C!Busy
  <2>3. ASSUME NEW c \in Conversations, C!Store(c) PROVE ChatBounds'
    BY <2>0, <2>3 DEF C!Store, ChatBounds, C!Busy
  <2>4. ASSUME NEW c \in Conversations, C!TaskEnds(c) PROVE ChatBounds'
    <3>1. PICK x \in C!Ended : active' = [active EXCEPT ![c].state = x]
      BY <2>4 DEF C!TaskEnds
    <3>2. active'[c] # C!NoJob /\ \A d \in Conversations : d # c => active'[d] = active[d]
      BY <2>0, <3>1, StateSet
    <3>3. listening' = listening
      BY <2>4 DEF C!TaskEnds
    <3> QED
      BY <2>0, <3>2, <3>3 DEF ChatBounds, C!Busy
  <2>5. ASSUME NEW c \in Conversations, C!CancelGeneration(c) \/ C!Disconnect(c) PROVE ChatBounds'
    <3>1. active' \in {active, C!Cancelled(c)} /\ listening' \subseteq listening
      BY <2>5 DEF C!CancelGeneration, C!Disconnect
    <3>2. \A d \in Conversations : C!Cancelled(c)[d] = C!NoJob => active[d] = C!NoJob
      BY <1>2, CancelledBusy
    <3> QED
      BY <2>0, <3>1, <3>2 DEF ChatBounds, C!Busy
  <2>6. CASE C!StopAll
    <3>1. /\ active' = [c \in Conversations |->
                          IF active[c].state = "running" THEN C!Cancelled(c)[c] ELSE active[c]]
          /\ listening' = listening
      BY <2>6 DEF C!StopAll
    <3>2. \A c \in Conversations : C!Cancelled(c)[c] = C!NoJob => active[c] = C!NoJob
      BY <1>2, CancelledBusy
    <3> QED
      BY <2>0, <3>1, <3>2 DEF ChatBounds, C!Busy
  <2> QED
    BY <1>2, <2>1, <2>2, <2>3, <2>4, <2>5, <2>6 DEF C!Next
<1> QED
  BY <1>1, <1>2

-----------------------------------------------------------------------------
(* Types of the test cases: an attempt has one thread at most.             *)

CasesBounds ==
  /\ pub \in 1..MaxPub /\ gen.pub \in 0..MaxPub /\ gen.sources \subseteq 1..MaxPub
  /\ task.attempts \in 0..MaxAttempts
  /\ IsFiniteSet(work) /\ Cardinality(work) <= task.attempts
  /\ \A w \in work : w.sources \subseteq 1..MaxPub

LEMMA SameCaseCount == ASSUME NEW set PROVE G!Cardinality(set) = Cardinality(set)
BY Zenon DEF G!Cardinality, Cardinality

LEMMA CasesTypes == CasesIInv /\ CasesBounds => G!TypeOK
<1> SUFFICES ASSUME CasesIInv, CasesBounds PROVE G!TypeOK
  OBVIOUS
<1>1. Cardinality(work) <= MaxAttempts
  <2>1. Cardinality(work) \in Nat /\ MaxAttempts \in Nat
    BY CasesAssumption, FS_CardinalityType DEF CasesBounds
  <2> QED
    BY <2>1 DEF CasesBounds
<1>2. G!Cardinality(work) <= MaxAttempts
  BY <1>1, SameCaseCount
<1> QED
  BY <1>2 DEF CasesIInv, CasesTyped, Generations, CasesBounds, G!TypeOK

\* A thread goes on with sources that are published.
LEMMA CaseGoesWithin ==
  ASSUME CasesIInv, CasesBounds, NEW w \in work, NEW v, G!Goes(w, v),
         v.sources \subseteq 1..MaxPub, UNCHANGED <<pub, task>>,
         gen'.pub = gen.pub, gen'.sources = gen.sources \/ gen'.sources = w.sources
  PROVE  CasesBounds'
<1>1. work' = (work \ {w}) \cup {v}
  BY DEF G!Goes
<1>2. IsFiniteSet(work) /\ Cardinality(work) <= task.attempts /\ task.attempts \in Nat
  BY CasesAssumption DEF CasesBounds
<1>3. /\ IsFiniteSet(work \ {w}) /\ Cardinality(work \ {w}) = Cardinality(work) - 1
      /\ Cardinality(work) \in Nat /\ Cardinality(work \ {w}) \in Nat
  BY <1>2, FS_RemoveElement, FS_CardinalityType
<1>4. /\ IsFiniteSet(work') /\ Cardinality(work') \in {Cardinality(work \ {w}),
                                                       Cardinality(work \ {w}) + 1}
  BY <1>1, <1>3, FS_AddElement
<1>5. Cardinality(work') <= task.attempts
  BY <1>2, <1>3, <1>4
<1>6. \A o \in work' : o.sources \subseteq 1..MaxPub
  BY <1>1 DEF CasesBounds
<1> QED
  BY <1>4, <1>5, <1>6 DEF CasesBounds

\* Threads end.
LEMMA CaseEndsWithin ==
  ASSUME CasesIInv, CasesBounds, work' \subseteq work, UNCHANGED gen, pub' \in 1..MaxPub,
         task'.attempts = task.attempts
  PROVE  CasesBounds'
<1>1. IsFiniteSet(work) /\ Cardinality(work) <= task.attempts /\ task.attempts \in Nat
  BY CasesAssumption DEF CasesBounds
<1>2. IsFiniteSet(work') /\ Cardinality(work') <= Cardinality(work)
  BY <1>1, FS_Subset
<1>3. Cardinality(work') \in Nat /\ Cardinality(work) \in Nat
  BY <1>1, <1>2, FS_CardinalityType
<1>4. Cardinality(work') <= task.attempts
  BY <1>1, <1>2, <1>3
<1> QED
  BY <1>2, <1>4 DEF CasesBounds

LEMMA CaseThreadWithin ==
  ASSUME CasesIInv, CasesBounds, NEW w \in work,
         \/ G!Begin(w) \/ G!Check(w) \/ G!ReadIndex(w) \/ G!CheckAgain(w)
         \/ G!BuildWorkbook(w) \/ G!Save(w) \/ G!Raise(w)
  PROVE  CasesBounds'
<1>1. /\ w \in CaseWorks /\ w.sources \subseteq 1..MaxPub /\ w.sources \in SUBSET Nat
      /\ gen \in Generations /\ book \in Nat /\ pub \in 1..MaxPub
  BY DEF CasesIInv, CasesTyped, CasesBounds, CaseWorks
<1>2. UNCHANGED <<pub, task>>
  BY DEF G!Begin, G!Check, G!ReadIndex, G!CheckAgain, G!BuildWorkbook, G!Save, G!Raise
<1>3. \A a : [w EXCEPT !.at = a].sources = w.sources
  <2> SUFFICES ASSUME NEW a PROVE [w EXCEPT !.at = a].sources = w.sources
    OBVIOUS
  <2>1. [w EXCEPT !.at = a] = CaseWorkOf(w.no, a, w.sources, w.failed)
    BY <1>1, WorkAt
  <2>2. CaseWorkOf(w.no, a, w.sources, w.failed).sources = w.sources
    BY DEF CaseWorkOf
  <2> QED
    BY <2>1, <2>2, Zenon
<1>4. \A m \in {"running", "failed"} :
        [gen EXCEPT !.status = m].pub = gen.pub /\ [gen EXCEPT !.status = m].sources = gen.sources
  BY <1>1, GenMarked
<1>5. CASE G!Begin(w)
  <2> DEFINE a == IF G!Done THEN "ended" ELSE IF gen.revises THEN "asking" ELSE "begun"
             m == "running"
  <2>1. G!Goes(w, [w EXCEPT !.at = a]) /\ (gen' = gen \/ gen' = [gen EXCEPT !.status = m])
    BY <1>5 DEF G!Begin
  <2>2. m \in {"running", "failed"}
    OBVIOUS
  <2> HIDE DEF a, m
  <2>3. PICK v : v = [w EXCEPT !.at = a]
    OBVIOUS
  <2>4. v.sources = w.sources /\ G!Goes(w, v)
    BY <1>3, <2>1, <2>3, Zenon
  <2>5. gen'.pub = gen.pub /\ gen'.sources = gen.sources
    BY <1>4, <2>1, <2>2, Zenon
  <2> QED
    BY <1>1, <1>2, <2>4, <2>5, CaseGoesWithin
<1>6. ASSUME NEW a, G!Goes(w, [w EXCEPT !.at = a]), gen' = gen PROVE CasesBounds'
  <2>1. PICK v : v = [w EXCEPT !.at = a]
    OBVIOUS
  <2>2. v.sources = w.sources /\ G!Goes(w, v)
    BY <1>3, <1>6, <2>1, Zenon
  <2> QED
    BY <1>1, <1>2, <1>6, <2>2, CaseGoesWithin
<1>7. CASE G!Check(w) \/ G!CheckAgain(w) \/ G!BuildWorkbook(w)
  <2>1. /\ \E a \in {"checked", "asking", "built"} : G!Goes(w, [w EXCEPT !.at = a])
        /\ gen' = gen
    BY <1>7, Zenon DEF G!Check, G!CheckAgain, G!BuildWorkbook
  <2> QED
    BY <1>6, <2>1, Zenon
<1>8. CASE G!ReadIndex(w)
  <2> DEFINE a == IF w.at = "checked" THEN "document" ELSE "searched"
             t == w.sources \cup {pub}
  <2>1. PICK v : v = WorkReads(w, a, t)
    OBVIOUS
  <2>2. G!Goes(w, v) /\ gen' = gen
    BY <1>8, <2>1, Zenon DEF G!ReadIndex, WorkReads
  <2>3. t \subseteq 1..MaxPub
    BY <1>1
  <2> HIDE DEF a, t
  <2>4. v = CaseWorkOf(w.no, a, t, w.failed)
    BY <1>1, <2>1, WorkReadsIs
  <2>5. v.sources = t
    BY <2>4 DEF CaseWorkOf
  <2> QED
    BY <1>2, <2>2, <2>3, <2>5, CaseGoesWithin
<1>9. CASE G!Save(w)
  <2> DEFINE a == "ended"  s == w.sources
  <2>1. PICK v : v = [w EXCEPT !.at = a]
    OBVIOUS
  <2>2. G!Goes(w, v) /\ gen' = GenSaved(gen, book, s)
    BY <1>9, <2>1, Zenon DEF G!Save, GenSaved
  <2> HIDE DEF a
  <2>3. v.sources = w.sources
    BY <1>3, <2>1, Zenon
  <2>4. gen' = GenOf("succeeded", gen.pub, gen.revises, book, s)
    BY <1>1, <2>2, GenSavedIs
  <2>5. gen'.pub = gen.pub /\ gen'.sources = w.sources
    BY <2>4 DEF GenOf
  <2> QED
    BY <1>1, <1>2, <2>2, <2>3, <2>5, CaseGoesWithin
<1>10. CASE G!Raise(w)
  <2> DEFINE m == "failed"  yes == TRUE
  <2>1. PICK v : v = WorkRaised(w)
    OBVIOUS
  <2>2. G!Goes(w, v) /\ gen' = [gen EXCEPT !.status = m]
    BY <1>10, <2>1, Zenon DEF G!Raise, WorkRaised
  <2>3. m \in {"running", "failed"}
    OBVIOUS
  <2> HIDE DEF m
  <2>4. v = CaseWorkOf(w.no, "ended", w.sources, yes)
    BY <1>1, <2>1, WorkRaisedIs
  <2> HIDE DEF yes
  <2>5. v.sources = w.sources
    BY <2>4 DEF CaseWorkOf
  <2>6. gen'.pub = gen.pub /\ gen'.sources = gen.sources
    BY <1>4, <2>2, <2>3, Zenon
  <2> QED
    BY <1>1, <1>2, <2>2, <2>5, <2>6, CaseGoesWithin
<1> QED
  BY <1>5, <1>7, <1>8, <1>9, <1>10

LEMMA AttemptsKept ==
  ASSUME NEW t \in CaseTasks, NEW a
  PROVE  /\ [t EXCEPT !.lapsed = FALSE, !.status = a].attempts = t.attempts
         /\ [t EXCEPT !.lapsed = TRUE].attempts = t.attempts
<1> DEFINE Tsk(x, n, l) == [status |-> x, attempts |-> n, lapsed |-> l]
           y == t.status  n == t.attempts  k == t.lapsed  no == FALSE  yes == TRUE
<1>1. t = Tsk(y, n, k)
  BY DEF CaseTasks
<1>2. [t EXCEPT !.lapsed = no] = Tsk(y, n, no) /\ [t EXCEPT !.lapsed = yes] = Tsk(y, n, yes)
  <2> HIDE DEF y, n, k, no, yes
  <2> QED
    BY <1>1
<1>3. [Tsk(y, n, no) EXCEPT !.status = a] = Tsk(a, n, no)
  <2> HIDE DEF y, n, k, no
  <2> QED
    OBVIOUS
<1>4. Tsk(a, n, no).attempts = n /\ Tsk(y, n, yes).attempts = n
  <2> HIDE DEF y, n, k, no, yes
  <2> QED
    OBVIOUS
<1> HIDE DEF Tsk, y, n, k
<1> QED
  BY <1>2, <1>3, <1>4, Zenon DEF no, yes, n

LEMMA CasesWithin ==
  /\ G!Init => CasesBounds
  /\ CasesIInv /\ CasesBounds /\ [G!Next]_caseVars => CasesBounds'
<1>1. G!Init => CasesBounds
  <2>1. IsFiniteSet({}) /\ Cardinality({}) = 0
    BY FS_EmptySet
  <2> QED
    BY <2>1, CasesAssumption DEF G!Init, G!NoTask, CasesBounds
<1>2. ASSUME CasesIInv, CasesBounds, [G!Next]_caseVars PROVE CasesBounds'
  <2>0. task \in CaseTasks /\ pub \in 1..MaxPub
    BY <1>2 DEF CasesIInv, CasesTyped, CasesBounds
  <2>1. CASE UNCHANGED caseVars \/ G!PublishIndex \/ G!Crash
    <3>1. work' \subseteq work /\ UNCHANGED <<gen, task>> /\ pub' \in 1..MaxPub
      BY <1>2, <2>0, <2>1, CasesAssumption DEF caseVars, G!PublishIndex, G!Crash
    <3> QED
      BY <1>2, <3>1, CaseEndsWithin
  <2>2. CASE G!Create
    <3>1. PICK revises \in BOOLEAN :
            gen' = [status |-> "queued", pub |-> pub, revises |-> revises, sum |-> 0,
                    sources |-> {}]
      BY <2>2 DEF G!Create
    <3>2. gen'.pub = pub /\ gen'.sources = {}
      BY <3>1
    <3>3. /\ task' = [G!NoTask EXCEPT !.status = "queued"] /\ UNCHANGED <<pub, work>>
          /\ gen.status = "none"
      BY <2>2 DEF G!Create
    <3>4. work = {}
      BY <1>2, <3>3 DEF CasesIInv, Reads
    <3>5. task'.attempts = 0
      BY <3>3 DEF G!NoTask
    <3>6. IsFiniteSet({}) /\ Cardinality({}) = 0
      BY FS_EmptySet
    <3> QED
      BY <2>0, <3>2, <3>3, <3>4, <3>5, <3>6, CasesAssumption DEF CasesBounds
  <2>3. CASE G!Claim
    <3> DEFINE n == task.attempts + 1
               v == [no |-> n, at |-> "claimed", sources |-> {}, failed |-> FALSE]
    <3>1. /\ task.attempts < MaxAttempts
          /\ task' = [status |-> "running", attempts |-> n, lapsed |-> FALSE]
          /\ work' = work \cup {v} /\ UNCHANGED <<pub, gen>>
      BY <2>3 DEF G!Claim
    <3>2. v.sources = {} /\ task'.attempts = n
      BY <3>1
    <3>3. /\ IsFiniteSet(work) /\ Cardinality(work) <= task.attempts /\ task.attempts \in Nat
          /\ MaxAttempts \in Nat
      BY <1>2, CasesAssumption DEF CasesBounds
    <3> HIDE DEF v, n
    <3>4. /\ IsFiniteSet(work') /\ Cardinality(work') \in {Cardinality(work), Cardinality(work) + 1}
          /\ Cardinality(work) \in Nat
      BY <3>1, <3>3, FS_AddElement, FS_CardinalityType
    <3>5. n \in 0..MaxAttempts /\ Cardinality(work') <= n
      BY <3>1, <3>3, <3>4 DEF n
    <3> QED
      BY <1>2, <3>1, <3>2, <3>4, <3>5 DEF CasesBounds
  <2>4. CASE G!Lapse
    <3>1. work' = work /\ UNCHANGED <<pub, gen>> /\ task' = [task EXCEPT !.lapsed = TRUE]
      BY <2>4 DEF G!Lapse
    <3>2. task'.attempts = task.attempts
      BY <2>0, <3>1, AttemptsKept, Zenon
    <3> QED
      BY <1>2, <2>0, <3>1, <3>2, CaseEndsWithin
  <2>5. ASSUME NEW w \in work, G!Settle(w) PROVE CasesBounds'
    <3> DEFINE a == IF ~w.failed THEN "succeeded"
                    ELSE IF task.attempts >= MaxAttempts THEN "failed" ELSE "queued"
    <3>1. /\ work' \subseteq work /\ UNCHANGED <<pub, gen>>
      BY <2>5 DEF G!Settle
    <3>2. task' = task \/ task' = [task EXCEPT !.lapsed = FALSE, !.status = a]
      BY <2>5, Zenon DEF G!Settle
    <3> HIDE DEF a
    <3>3. task'.attempts = task.attempts
      BY <2>0, <3>2, AttemptsKept, Zenon
    <3> QED
      BY <1>2, <2>0, <3>1, <3>3, CaseEndsWithin
  <2> QED
    BY <1>2, <2>1, <2>2, <2>3, <2>4, <2>5, CaseThreadWithin DEF G!Next
<1> QED
  BY <1>1, <1>2
-----------------------------------------------------------------------------
(* Types of the updates: a request at work is on a confirmation.           *)

LEMMA UpdatesTypes == UpdatesIInv => U!TypeOK
BY DEF UpdatesIInv, UpdatesTyped, OneClaimEach, WorksOn, ConfirmationRows, U!TypeOK

-----------------------------------------------------------------------------
(* Types of the reports: the bounds on verdicts, analyses and versions are *)
(* those of the actions that count them.                                   *)

RunStates == {"running", "awaiting_review", "completed"}
ReportKinds == {"idle", "verdict", "manual", "node", "compare"}
ReportSteps == {"idle", "loading", "loaded", "flushed", "staged", "renamed"}
Verdicts == 0..MaxVerdicts
Analyses == 0..MaxAnalyses
Metrics == Measured \cup {R!NoMetrics}
ReportNumbers == 0..MaxReports
ReportRequests ==
  [kind : ReportKinds, at : ReportSteps, status : RunStates, verdict : Verdicts,
   no : Analyses, value : Metrics, ver : ReportNumbers, shows : Verdicts,
   late : BOOLEAN, raced : BOOLEAN]

RunRows == [status : RunStates, verdict : Verdicts, no : Analyses, value : Metrics]

ReportBounds ==
  /\ run \in RunRows
  /\ comparison.no \in Analyses /\ comparison.value \in Metrics
  /\ DOMAIN dirs \subseteq 1..MaxReports
  /\ writer \in Requests \cup {R!None}
  /\ \A r \in Requests :
       reqs[r] \in ReportRequests /\ (reqs[r].at \in Rendered => reqs[r].ver # 0)

LEMMA ReportsTypes == ReportsIInv /\ ReportBounds => R!TypeOK
<1> SUFFICES ASSUME ReportsIInv, ReportBounds PROVE R!TypeOK
  OBVIOUS
<1>1. DOMAIN rows \subseteq DOMAIN dirs /\ reqs \in [Requests -> ReportRequests]
  <2>1. reqs = [r \in Requests |-> reqs[r]] /\ \A r \in Requests : reqs[r] \in ReportRequests
    BY DEF ReportsIInv, ReportsTyped, ReportBounds
  <2> HIDE DEF ReportRequests
  <2> QED
    BY <2>1 DEF ReportsIInv, ReportsTyped
<1>2. /\ run.status \in RunStates /\ run.verdict \in Verdicts
      /\ run.no \in Analyses /\ run.value \in Metrics
  BY DEF ReportBounds, RunRows
<1> QED
  BY <1>1, <1>2, Zenon DEF ReportBounds, R!TypeOK, ReportRequests, RunStates, ReportKinds, ReportSteps,
     Verdicts, Analyses, Metrics, ReportNumbers

\* A request keeps its type when one of its fields takes a value of its own.
LEMMA IdleWithin == R!Idle \in ReportRequests
BY BoundsAssumption DEF R!Idle, ReportRequests, RunStates, ReportKinds, ReportSteps,
   Verdicts, Analyses, Metrics, ReportNumbers

LEMMA PlaceWithin ==
  ASSUME NEW q \in ReportRequests, NEW a \in ReportSteps
  PROVE  [q EXCEPT !.at = a] \in ReportRequests
BY DEF ReportRequests

LEMMA LateWithin ==
  ASSUME NEW q \in ReportRequests, NEW yes \in BOOLEAN
  PROVE  [q EXCEPT !.late = yes] \in ReportRequests
BY DEF ReportRequests

LEMMA RacedWithin ==
  ASSUME NEW q \in ReportRequests, NEW yes \in BOOLEAN
  PROVE  [q EXCEPT !.raced = yes] \in ReportRequests
BY DEF ReportRequests

LEMMA ReceivedWithin ==
  ASSUME NEW k \in ReportKinds, NEW s \in RunStates, NEW n \in Analyses
  PROVE  Received(k, s, n) \in ReportRequests
<1> DEFINE a == "loading"
<1>1. a \in ReportSteps
  BY DEF ReportSteps
<1>2. Received(k, s, n) = [R!Idle EXCEPT !.kind = k, !.at = a, !.status = s, !.no = n]
  BY Zenon DEF Received
<1>3. PICK q : q = R!Idle
  OBVIOUS
<1>4. q \in ReportRequests
  BY <1>3, IdleWithin, Zenon
<1> HIDE DEF a
<1>5. [q EXCEPT !.kind = k, !.at = a, !.status = s, !.no = n] \in ReportRequests
  BY <1>1, <1>4 DEF ReportRequests
<1> QED
  BY <1>2, <1>3, <1>5, Zenon

LEMMA ProceedsWithin ==
  ASSUME NEW q \in ReportRequests, NEW a \in ReportSteps, NEW v \in Verdicts, NEW x \in Metrics
  PROVE  Proceeds(q, a, v, x) \in ReportRequests
BY DEF ReportRequests, Proceeds

LEMMA FlushesWithin ==
  ASSUME NEW q \in ReportRequests, NEW v \in Verdicts
  PROVE  Flushes(q, v) \in ReportRequests
<1> DEFINE a == "flushed"
<1>1. a \in ReportSteps
  BY DEF ReportSteps
<1>2. Flushes(q, v) = [q EXCEPT !.at = a, !.verdict = v]
  BY Zenon DEF Flushes
<1> HIDE DEF a
<1>3. [q EXCEPT !.at = a, !.verdict = v] \in ReportRequests
  BY <1>1 DEF ReportRequests
<1> QED
  BY <1>2, <1>3, Zenon

LEMMA StagesWithin ==
  ASSUME NEW q \in ReportRequests, NEW e \in ReportNumbers, NEW w \in Verdicts
  PROVE  Stages(q, e, w) \in ReportRequests
<1> DEFINE a == "staged"  no == FALSE
<1>1. a \in ReportSteps /\ no \in BOOLEAN
  BY DEF ReportSteps
<1>2. Stages(q, e, w) = [q EXCEPT !.at = a, !.ver = e, !.shows = w, !.late = no]
  BY Zenon DEF Stages
<1> HIDE DEF a, no
<1>3. [q EXCEPT !.at = a, !.ver = e, !.shows = w, !.late = no] \in ReportRequests
  BY <1>1 DEF ReportRequests
<1> QED
  BY <1>2, <1>3, Zenon

\* The run's row: a new analysis, the review, a verdict.
LEMMA RunWithin ==
  ASSUME NEW x \in RunRows
  PROVE  /\ \A n \in Analyses, v \in Metrics : Analyzed(x, n, v) \in RunRows
         /\ \A s \in RunStates : [x EXCEPT !.status = s] \in RunRows
         /\ \A s \in RunStates, d \in Verdicts : Judged(x, s, d) \in RunRows
<1>1. \A n \in Analyses, v \in Metrics : Analyzed(x, n, v) \in RunRows
  BY DEF RunRows, Analyzed
<1>2. \A s \in RunStates : [x EXCEPT !.status = s] \in RunRows
  BY DEF RunRows
<1>3. \A s \in RunStates, d \in Verdicts : Judged(x, s, d) \in RunRows
  BY DEF RunRows, Judged
<1> QED
  BY <1>1, <1>2, <1>3, Zenon

\* One request goes on; run and directories stay as they are.
LEMMA ReportGoesWithin ==
  ASSUME ReportsIInv, ReportBounds, NEW r \in Requests, NEW y \in ReportRequests,
         y.at \in Rendered => y.ver # 0, R!Goes(r, y), UNCHANGED <<run, dirs>>,
         comparison'.no \in Analyses, comparison'.value \in Metrics,
         writer' \in Requests \cup {R!None}
  PROVE  ReportBounds'
<1>1. reqs = [q \in Requests |-> reqs[q]]
  BY DEF ReportsIInv, ReportsTyped
<1>2. reqs'[r] = y /\ \A q \in Requests : q # r => reqs'[q] = reqs[q]
  BY <1>1 DEF R!Goes
<1>3. \A q \in Requests :
        reqs'[q] \in ReportRequests /\ (reqs'[q].at \in Rendered => reqs'[q].ver # 0)
  BY <1>2 DEF ReportBounds
<1> QED
  BY <1>3 DEF ReportBounds

LEMMA ReportEndsWithin ==
  ASSUME ReportsIInv, ReportBounds, NEW r \in Requests, R!Ends(r), UNCHANGED <<run, dirs>>,
         comparison'.no \in Analyses, comparison'.value \in Metrics
  PROVE  ReportBounds'
<1>1. R!Goes(r, R!Idle) /\ writer' \in {R!None, writer}
  BY DEF R!Ends
<1>2. writer' \in Requests \cup {R!None}
  BY <1>1 DEF ReportBounds
<1>3. R!Idle.at \notin Rendered
  BY IdleIs DEF Rendered
<1> QED
  BY <1>1, <1>2, <1>3, IdleWithin, ReportGoesWithin

LEMMA ReceiveWithin ==
  ASSUME ReportsIInv, ReportBounds, NEW r \in Requests, NEW kind \in ReportKinds,
         R!Receive(r, kind)
  PROVE  ReportBounds'
<1> DEFINE n == IF kind = "compare" THEN run.no ELSE 0
           y == Received(kind, run.status, n)
<1>1. R!Goes(r, y) /\ UNCHANGED <<run, dirs, writer, comparison>>
  BY Zenon DEF R!Receive, Received
<1>2. run.status \in RunStates /\ n \in Analyses
  BY BoundsAssumption DEF ReportBounds, RunRows, Analyses
<1> HIDE DEF n
<1>3. y \in ReportRequests /\ y.at = "loading"
  BY <1>2, ReceivedIs, ReceivedWithin
<1> HIDE DEF y
<1> QED
  BY <1>1, <1>3, ReportGoesWithin DEF Rendered, ReportBounds

LEMMA LoadWithin ==
  ASSUME ReportsIInv, ReportBounds, NEW r \in Requests, R!Load(r)
  PROVE  ReportBounds'
<1> DEFINE a == "loaded"
           x == IF reqs[r].kind = "compare" THEN run.value ELSE R!NoMetrics
           y == Proceeds(reqs[r], a, run.verdict, x)
<1>1. R!Goes(r, y) /\ UNCHANGED <<run, dirs, writer, comparison>>
  BY Zenon DEF R!Load, Proceeds
<1>2. run.verdict \in Verdicts /\ x \in Metrics /\ a \in ReportSteps
  BY DEF ReportBounds, RunRows, Metrics, ReportSteps
<1>3. reqs[r] \in ReportRequests /\ IsReportRequest(reqs[r])
  BY DEF ReportBounds, ReportsIInv, ReportsTyped
<1>4. a \notin Rendered
  BY DEF Rendered
<1> HIDE DEF a, x
<1>5. y \in ReportRequests /\ y.at = a
  BY <1>2, <1>3, ProceedsIs, ProceedsWithin
<1> HIDE DEF y
<1> QED
  BY <1>1, <1>4, <1>5, ReportGoesWithin DEF ReportBounds

LEMMA GiveVerdictWithin ==
  ASSUME ReportsIInv, ReportBounds, NEW r \in Requests, R!GiveVerdict(r)
  PROVE  ReportBounds'
<1> DEFINE y == Flushes(reqs[r], run.verdict + 1)
<1>1. UNCHANGED <<run, dirs, comparison>>
  BY DEF R!GiveVerdict
<1>2. \/ R!Ends(r)
      \/ run.verdict < MaxVerdicts /\ writer' = r /\ R!Goes(r, y)
  BY Zenon DEF R!GiveVerdict, Flushes
<1>3. CASE R!Ends(r)
  BY <1>1, <1>3, ReportEndsWithin DEF ReportBounds
<1>4. CASE run.verdict < MaxVerdicts /\ writer' = r /\ R!Goes(r, y)
  <2>1. run.verdict + 1 \in Verdicts
    BY <1>4, BoundsAssumption DEF ReportBounds, RunRows, Verdicts
  <2>2. reqs[r] \in ReportRequests /\ IsReportRequest(reqs[r])
    BY DEF ReportBounds, ReportsIInv, ReportsTyped
  <2>3. y \in ReportRequests /\ y.at = "flushed"
    BY <2>1, <2>2, FlushesIs, FlushesWithin
  <2> HIDE DEF y
  <2> QED
    BY <1>1, <1>4, <2>3, ReportGoesWithin DEF Rendered, ReportBounds
<1> QED
  BY <1>2, <1>3, <1>4

LEMMA RenderWithin ==
  ASSUME ReportsIInv, ReportBounds, NEW r \in Requests, R!Render(r)
  PROVE  ReportBounds'
<1> DEFINE T == R!Versions \cup {0}
           e == R!Max(T) + 1
           y == Stages(reqs[r], e, R!Shown(reqs[r]))
<1>1. R!Max(T) < MaxReports /\ R!Goes(r, y) /\ UNCHANGED <<run, dirs, writer, comparison>>
  BY Zenon DEF R!Render, Stages
<1>2. T \in SUBSET Nat /\ IsFiniteSet(T) /\ T # {}
  <2>1. R!Versions = DOMAIN dirs
    BY DEF R!Versions, ReportsIInv, ReportsTyped
  <2> QED
    BY <2>1, FS_AddElement DEF ReportsIInv, ReportsTyped
<1>3. R!Max(T) \in Nat
  <2> HIDE DEF T
  <2> QED
    BY <1>2, MaxHolds
<1> DEFINE m == R!Max(T)
<1> HIDE DEF T
<1>4. e \in ReportNumbers /\ e # 0
  <2>1. m \in Nat /\ m < MaxReports
    BY <1>1, <1>3
  <2> HIDE DEF m
  <2>2. m + 1 \in 0..MaxReports /\ m + 1 # 0
    BY <2>1, BoundsAssumption
  <2> QED
    BY <2>2 DEF m, ReportNumbers
<1>5. reqs[r] \in ReportRequests /\ IsReportRequest(reqs[r])
  BY DEF ReportBounds, ReportsIInv, ReportsTyped
<1>6. R!Shown(reqs[r]) \in Verdicts
  BY <1>5 DEF ReportRequests, R!Shown
<1> HIDE DEF e
<1>7. y \in ReportRequests /\ y.ver = e
  BY <1>4, <1>5, <1>6, StagesIs, StagesWithin
<1> HIDE DEF y
<1> QED
  BY <1>1, <1>4, <1>7, ReportGoesWithin DEF ReportBounds

\* What a step marks on the requests of the others.
LEMMA OthersMarked ==
  ASSUME ReportBounds, NEW q \in Requests
  PROVE  /\ reqs[q] \in ReportRequests /\ (reqs[q].at \in Rendered => reqs[q].ver # 0)
         /\ LET y == [reqs[q] EXCEPT !.late = TRUE]
            IN  y \in ReportRequests /\ y.at = reqs[q].at /\ y.ver = reqs[q].ver
         /\ LET y == [reqs[q] EXCEPT !.raced = TRUE]
            IN  y \in ReportRequests /\ y.at = reqs[q].at /\ y.ver = reqs[q].ver
<1> DEFINE yes == TRUE
<1>1. PICK z : z = reqs[q]
  OBVIOUS
<1>2. z \in ReportRequests /\ (z.at \in Rendered => z.ver # 0) /\ yes \in BOOLEAN
  BY <1>1 DEF ReportBounds
<1> HIDE DEF yes
<1>3. /\ [z EXCEPT !.late = yes] \in ReportRequests
      /\ [z EXCEPT !.late = yes].at = z.at /\ [z EXCEPT !.late = yes].ver = z.ver
  BY <1>2 DEF ReportRequests
<1>4. /\ [z EXCEPT !.raced = yes] \in ReportRequests
      /\ [z EXCEPT !.raced = yes].at = z.at /\ [z EXCEPT !.raced = yes].ver = z.ver
  BY <1>2 DEF ReportRequests
<1> QED
  BY <1>1, <1>2, <1>3, <1>4, Zenon DEF yes

LEMMA PublishWithin ==
  ASSUME ReportsIInv, ReportBounds, NEW r \in Requests, R!Publish(r)
  PROVE  ReportBounds'
<1> DEFINE old == reqs[r]
<1>1. UNCHANGED <<run, comparison>> /\ old.at = "staged"
  BY DEF R!Publish
<1>2. CASE R!Collides(old)
  BY <1>1, <1>2, ReportEndsWithin DEF R!Publish, ReportBounds
<1>3. CASE ~R!Collides(old)
  <2> DEFINE e == old.ver  x == [by |-> r, shows |-> old.shows]
  <2>1. /\ dirs' = [v \in DOMAIN dirs \cup {e} |-> IF v = e THEN x ELSE dirs[v]]
        /\ reqs' = [q \in Requests |->
             IF q = r THEN [old EXCEPT !.at = "renamed"]
             ELSE IF reqs[q].at = "staged" THEN [reqs[q] EXCEPT !.late = TRUE] ELSE reqs[q]]
        /\ UNCHANGED writer
    BY <1>3, Zenon DEF R!Publish
  <2>2. old \in ReportRequests /\ IsReportRequest(old) /\ e # 0
    BY <1>1 DEF ReportBounds, ReportsIInv, ReportsTyped, Rendered
  <2>3. e \in 1..MaxReports
    BY <2>2, BoundsAssumption DEF ReportRequests, ReportNumbers
  <2> HIDE DEF x
  <2>4. DOMAIN dirs' \subseteq 1..MaxReports
    BY <2>1, <2>3 DEF ReportBounds
  <2>5. reqs'[r] \in ReportRequests /\ reqs'[r].ver # 0
    <3> DEFINE y == [old EXCEPT !.at = "renamed"]
    <3>1. reqs'[r] = y
      BY <2>1
    <3>2. "renamed" \in ReportSteps
      BY DEF ReportSteps
    <3>3. y \in ReportRequests /\ y.ver = e
      BY <2>2, <3>2, PlaceIs, PlaceWithin
    <3> HIDE DEF y, old
    <3> QED
      BY <2>2, <3>1, <3>3
  <2>6. ASSUME NEW q \in Requests, q # r
        PROVE  reqs'[q] \in ReportRequests /\ (reqs'[q].at \in Rendered => reqs'[q].ver # 0)
    <3> DEFINE z == reqs[q]  y == [z EXCEPT !.late = TRUE]
    <3>1. reqs'[q] = IF z.at = "staged" THEN y ELSE z
      BY <2>1, <2>6
    <3>2. /\ z \in ReportRequests /\ (z.at \in Rendered => z.ver # 0)
          /\ y \in ReportRequests /\ y.at = z.at /\ y.ver = z.ver
      BY OthersMarked
    <3> HIDE DEF y, z
    <3> QED
      BY <3>1, <3>2
  <2> QED
    BY <1>1, <2>1, <2>4, <2>5, <2>6 DEF ReportBounds
<1> QED
  BY <1>2, <1>3

LEMMA RecordWithin ==
  ASSUME ReportsIInv, ReportBounds, NEW r \in Requests, R!Record(r)
  PROVE  ReportBounds'
<1> DEFINE old == reqs[r]
<1>1. UNCHANGED <<dirs, comparison>> /\ writer' = R!None
  BY DEF R!Record
<1>2. R!Idle \in ReportRequests /\ R!Idle.at \notin Rendered
  BY IdleIs, IdleWithin DEF Rendered
<1>3. CASE old.kind = "verdict"
  <2>1. /\ run' = [run EXCEPT !.status = "completed", !.verdict = old.verdict]
        /\ reqs' = [q \in Requests |->
             IF q = r THEN R!Idle
             ELSE IF reqs[q].at \notin {"idle", "loading"}
               THEN [reqs[q] EXCEPT !.raced = TRUE] ELSE reqs[q]]
    BY <1>3, Zenon DEF R!Record
  <2>2. run' \in RunRows
    <3> DEFINE mark == "completed"  d == old.verdict
    <3>1. mark \in RunStates /\ run \in RunRows
      BY DEF RunStates, ReportBounds
    <3>2. d \in Verdicts
      BY DEF ReportBounds, ReportRequests
    <3>3. run' = Judged(run, mark, d)
      BY <2>1, Zenon DEF Judged
    <3> HIDE DEF mark, d
    <3> QED
      BY <3>1, <3>2, <3>3, RunWithin
  <2>3. ASSUME NEW q \in Requests
        PROVE  reqs'[q] \in ReportRequests /\ (reqs'[q].at \in Rendered => reqs'[q].ver # 0)
    <3> DEFINE z == reqs[q]  y == [z EXCEPT !.raced = TRUE]
    <3>1. reqs'[q] = IF q = r THEN R!Idle ELSE IF z.at \notin {"idle", "loading"} THEN y ELSE z
      BY <2>1
    <3>2. /\ z \in ReportRequests /\ (z.at \in Rendered => z.ver # 0)
          /\ y \in ReportRequests /\ y.at = z.at /\ y.ver = z.ver
      BY OthersMarked
    <3> HIDE DEF y, z
    <3> QED
      BY <1>2, <3>1, <3>2
  <2> QED
    BY <1>1, <2>2, <2>3 DEF ReportBounds
<1>4. CASE old.kind # "verdict"
  <2>1. R!Goes(r, R!Idle) /\ run' = run
    BY <1>4 DEF R!Record
  <2> QED
    BY <1>1, <1>2, <2>1, ReportGoesWithin DEF ReportBounds
<1> QED
  BY <1>3, <1>4

LEMMA CompareWithin ==
  ASSUME ReportsIInv, ReportBounds, NEW r \in Requests, R!Compare(r)
  PROVE  ReportBounds'
<1> DEFINE q == reqs[r]
<1>1. R!Ends(r) /\ UNCHANGED <<run, dirs>> /\ (UNCHANGED comparison \/ comparison' = R!Saved(q))
  BY DEF R!Compare
<1>2. comparison'.no \in Analyses /\ comparison'.value \in Metrics
  <2>1. CASE UNCHANGED comparison
    BY <2>1 DEF ReportBounds
  <2>2. CASE comparison' = R!Saved(q)
    <3> DEFINE judged == R!ComparisonRows(q.value, BaselineRun.metrics)
               fits == R!Compatible(judged)
    <3>1. q.no \in Analyses /\ q.value \in Metrics
      BY DEF ReportBounds, ReportRequests
    <3>2. comparison' = [no |-> q.no, value |-> q.value, judged |-> judged, compatible |-> fits]
      BY <2>2, Zenon DEF R!Saved
    <3> HIDE DEF judged, fits, q
    <3>3. comparison'.no = q.no /\ comparison'.value = q.value
      BY <3>2
    <3> QED
      BY <3>1, <3>3
  <2> QED
    BY <1>1, <2>1, <2>2
<1> QED
  BY <1>1, <1>2, ReportEndsWithin

LEMMA RunGoesWithin ==
  ASSUME ReportBounds, R!AwaitReview \/ \E measured \in Measured : R!Analyze(measured)
  PROVE  ReportBounds'
<1>1. run \in RunRows /\ UNCHANGED <<comparison, dirs, writer, reqs>>
  <2>1. UNCHANGED <<comparison, dirs, writer, reqs>>
    BY Zenon DEF R!AwaitReview, R!Analyze
  <2> QED
    BY <2>1, Zenon DEF ReportBounds
<1>2. CASE R!AwaitReview
  <2>1. run' = [run EXCEPT !.status = "awaiting_review"] /\ "awaiting_review" \in RunStates
    BY <1>2, Zenon DEF R!AwaitReview, RunStates
  <2> QED
    BY <1>1, <2>1, RunWithin DEF ReportBounds
<1>3. ASSUME NEW measured \in Measured, R!Analyze(measured)
      PROVE  ReportBounds'
  <2>1. run' = Analyzed(run, run.no + 1, measured) /\ run.no < MaxAnalyses
    BY <1>3, Zenon DEF R!Analyze, Analyzed
  <2>2. run.no + 1 \in Analyses /\ measured \in Metrics
    BY <1>1, <2>1, BoundsAssumption DEF RunRows, Analyses, Metrics
  <2> QED
    BY <1>1, <2>1, <2>2, RunWithin DEF ReportBounds
<1> QED
  BY <1>2, <1>3

LEMMA ReportsWithin ==
  /\ R!Init => ReportBounds
  /\ ReportsIInv /\ ReportBounds /\ [R!Next]_reportVars => ReportBounds'
<1>1. 0 \in Verdicts /\ 0 \in Analyses /\ R!NoMetrics \in Metrics /\ "running" \in RunStates
  BY BoundsAssumption DEF Verdicts, Analyses, Metrics, RunStates
<1>2. R!Idle \in ReportRequests /\ R!Idle.at \notin Rendered
  BY IdleIs, IdleWithin DEF Rendered
<1>3. R!NoComparison.no = 0 /\ R!NoComparison.value = R!NoMetrics
  <2> DEFINE m == R!NoMetrics  no == FALSE
  <2>1. R!NoComparison = [no |-> 0, value |-> m, judged |-> m, compatible |-> no]
    BY DEF R!NoComparison
  <2> HIDE DEF m, no
  <2>2. R!NoComparison.no = 0 /\ R!NoComparison.value = m
    BY <2>1
  <2> QED
    BY <2>2 DEF m
<1>4. ASSUME R!Init PROVE ReportBounds
  <2>1. run \in RunRows
    <3> DEFINE on == "running"  m == R!NoMetrics
    <3>1. run = [status |-> on, verdict |-> 0, no |-> 0, value |-> m]
      BY <1>4 DEF R!Init
    <3>2. on \in RunStates /\ m \in Metrics
      BY <1>1
    <3> HIDE DEF on, m
    <3> QED
      BY <1>1, <3>1, <3>2 DEF RunRows
  <2>2. comparison = R!NoComparison /\ DOMAIN dirs = {} /\ writer = R!None
        /\ \A r \in Requests : reqs[r] = R!Idle
    BY <1>4 DEF R!Init
  <2> QED
    BY <1>1, <1>2, <1>3, <2>1, <2>2 DEF ReportBounds
<1>5. ASSUME ReportsIInv, ReportBounds, [R!Next]_reportVars PROVE ReportBounds'
  <2>1. CASE UNCHANGED reportVars
    BY <1>5, <2>1 DEF reportVars, ReportBounds
  <2>2. CASE R!AwaitReview \/ \E measured \in Measured : R!Analyze(measured)
    BY <1>5, <2>2, RunGoesWithin
  <2>3. CASE R!DropComparison
    BY <1>1, <1>3, <1>5, <2>3 DEF R!DropComparison, ReportBounds
  <2>4. CASE R!Crash
    <3>1. (\A r \in Requests : reqs'[r] = R!Idle) /\ writer' = R!None
          /\ UNCHANGED <<run, comparison, dirs>>
      BY <2>4 DEF R!Crash
    <3> QED
      BY <1>2, <1>5, <3>1 DEF ReportBounds
  <2>5. ASSUME NEW r \in Requests, R!Step(r) PROVE ReportBounds'
    <3>1. CASE \E kind \in {"verdict", "manual", "node", "compare"} : R!Receive(r, kind)
      BY <1>5, <3>1, ReceiveWithin DEF ReportKinds
    <3>2. CASE R!Load(r) \/ R!GiveVerdict(r) \/ R!Render(r) \/ R!Compare(r)
      BY <1>5, <3>2, LoadWithin, GiveVerdictWithin, RenderWithin, CompareWithin
    <3>3. CASE R!Publish(r) \/ R!Record(r)
      BY <1>5, <3>3, PublishWithin, RecordWithin
    <3>4. CASE R!Fails(r)
      BY <1>5, <3>4, ReportEndsWithin DEF R!Fails, ReportBounds
    <3> QED
      BY <2>5, <3>1, <3>2, <3>3, <3>4 DEF R!Step
  <2> QED
    BY <1>5, <2>1, <2>2, <2>3, <2>4, <2>5 DEF R!Next
<1> QED
  BY <1>4, <1>5

-----------------------------------------------------------------------------
(* Types of all parts: each keeps its invariant and its bounds, its own    *)
(* steps as well as those of the others.                                   *)

ServicesIInv ==
  /\ part \in {"log", "index", "workflow", "chat", "cases", "reports", "updates"}
  /\ LogIInv /\ LogBounds
  /\ IndexIInv /\ IndexBounds
  /\ part = "workflow" => WorkflowIInv /\ WorkflowBounds
  /\ ChatIInv /\ ChatBounds
  /\ CasesIInv /\ CasesBounds
  /\ ReportsIInv /\ ReportBounds
  /\ UpdatesIInv

\* The variables of the seven parts have their types, and the counters their bounds: queue and
\* batch of the log writer, attempts and publications, jobs and listeners, the versions of
\* workflows and reports, verdicts and analyses, the confirmations that requests work on.
THEOREM ServicesTyped == ServicesSpec => []TypesOK
<1>1. ServicesInit => ServicesIInv
  BY LogStarts, LogBounded, IndexStarts, IndexWithin, WorkflowStarts, WorkflowWithin,
     ChatStarts, ChatWithin, CasesStart, CasesWithin, ReportsStart, ReportsWithin,
     UpdatesStart, UpdatesAssumption DEF ServicesInit, ServicesIInv
<1>2. ServicesIInv /\ [ServicesNext]_servicesVars => ServicesIInv'
  <2> SUFFICES ASSUME ServicesIInv, [ServicesNext]_servicesVars
               PROVE  ServicesIInv'
    OBVIOUS
  <2>1. /\ [Next]_vars /\ [K!Next]_indexVars /\ [C!Next]_chatVars /\ [G!Next]_caseVars
        /\ [R!Next]_reportVars /\ [U!Next]_(U!vars)
        /\ part' = part /\ (part = "workflow" => W!Next \/ UNCHANGED workflowVars)
    BY DEF ServicesNext, RunLog, RunIndex, RunWorkflow, RunChat, RunCases, RunReports, RunUpdates,
           servicesVars, updateVars, U!vars
  <2>2. LogIInv' /\ LogBounds'
    BY <2>1, LogKept, LogBounded DEF ServicesIInv
  <2>3. IndexIInv' /\ IndexBounds'
    BY <2>1, IndexKept, IndexWithin DEF ServicesIInv
  <2>4. part = "workflow" => WorkflowIInv' /\ WorkflowBounds'
    BY <2>1, WorkflowKept, WorkflowStutters, WorkflowWithin DEF ServicesIInv
  <2>5. ChatIInv' /\ ChatBounds'
    BY <2>1, ChatKept, ChatWithin DEF ServicesIInv
  <2>6. CasesIInv' /\ CasesBounds'
    BY <2>1, CasesKept, CasesWithin DEF ServicesIInv
  <2>7. ReportsIInv' /\ ReportBounds'
    BY <2>1, ReportsKept, ReportsWithin DEF ServicesIInv
  <2>8. UpdatesIInv'
    BY <2>1, UpdatesKept DEF ServicesIInv
  <2> QED
    BY <2>1, <2>2, <2>3, <2>4, <2>5, <2>6, <2>7, <2>8 DEF ServicesIInv
<1>3. ServicesIInv => TypesOK
  BY LogTypes, IndexTypes, WorkflowTypes, ChatTypes, CasesTypes, ReportsTypes, UpdatesTypes
     DEF ServicesIInv, TypesOK
<1> QED
  BY <1>1, <1>2, <1>3, PTL DEF ServicesSpec
=============================================================================
