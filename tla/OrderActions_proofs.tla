------------------------ MODULE OrderActions_proofs ------------------------
(***************************************************************************)
(* OrderActions for any number of actions, retries and crashes and for     *)
(* every length of the history.                                            *)
(*                                                                         *)
(* The argument: the histories that are stored or held by a request name   *)
(* each action once and, but for actions that were dispatched beside       *)
(* another request, all of the newest ones; trimming such a history keeps  *)
(* the newest.  What a request may write to the run it must have compared  *)
(* with the version, so it finds the run in the status its guard asked     *)
(* for.  While an action is being sent and nobody has overridden it, the   *)
(* step's action is unresolved or the step no longer waits: no other       *)
(* action passes the guard.                                                *)
(***************************************************************************)
EXTENDS OrderActions, FiniteSetTheorems, TLAPS

Entries == [id : Ids, result : Results]
Names(h) == {e.id : e \in h}
OncePerId(h) == \A e, f \in h : e.id = f.id => e = f

-----------------------------------------------------------------------------
(* Histories *)

LEMMA EntriesFinite == IsFiniteSet(Entries)
<1> DEFINE Pairs == Ids \X Results
           pair == [e \in Entries |-> <<e.id, e.result>>]
<1>1. MaxSends \in Nat
  BY BoundsAssumption
<1>2. IsFiniteSet(Ids)
  BY <1>1, FS_Interval DEF Ids
<1>3. IsFiniteSet(Results)
  <2>1. IsFiniteSet({"dispatching"})
    BY FS_Singleton
  <2>2. IsFiniteSet({"dispatching"} \cup {"unknown"})
    BY <2>1, FS_AddElement
  <2>3. IsFiniteSet(({"dispatching"} \cup {"unknown"}) \cup {"dispatched"})
    BY <2>2, FS_AddElement
  <2>4. Results = ({"dispatching"} \cup {"unknown"}) \cup {"dispatched"}
    BY DEF Results
  <2> QED
    BY <2>3, <2>4
<1>4. IsFiniteSet(Pairs)
  BY <1>2, <1>3, FS_Product
<1>5. pair \in Injection(Entries, Pairs)
  BY DEF Entries, Injection, IsInjective
<1> HIDE DEF pair, Pairs
<1> QED
  BY <1>4, <1>5, FS_Injection

\* The oldest entry that is kept counts all that are kept, and they are few enough.
LEMMA TrimmedIsShort ==
  ASSUME NEW h \in SUBSET Entries
  PROVE  /\ Trimmed(h) \in SUBSET h
         /\ Cardinality(Trimmed(h)) <= HistoryLimit
<1> DEFINE T == Trimmed(h)
<1>1. T \in SUBSET h
  BY DEF Trimmed
<1>2. CASE T = {}
  <2>1. Cardinality(T) = 0 /\ HistoryLimit \in Nat
    BY <1>2, FS_EmptySet, BoundsAssumption
  <2> QED
    BY <1>1, <2>1
<1>3. CASE T # {}
  <2>1. Names(T) \subseteq Nat /\ Names(T) # {}
    BY <1>1, <1>3 DEF Names, Entries, Ids
  <2>2. PICK n \in Names(T) : \A m \in Names(T) : ~(<<m, n>> \in OpToRel(<, Nat))
    BY <2>1, WFMin, NatLessThanWellFounded
  <2>3. \A m \in Names(T) : m >= n
    <3> HIDE DEF T
    <3>1. n \in Nat /\ \A m \in Names(T) : m \in Nat
      BY <2>1, <2>2
    <3>2. \A m \in Names(T) : ~(m < n)
      BY <2>2, <3>1 DEF OpToRel
    <3> QED
      BY <3>1, <3>2
  <2>4. PICK e \in T : e.id = n
    BY <2>2 DEF Names
  <2> DEFINE Newer == {f \in h : f.id >= e.id}
  <2>5. Cardinality(Newer) <= HistoryLimit
    BY <2>4 DEF Trimmed
  <2>6. T \in SUBSET Newer
    BY <1>1, <2>3, <2>4 DEF Names
  <2>7. IsFiniteSet(Newer)
    BY EntriesFinite, FS_Subset
  <2>8. Cardinality(T) <= Cardinality(Newer) /\ Cardinality(T) \in Nat /\ Cardinality(Newer) \in Nat
    BY <2>6, <2>7, FS_Subset, FS_CardinalityType
  <2> HIDE DEF T, Newer
  <2>9. Cardinality(T) <= HistoryLimit
    BY <2>5, <2>8, BoundsAssumption
  <2> QED
    BY <1>1, <2>9 DEF T
<1> QED
  BY <1>2, <1>3

\* One of the newest HistoryLimit actions is kept if it was there.
LEMMA TrimmedKeepsNewest ==
  ASSUME NEW h \in SUBSET Entries, OncePerId(h), NEW n \in Nat,
         \A e \in h : e.id <= n, NEW e \in h, e.id + HistoryLimit > n
  PROVE  e \in Trimmed(h)
<1> DEFINE Newer == {f \in h : f.id >= e.id}
           name == [f \in Newer |-> f.id]
<1>1. e.id \in Nat /\ e.id <= n
  BY DEF Entries, Ids
<1>2. name \in Injection(Newer, e.id..n)
  <2>1. \A f \in Newer : f \in h /\ f.id \in e.id..n
    BY <1>1 DEF Entries, Ids
  <2>2. name \in [Newer -> e.id..n]
    BY <2>1
  <2>3. IsInjective(name)
    BY <2>1 DEF IsInjective, OncePerId
  <2> QED
    BY <2>2, <2>3 DEF Injection
<1>3. IsFiniteSet(e.id..n) /\ Cardinality(e.id..n) = n - e.id + 1
  <2>1. e.id \in Int /\ n \in Int /\ ~(e.id > n)
    BY <1>1
  <2> QED
    BY <2>1, FS_Interval
<1> HIDE DEF name
<1>4. IsFiniteSet(Newer) /\ Cardinality(Newer) <= Cardinality(e.id..n)
  BY <1>2, <1>3, FS_Injection
<1>5. Cardinality(Newer) \in Nat
  BY <1>4, FS_CardinalityType
<1> HIDE DEF Newer
<1>6. Cardinality(Newer) <= HistoryLimit
  <2>1. Cardinality(Newer) <= n - e.id + 1
    BY <1>3, <1>4
  <2>2. HistoryLimit \in Nat /\ n - e.id + 1 <= HistoryLimit
    BY <1>1, BoundsAssumption
  <2> QED
    BY <1>1, <1>5, <2>1, <2>2
<1> QED
  BY <1>6 DEF Trimmed, Newer

\* m is h with other results.
Marks(m, h) ==
  /\ m \in SUBSET Entries
  /\ Names(m) = Names(h)
  /\ OncePerId(h) => OncePerId(m)

LEMMA NotedMarks ==
  ASSUME NEW h \in SUBSET Entries, NEW id, NEW result \in Results
  PROVE  Marks(Noted(h, id, result), h)
<1> DEFINE note(e) == IF e.id = id THEN [e EXCEPT !.result = result] ELSE e
<1>1. \A e \in h : note(e) \in Entries /\ note(e).id = e.id
  BY DEF Entries
<1>2. Noted(h, id, result) = {note(e) : e \in h}
  BY DEF Noted
<1>3. \A e, f \in h : e = f => note(e) = note(f)
  OBVIOUS
<1> HIDE DEF note
<1> QED
  BY <1>1, <1>2, <1>3 DEF Marks, Names, OncePerId

LEMMA ConfirmedMarks ==
  ASSUME NEW h \in SUBSET Entries, NEW S
  PROVE  Marks({IF e \in S THEN [e EXCEPT !.result = "dispatched"] ELSE e : e \in h}, h)
<1> DEFINE note(e) == IF e \in S THEN [e EXCEPT !.result = "dispatched"] ELSE e
<1>1. \A e \in h : note(e) \in Entries /\ note(e).id = e.id
  BY DEF Entries, Results
<1>2. \A e, f \in h : e = f => note(e) = note(f)
  OBVIOUS
<1>3. Marks({note(e) : e \in h}, h)
  <2> HIDE DEF note
  <2> QED
    BY <1>1, <1>2 DEF Marks, Names, OncePerId
<1> QED
  BY <1>3

-----------------------------------------------------------------------------
(* The inductive invariant *)

\* Of the actions 1..n, the newest HistoryLimit that are not in crowd are in h.
Holds(h, n, crowd) ==
  \A id \in 1..n : id \notin crowd /\ id + HistoryLimit > n => id \in Names(h)

GoodFor(h, n, crowd) ==
  /\ h \in SUBSET Entries /\ Cardinality(h) <= HistoryLimit
  /\ OncePerId(h) /\ (\A e \in h : e.id <= n) /\ Holds(h, n, crowd)

Good(h) == GoodFor(h, sent, crowded)

Histories == Good(summary.history) /\ \A s \in sessions : Good(s.summary.history)

\* The run and its step agree.
Agrees ==
  /\ run.status = "awaiting_step_completion" => step = "waiting"
  /\ run.status = "running" => step = "running"
  /\ run.status = "awaiting_step_retry" => step = "failed"
  /\ step = "succeeded" => run.status \in {"awaiting_step_start", "cancelled", "timed_out"}
  /\ step = "cancelled" => Ended

\* A session with the run's version finds the run as its guard wanted it.
Guarded(s) ==
  /\ s.version <= run.version
  /\ s.op = "cleanup" => Ended
  /\ Fresh(s) =>
       /\ s.op \in {"complete", "retry"} => run.status = "awaiting_step_completion"
       /\ s.op = "retry" => retries < MaxRetries
       /\ s.op = "launch" => run.status = "running"
       /\ s.op = "cancel" => ~Ended
Places == Agrees /\ \A s \in sessions : Guarded(s)

\* An action that is being sent was given its id, and one session sends it.
Sends ==
  /\ remote \subseteq 1..sent
  /\ \A s \in sessions : s.op = "send" => s.id \in remote
  /\ \A s, t \in sessions : s.op = "send" /\ t.op = "send" /\ s.id = t.id => s = t

\* While one is being sent its step admits no other, or is past its actions.
Alone ==
  ~overridden =>
    /\ \A a, b \in remote : a = b
    /\ remote # {} =>
         \/ Waiting /\ summary.action \in Unresolved
         \/ run.status \in {"awaiting_step_start", "cancelled", "timed_out"}

IInv == TypeOK /\ Histories /\ Places /\ Sends /\ Alone


-----------------------------------------------------------------------------
(* The types *)

Ops == {"send", "confirm", "complete", "retry", "cancel", "launch", "cleanup"}
SessionRecords == [op : Ops, id : 0..MaxSends, version : Nat, summary : Summaries]

\* The summary s with the action's status a and the history g.
Resolved(s, a, g) == [s EXCEPT !.action = a, !.history = g]

LEMMA ResolvedType ==
  ASSUME NEW s \in Summaries, NEW a \in Results, NEW g \in SUBSET Entries
  PROVE  /\ Resolved(s, a, g) \in Summaries
         /\ Resolved(s, a, g).history = g /\ Resolved(s, a, g).action = a
BY DEF Summaries, Entries, Resolved

LEMMA SessionSet ==
  ASSUME NEW s \in Summaries, NEW o \in {"closed", "cleanup_failed"}
  PROVE  LET t == [s EXCEPT !.session = o]
         IN t \in Summaries /\ t.history = s.history /\ t.action = s.action
BY DEF Summaries

LEMMA SessionTypes ==
  ASSUME TypeOK, NEW s \in sessions
  PROVE  /\ s.op \in Ops /\ s.id \in 0..MaxSends /\ s.version \in Nat /\ s.summary \in Summaries
         /\ s.summary.history \in SUBSET Entries
BY DEF TypeOK, Ops, Summaries, Entries

\* The requests that have loaded the step and not yet written.
Answers(s) ==
  \/ SendEnds(s) \/ Confirm(s) \/ Complete(s) \/ Retry(s) \/ CancelRun(s)
  \/ CleanupFails(s) \/ Launched(s) \/ LaunchFails(s) \/ Cleanup(s)
Asks == AskConfirm \/ AskComplete \/ AskRetry \/ AskCancel \/ Launch

LEMMA NextIs ==
  ASSUME [Next]_vars
  PROVE  \/ Dispatch \/ Asks \/ CancelNow \/ ConfirmStep \/ RetryFailed \/ Expire \/ Crash
         \/ (\E s \in sessions : Answers(s)) \/ UNCHANGED vars
BY DEF Next, Answers, Asks

LEMMA AsksOpen ==
  ASSUME Asks
  PROVE  \E op \in Ops \ {"send", "cleanup"} :
           /\ Opens(op)
           /\ op \in {"complete", "retry"} => run.status = "awaiting_step_completion"
           /\ op = "retry" => retries < MaxRetries
           /\ op = "launch" => run.status = "running"
           /\ op = "cancel" => ~Ended
BY DEF Asks, AskConfirm, AskComplete, AskRetry, AskCancel, Launch, Ops, Waiting

\* g is h, or a trimmed history with the names of h.
Follows(g, h) == g = h \/ \E m : Marks(m, h) /\ g = Trimmed(m)

\* But for a dispatch, what is stored and what is held follows what was there.
SummaryMoves ==
  /\ sent' = sent /\ crowded' = crowded
  /\ summary' \in Summaries
  /\ \/ summary' = summary
     \/ \E s \in sessions : Follows(summary'.history, s.summary.history)
  /\ \A s \in sessions' : s.summary = summary \/ \E t \in sessions : s.summary = t.summary

LEMMA AnswersMove ==
  ASSUME TypeOK, NEW s \in sessions, Answers(s)
  PROVE  SummaryMoves
<1>0. /\ s.summary \in Summaries /\ s.summary.history \in SUBSET Entries
      /\ summary \in Summaries
  BY SessionTypes DEF TypeOK
<1>1. sent' = sent /\ crowded' = crowded /\ sessions' \subseteq sessions
  BY DEF Answers, SendEnds, Confirm, Complete, Retry, CancelRun, CleanupFails, Launched,
         LaunchFails, Cleanup
<1>2. CASE SendEnds(s)
  <2>1. PICK result \in {"dispatched", "unknown"} :
          summary' = Resolved(s.summary, result,
                              Trimmed(Noted(s.summary.history, s.id, result)))
    BY <1>2 DEF SendEnds, Resolved
  <2> DEFINE m == Noted(s.summary.history, s.id, result)
  <2>2. Marks(m, s.summary.history)
    BY <1>0, NotedMarks DEF Results
  <2>5. summary' = Resolved(s.summary, result, Trimmed(m))
    BY <2>1
  <2> HIDE DEF m
  <2>3. Trimmed(m) \in SUBSET Entries
    BY <2>2 DEF Marks, Trimmed
  <2>4. summary' \in Summaries /\ summary'.history = Trimmed(m)
    <3>1. result \in Results
      BY DEF Results
    <3> QED
      BY <1>0, <2>5, <2>3, <3>1, ResolvedType
  <2> QED
    BY <1>1, <2>2, <2>4 DEF SummaryMoves, Follows
<1>3. CASE Confirm(s)
  <2> DEFINE S == LastUnresolved(s.summary.history)
             m == {IF e \in S THEN [e EXCEPT !.result = "dispatched"] ELSE e :
                     e \in s.summary.history}
  <2>1. summary' = Resolved(s.summary, "dispatched", Trimmed(m))
    BY <1>3 DEF Confirm, Resolved
  <2> HIDE DEF S
  <2>2. Marks(m, s.summary.history)
    BY <1>0, ConfirmedMarks
  <2> HIDE DEF m
  <2>3. Trimmed(m) \in SUBSET Entries
    BY <2>2 DEF Marks, Trimmed
  <2>4. summary' \in Summaries /\ summary'.history = Trimmed(m)
    BY <1>0, <2>1, <2>3, ResolvedType DEF Results
  <2> QED
    BY <1>1, <2>2, <2>4 DEF SummaryMoves, Follows
<1>4. CASE Complete(s) \/ Retry(s) \/ CancelRun(s) \/ Cleanup(s)
  <2>1. \/ summary' = summary
        \/ \E o \in {"closed", "cleanup_failed"} : summary' = [s.summary EXCEPT !.session = o]
    BY <1>4 DEF Complete, Retry, CancelRun, Cleanup, Ends
  <2>2. \/ summary' = summary
        \/ summary' \in Summaries /\ summary'.history = s.summary.history
    BY <1>0, <2>1, SessionSet, ZenonT(60)
  <2> QED
    BY <1>0, <1>1, <2>2 DEF SummaryMoves, Follows
<1>5. CASE CleanupFails(s) \/ LaunchFails(s)
  BY <1>0, <1>1, <1>5 DEF CleanupFails, LaunchFails, SummaryMoves
<1>6. CASE Launched(s)
  <2>1. \/ summary' = summary
        \/ summary' = [action |-> "pending", session |-> "open", history |-> s.summary.history]
    BY <1>6 DEF Launched, KeptHistory
  <2>2. summary' = summary \/ (summary' \in Summaries /\ summary'.history = s.summary.history)
    BY <1>0, <2>1 DEF TypeOK, Summaries, Entries
  <2> QED
    BY <1>0, <1>1, <2>2 DEF SummaryMoves, Follows
<1> QED
  BY <1>2, <1>3, <1>4, <1>5, <1>6 DEF Answers

LEMMA OthersMove ==
  ASSUME TypeOK,
         Asks \/ CancelNow \/ ConfirmStep \/ RetryFailed \/ Expire \/ Crash \/ UNCHANGED vars
  PROVE  SummaryMoves
<1>1. summary' = summary /\ summary \in Summaries /\ sent' = sent /\ crowded' = crowded
  BY DEF TypeOK, Asks, AskConfirm, AskComplete, AskRetry, AskCancel, Launch, Opens, CancelNow,
         ConfirmStep, RetryFailed, Expire, Crash, vars
<1>2. \A s \in sessions' : s \in sessions \/ s.summary = summary
  BY DEF Asks, AskConfirm, AskComplete, AskRetry, AskCancel, Launch, Opens, CancelNow,
         ConfirmStep, RetryFailed, Expire, Crash, vars
<1> QED
  BY <1>1, <1>2 DEF SummaryMoves


LEMMA ExpireTypes ==
  ASSUME TypeOK, Expire
  PROVE  sessions' \subseteq SessionRecords
<1>1. [op |-> "cleanup", id |-> 0, version |-> run.version + 1, summary |-> summary]
        \in SessionRecords
  BY BoundsAssumption DEF TypeOK, SessionRecords, Ops
<1> QED
  BY <1>1 DEF Expire, TypeOK, SessionRecords, Ops

LEMMA AnswersType ==
  ASSUME TypeOK, Places, NEW s \in sessions, Answers(s)
  PROVE  /\ run' \in [status : {"awaiting_step_completion", "awaiting_step_start", "running",
                                "awaiting_step_retry", "cancelled", "timed_out"},
                      version : Nat]
         /\ step' \in {"waiting", "running", "failed", "succeeded", "cancelled"}
         /\ sessions' \subseteq sessions
         /\ retries' \in 0..MaxRetries /\ crashes' = crashes
         /\ remote' \subseteq remote /\ overridden' \in BOOLEAN
<1>1. run' = run \/ \E t \in {"awaiting_step_completion", "awaiting_step_start", "running",
                              "awaiting_step_retry", "cancelled"} :
                      run' = [status |-> t, version |-> run.version + 1]
  BY DEF Answers, SendEnds, Confirm, Complete, Retry, CancelRun, CleanupFails, Launched,
         LaunchFails, Cleanup, Ends, CancelStep
<1>2. step' \in {step, "waiting", "running", "failed", "succeeded", "cancelled"}
  BY DEF Answers, SendEnds, Confirm, Complete, Retry, CancelRun, CleanupFails, Launched,
         LaunchFails, Cleanup, Ends, CancelStep
<1>3. sessions' \subseteq sessions /\ remote' \subseteq remote /\ crashes' = crashes
  BY DEF Answers, SendEnds, Confirm, Complete, Retry, CancelRun, CleanupFails, Launched,
         LaunchFails, Cleanup
<1>4. retries' \in 0..MaxRetries
  <2>1. retries' = retries \/ (retries' = retries + 1 /\ s.op = "retry" /\ Fresh(s))
    BY DEF Answers, SendEnds, Confirm, Complete, Retry, CancelRun, CleanupFails, Launched,
           LaunchFails, Cleanup
  <2> QED
    BY <2>1, BoundsAssumption DEF TypeOK, Places, Guarded
<1>5. overridden' \in BOOLEAN
  BY DEF Answers, SendEnds, Confirm, Complete, Retry, CancelRun, CleanupFails, Launched,
         LaunchFails, Cleanup, TypeOK
<1> QED
  BY <1>1, <1>2, <1>3, <1>4, <1>5 DEF TypeOK


-----------------------------------------------------------------------------
(* Each part of the invariant is kept *)

LEMMA FollowersAreGood ==
  ASSUME NEW n \in Nat, NEW crowd, NEW h, GoodFor(h, n, crowd), NEW g, Follows(g, h)
  PROVE  GoodFor(g, n, crowd)
<1>1. CASE g = h
  BY <1>1
<1>2. CASE g # h
  <2>1. PICK m : Marks(m, h) /\ g = Trimmed(m)
    BY <1>2 DEF Follows
  <2>2. m \in SUBSET Entries /\ OncePerId(m) /\ Names(m) = Names(h)
    BY <2>1 DEF Marks, GoodFor
  <2>3. g \in SUBSET m /\ Cardinality(g) <= HistoryLimit
    BY <2>1, <2>2, TrimmedIsShort
  <2>4. \A e \in m : e.id <= n
    BY <2>2 DEF Names, GoodFor
  <2>5. Holds(g, n, crowd)
    <3> SUFFICES ASSUME NEW id \in 1..n, id \notin crowd, id + HistoryLimit > n
                 PROVE  id \in Names(g)
      BY DEF Holds
    <3>1. PICK e \in m : e.id = id
      BY <2>2 DEF GoodFor, Holds, Names
    <3>2. e \in g
      BY <2>1, <2>2, <2>4, <3>1, TrimmedKeepsNewest
    <3> QED
      BY <3>1, <3>2 DEF Names
  <2> QED
    BY <2>2, <2>3, <2>4, <2>5 DEF GoodFor, OncePerId
<1> QED
  BY <1>1, <1>2

\* A history with the next id appended is as good for it, and for the others.
LEMMA AppendedIsGood ==
  ASSUME NEW n \in Nat, n + 1 \in Ids, NEW crowd, NEW h, GoodFor(h, n, crowd),
         NEW more \in SUBSET {n + 1}
  PROVE  GoodFor(Appended(h, n + 1), n + 1, crowd \cup more)
<1> DEFINE id == n + 1
           new == [id |-> id, result |-> "dispatching"]
           m == h \cup {new}
           g == Trimmed(m)
<1>1. h \in SUBSET Entries /\ new \in Entries /\ \A e \in h : e.id \in Nat /\ e.id <= n
  BY DEF GoodFor, Entries, Results, Ids
<1>2. m \in SUBSET Entries /\ OncePerId(m) /\ \A e \in m : e.id <= id
  BY <1>1 DEF GoodFor, OncePerId
<1>3. g \in SUBSET m /\ Cardinality(g) <= HistoryLimit
  BY <1>2, TrimmedIsShort
<1>4. ASSUME NEW k \in 1..id, k \notin crowd \cup more, k + HistoryLimit > id
      PROVE  k \in Names(g)
  <2>1. \E e \in m : e.id = k
    <3>1. CASE k = id
      <4>1. new \in m /\ new.id = k
        BY <3>1
      <4> QED
        BY <4>1
    <3>2. CASE k # id
      <4>1. k \in 1..n /\ k + HistoryLimit > n /\ k \notin crowd
        BY <1>4, <3>2, BoundsAssumption
      <4>2. k \in Names(h)
        BY <4>1 DEF GoodFor, Holds
      <4> QED
        BY <4>2 DEF Names
    <3> QED
      BY <3>1, <3>2
  <2> HIDE DEF m
  <2>2. PICK e \in m : e.id = k
    BY <2>1
  <2>3. id \in Nat /\ e.id + HistoryLimit > id
    BY <1>4, <2>2
  <2> HIDE DEF id
  <2>4. e \in Trimmed(m)
    BY <1>2, <2>3, TrimmedKeepsNewest
  <2> QED
    BY <2>2, <2>4 DEF Names
<1>5. Appended(h, n + 1) = g
  BY DEF Appended
<1> HIDE DEF m, id
<1>6. g \in SUBSET Entries /\ OncePerId(g) /\ \A e \in g : e.id <= id
  BY <1>2, <1>3 DEF OncePerId
<1> HIDE DEF g
<1>7. GoodFor(g, id, crowd \cup more)
  BY <1>3, <1>4, <1>6 DEF GoodFor, Holds
<1> QED
  BY <1>5, <1>7 DEF id

LEMMA GoodMoves ==
  ASSUME TypeOK, Histories, SummaryMoves
  PROVE  Histories'
<1>1. sent' = sent /\ crowded' = crowded /\ sent \in Nat
  BY DEF SummaryMoves, TypeOK
<1>2. /\ GoodFor(summary.history, sent, crowded)
      /\ \A s \in sessions : GoodFor(s.summary.history, sent, crowded)
  BY DEF Histories, Good
<1>3. GoodFor(summary'.history, sent, crowded)
  <2>1. CASE summary' = summary
    BY <1>2, <2>1
  <2>2. CASE summary' # summary
    <3>1. PICK s \in sessions : Follows(summary'.history, s.summary.history)
      BY <2>2 DEF SummaryMoves
    <3> QED
      BY <1>1, <1>2, <3>1, FollowersAreGood
  <2> QED
    BY <2>1, <2>2
<1>4. \A s \in sessions' : GoodFor(s.summary.history, sent, crowded)
  BY <1>2 DEF SummaryMoves
<1> QED
  BY <1>1, <1>3, <1>4 DEF Histories, Good

\* The new action is the newest; a request that was there makes it a crowded one.
LEMMA DispatchIsRemembered ==
  ASSUME TypeOK, Histories, Dispatch
  PROVE  /\ Histories' /\ summary' \in Summaries
         /\ summary'.action = "dispatching"
         /\ sessions' \subseteq SessionRecords
<1> DEFINE id == sent + 1
           h == summary.history
           g == Appended(h, id)
           mine == [op |-> "send", id |-> id, version |-> run.version, summary |-> summary']
<1>1. sent \in Nat /\ id \in Ids /\ id \in 0..MaxSends
  BY BoundsAssumption DEF TypeOK, Dispatch, Ids
<1>2. /\ sent' = id /\ sessions' = sessions \cup {mine}
      /\ summary' = Resolved(summary, "dispatching", g)
      /\ crowded' = IF sessions = {} THEN crowded ELSE crowded \cup {id}
  BY DEF Dispatch, Resolved
<1>3. GoodFor(h, sent, crowded) /\ summary \in Summaries
  BY DEF Histories, Good, TypeOK
<1>4. GoodFor(g, id, crowded) /\ GoodFor(g, id, crowded \cup {id})
  <2>1. GoodFor(g, id, crowded \cup {}) /\ GoodFor(g, id, crowded \cup {id})
    BY <1>1, <1>3, AppendedIsGood
  <2>2. crowded \cup {} = crowded
    OBVIOUS
  <2> QED
    BY <2>1, <2>2
<1> HIDE DEF g
<1>5. summary' \in Summaries /\ summary'.history = g /\ summary'.action = "dispatching"
  <2>1. g \in SUBSET Entries /\ "dispatching" \in Results
    BY <1>4 DEF GoodFor, Results
  <2> QED
    BY <1>2, <1>3, <2>1, ResolvedType
<1>6. GoodFor(summary'.history, sent', crowded')
  BY <1>2, <1>4, <1>5
<1>7. ASSUME NEW s \in sessions'
      PROVE  GoodFor(s.summary.history, sent', crowded')
  <2>1. CASE s = mine
    BY <1>6, <2>1
  <2>2. CASE s # mine
    <3>1. s \in sessions /\ sent' = id /\ crowded' = crowded \cup {id}
      BY <1>2, <1>7, <2>2
    <3>2. GoodFor(s.summary.history, sent, crowded)
      BY <3>1 DEF Histories, Good
    <3>3. Holds(s.summary.history, id, crowded \cup {id})
      BY <1>1, <3>2, BoundsAssumption DEF GoodFor, Holds
    <3>4. \A e \in s.summary.history : e.id <= id
      BY <1>1, <3>2 DEF GoodFor, Entries, Ids
    <3> QED
      BY <3>1, <3>2, <3>3, <3>4 DEF GoodFor
  <2> QED
    BY <2>1, <2>2
<1>8. mine \in SessionRecords
  BY <1>1, <1>5 DEF SessionRecords, Ops, TypeOK
<1> QED
  BY <1>2, <1>5, <1>6, <1>7, <1>8 DEF Histories, Good, TypeOK, SessionRecords, Ops


LEMMA HistoriesKept ==
  ASSUME TypeOK, Histories, [Next]_vars
  PROVE  Histories'
<1>1. CASE Dispatch
  BY <1>1, DispatchIsRemembered
<1>2. CASE ~Dispatch
  <2>1. SummaryMoves
    BY <1>2, NextIs, AnswersMove, OthersMove
  <2> QED
    BY <2>1, GoodMoves
<1> QED
  BY <1>1, <1>2

LEMMA TypeKept ==
  ASSUME TypeOK, Histories, Places, [Next]_vars
  PROVE  TypeOK'
<1>1. Cardinality(summary.history)' <= HistoryLimit
  BY HistoriesKept DEF Histories, Good, GoodFor
<1>2. CASE Dispatch
  <2>1. /\ sent' \in 0..MaxSends /\ sent' \in Ids /\ remote' = remote \cup {sent'}
        /\ crowded' \in {crowded, crowded \cup {sent'}}
    BY <1>2, BoundsAssumption DEF Dispatch, TypeOK, Ids
  <2>2. summary' \in Summaries /\ sessions' \subseteq SessionRecords
    BY <1>2, DispatchIsRemembered
  <2> QED
    BY <1>1, <1>2, <2>1, <2>2 DEF Dispatch, TypeOK, SessionRecords, Ops
<1>3. CASE \E s \in sessions : Answers(s)
  <2>1. PICK s \in sessions : Answers(s)
    BY <1>3
  <2>2. SummaryMoves
    BY <2>1, AnswersMove
  <2> QED
    BY <1>1, <2>1, <2>2, AnswersType DEF SummaryMoves, TypeOK
<1>4. CASE Asks
  <2>1. PICK op \in Ops \ {"send", "cleanup"} : Opens(op)
    BY <1>4, AsksOpen
  <2>2. [op |-> op, id |-> 0, version |-> run.version, summary |-> summary] \in SessionRecords
    BY BoundsAssumption DEF TypeOK, SessionRecords
  <2>3. sessions' \subseteq SessionRecords
    BY <2>1, <2>2 DEF Opens, TypeOK, SessionRecords, Ops
  <2> QED
    BY <2>1, <2>3 DEF Opens, TypeOK, SessionRecords, Ops
<1>5. CASE Expire
  BY <1>5, ExpireTypes DEF Expire, TypeOK, SessionRecords, Ops
<1>6. CASE CancelNow \/ ConfirmStep \/ RetryFailed \/ Crash \/ UNCHANGED vars
  BY <1>6, BoundsAssumption DEF CancelNow, CancelStep, ConfirmStep, RetryFailed, Crash, TypeOK, vars
<1> QED
  BY <1>2, <1>3, <1>4, <1>5, <1>6, NextIs

\* A move of the run is seen by every session: its version is now below the run's.
RunMoves == run'.version = run.version + 1
RunStays == run' = run /\ step' = step /\ retries' = retries

LEMMA GuardsKept ==
  ASSUME TypeOK, Places, NEW s \in sessions, RunStays \/ (RunMoves /\ (Ended => Ended'))
  PROVE  Guarded(s)'
<1>1. s.version \in Nat /\ s.version <= run.version /\ run.version \in Nat /\ Guarded(s)
  BY DEF Places, Guarded, TypeOK
<1>2. CASE RunStays
  BY <1>1, <1>2 DEF RunStays, Guarded, Fresh, Ended
<1>3. CASE RunMoves /\ (Ended => Ended')
  BY <1>1, <1>3 DEF RunMoves, Guarded, Fresh
<1> QED
  BY <1>2, <1>3

\* What an answer does to the run it did only on a fresh snapshot, where its guard holds.
LEMMA AnswersFit ==
  ASSUME TypeOK, Places, NEW s \in sessions, Answers(s)
  PROVE  /\ RunStays \/ (RunMoves /\ ~Ended)
         /\ Agrees'
         /\ run'.status = "awaiting_step_completion"
              => run.status \in {"awaiting_step_completion", "running"}
         /\ step' # step => step \notin {"succeeded", "cancelled"}
<1>1. Agrees /\ Guarded(s)
  BY DEF Places
<1>2. CASE RunStays
  BY <1>1, <1>2 DEF RunStays, Agrees, Ended
<1>3. CASE ~RunStays
  <2>1. CASE Complete(s) \/ Retry(s)
    <3>1. Fresh(s) /\ run.status = "awaiting_step_completion" /\ step = "waiting"
      BY <1>1, <1>3, <2>1 DEF Complete, Retry, Ends, RunStays, Guarded, Agrees
    <3>2. \/ run' = [status |-> "awaiting_step_start", version |-> run.version + 1]
             /\ step' = "succeeded"
          \/ run' = [status |-> "running", version |-> run.version + 1] /\ step' = "running"
      BY <2>1, <3>1 DEF Complete, Retry, Ends
    <3> QED
      BY <3>1, <3>2 DEF RunMoves, Agrees, Ended
  <2>2. CASE CancelRun(s)
    <3>1. ~Ended /\ CancelStep
      BY <1>1, <1>3, <2>2 DEF CancelRun, RunStays, Guarded
    <3> QED
      BY <1>1, <3>1 DEF CancelStep, RunMoves, Agrees, Ended
  <2>3. CASE Launched(s) \/ LaunchFails(s)
    <3>1. run.status = "running" /\ step = "running"
      BY <1>1, <1>3, <2>3 DEF Launched, LaunchFails, RunStays, Guarded, Agrees
    <3>2. \/ run' = [status |-> "awaiting_step_completion", version |-> run.version + 1]
             /\ step' = "waiting"
          \/ run' = [status |-> "awaiting_step_retry", version |-> run.version + 1]
             /\ step' = "failed"
      BY <1>3, <2>3 DEF Launched, LaunchFails, RunStays
    <3> QED
      BY <3>1, <3>2 DEF RunMoves, Agrees, Ended
  <2>4. ~(SendEnds(s) \/ Confirm(s) \/ CleanupFails(s) \/ Cleanup(s))
    BY <1>3 DEF SendEnds, Confirm, CleanupFails, Cleanup, RunStays
  <2> QED
    BY <2>1, <2>2, <2>3, <2>4 DEF Answers
<1> QED
  BY <1>2, <1>3

LEMMA PlacesKept ==
  ASSUME TypeOK, Places, [Next]_vars
  PROVE  Places'
<1>0. run.version \in Nat /\ Agrees
  BY DEF TypeOK, Places
<1>1. CASE Dispatch
  <2>1. RunStays /\ Agrees'
    BY <1>0, <1>1 DEF Dispatch, RunStays, Agrees, Ended
  <2>2. ASSUME NEW s \in sessions' PROVE Guarded(s)'
    <3>1. CASE s \in sessions
      BY <2>1, <3>1, GuardsKept
    <3>2. CASE s \notin sessions
      <4>1. s.op = "send" /\ s.version = run.version /\ run' = run
        BY <1>1, <2>2, <3>2 DEF Dispatch
      <4> QED
        BY <1>0, <4>1 DEF Guarded
    <3> QED
      BY <3>1, <3>2
  <2> QED
    BY <2>1, <2>2 DEF Places
<1>2. CASE Asks
  <2>1. PICK op \in Ops \ {"send", "cleanup"} :
           /\ Opens(op)
           /\ op \in {"complete", "retry"} => run.status = "awaiting_step_completion"
           /\ op = "retry" => retries < MaxRetries
           /\ op = "launch" => run.status = "running"
           /\ op = "cancel" => ~Ended
    BY <1>2, AsksOpen
  <2>2. RunStays /\ Agrees'
    BY <1>0, <2>1 DEF Opens, RunStays, Agrees, Ended
  <2>3. ASSUME NEW s \in sessions' PROVE Guarded(s)'
    <3>1. CASE s \in sessions
      BY <2>2, <3>1, GuardsKept
    <3>2. CASE s \notin sessions
      <4>1. s.op = op /\ s.version = run.version
        BY <2>1, <2>3, <3>2 DEF Opens
      <4> QED
        BY <1>0, <2>1, <2>2, <4>1 DEF Guarded, RunStays, Ended
    <3> QED
      BY <3>1, <3>2
  <2> QED
    BY <2>2, <2>3 DEF Places
<1>3. CASE \E s \in sessions : Answers(s)
  <2>1. PICK s \in sessions : Answers(s)
    BY <1>3
  <2>2. sessions' \subseteq sessions
    BY <2>1, AnswersType
  <2>3. Agrees' /\ (RunStays \/ (RunMoves /\ ~Ended))
    BY <2>1, AnswersFit
  <2>4. \A t \in sessions : Guarded(t)'
    BY <2>3, GuardsKept
  <2> QED
    BY <2>2, <2>3, <2>4 DEF Places
<1>4. CASE Expire
  <2>1. RunMoves /\ Agrees' /\ Ended' /\ run'.version = run.version + 1
    BY <1>0, <1>4 DEF Expire, RunMoves, Agrees, Ended
  <2>2. ASSUME NEW s \in sessions' PROVE Guarded(s)'
    <3>1. CASE s \in sessions
      BY <2>1, <3>1, GuardsKept
    <3>2. CASE s \notin sessions
      <4>1. s.op = "cleanup" /\ s.version = run.version + 1
        BY <1>4, <2>2, <3>2 DEF Expire
      <4> QED
        BY <1>0, <2>1, <4>1 DEF Guarded
    <3> QED
      BY <3>1, <3>2
  <2> QED
    BY <2>1, <2>2 DEF Places
<1>5. CASE CancelNow \/ ConfirmStep \/ RetryFailed
  <2>1. RunMoves /\ Agrees' /\ sessions' = sessions /\ (Ended => Ended')
    BY <1>0, <1>5 DEF CancelNow, CancelStep, ConfirmStep, RetryFailed, RunMoves, Agrees,
       Ended, Waiting
  <2> QED
    BY <2>1, GuardsKept DEF Places
<1>6. CASE Crash \/ UNCHANGED vars
  <2>1. RunStays /\ Agrees' /\ sessions' \subseteq sessions
    BY <1>0, <1>6 DEF Crash, vars, RunStays, Agrees, Ended
  <2> QED
    BY <2>1, GuardsKept DEF Places
<1> QED
  BY <1>1, <1>2, <1>3, <1>4, <1>5, <1>6, NextIs

LEMMA SendsKept ==
  ASSUME TypeOK, Sends, [Next]_vars
  PROVE  Sends'
<1>1. CASE Dispatch
  <2>1. /\ sent' = sent + 1 /\ sent \in Nat /\ remote' = remote \cup {sent'}
        /\ \A s \in sessions' : s \in sessions \/ (s.op = "send" /\ s.id = sent')
        /\ \A s, t \in sessions' : s \in sessions \/ t \in sessions \/ s = t
    BY <1>1 DEF Dispatch, TypeOK
  <2>2. remote' \subseteq 1..sent'
    BY <2>1 DEF Sends
  <2>3. \A s \in sessions : s.op = "send" => s.id \in 1..sent
    BY DEF Sends
  <2> QED
    BY <2>1, <2>2, <2>3 DEF Sends
<1>2. CASE \E s \in sessions : SendEnds(s)
  <2>1. PICK s \in sessions : SendEnds(s)
    BY <1>2
  <2>2. /\ s.op = "send" /\ sessions' = sessions \ {s} /\ remote' = remote \ {s.id}
        /\ sent' = sent
    BY <2>1 DEF SendEnds
  <2> QED
    BY <2>2 DEF Sends
<1>3. CASE Crash
  BY <1>3 DEF Crash, Sends
<1>4. CASE ~(Dispatch \/ (\E s \in sessions : SendEnds(s)) \/ Crash)
  <2>1. sent' = sent /\ remote' = remote
    BY <1>4, NextIs DEF Asks, AskConfirm, AskComplete, AskRetry, AskCancel, Launch, Opens,
         CancelNow, ConfirmStep, RetryFailed, Expire, Answers, Confirm, Complete, Retry, CancelRun,
         CleanupFails, Launched, LaunchFails, Cleanup, vars
  <2>2. \A s \in sessions' : s \in sessions \/ s.op # "send"
    <3>1. CASE Asks
      BY <3>1, AsksOpen DEF Opens
    <3>2. CASE \E s \in sessions : Answers(s)
      BY <3>2 DEF Answers, SendEnds, Confirm, Complete, Retry, CancelRun, CleanupFails, Launched,
         LaunchFails, Cleanup
    <3>3. CASE Expire
      BY <3>3 DEF Expire
    <3>4. CASE CancelNow \/ ConfirmStep \/ RetryFailed \/ UNCHANGED vars
      BY <3>4 DEF CancelNow, ConfirmStep, RetryFailed, vars
    <3> QED
      BY <1>4, <3>1, <3>2, <3>3, <3>4, NextIs
  <2> QED
    BY <2>1, <2>2 DEF Sends
<1> QED
  BY <1>1, <1>2, <1>3, <1>4


LEMMA AloneKept ==
  ASSUME TypeOK, Places, Sends, Alone, [Next]_vars
  PROVE  Alone'
<1> SUFFICES ASSUME ~overridden'
             PROVE  /\ \A a, b \in remote' : a = b
                    /\ remote' # {} =>
                         \/ Waiting' /\ summary'.action \in Unresolved
                         \/ run'.status \in {"awaiting_step_start", "cancelled", "timed_out"}
  BY DEF Alone
<1>1. /\ \A a, b \in remote : a = b
      /\ remote # {} =>
           \/ Waiting /\ summary.action \in Unresolved
           \/ run.status \in {"awaiting_step_start", "cancelled", "timed_out"}
  <2>1. ~overridden
    BY NextIs DEF Dispatch, Asks, AskConfirm, AskComplete, AskRetry, AskCancel, Launch, Opens,
       CancelNow, ConfirmStep, RetryFailed, Expire, Crash, Answers, SendEnds, Confirm, Complete, Retry,
       CancelRun, CleanupFails, Launched, LaunchFails, Cleanup, vars
  <2> QED
    BY <2>1 DEF Alone
<1>2. CASE Dispatch
  <2>1. remote = {}
    BY <1>1, <1>2 DEF Dispatch, MayDispatch, Waiting
  <2>2. /\ remote' = {sent + 1} /\ Waiting'
        /\ summary'.action = "dispatching"
    <3>1. summary.action' = "dispatching"
      BY <1>2 DEF Dispatch, TypeOK, Summaries
    <3> QED
      BY <1>2, <2>1, <3>1 DEF Dispatch, MayDispatch, Waiting
  <2> QED
    BY <2>2 DEF Unresolved
<1>3. ASSUME NEW s \in sessions, Answers(s)
      PROVE  /\ \A a, b \in remote' : a = b
             /\ remote' # {} =>
                  \/ Waiting' /\ summary'.action \in Unresolved
                  \/ run'.status \in {"awaiting_step_start", "cancelled", "timed_out"}
  <2>0. Guarded(s)
    BY DEF Places
  <2>1. CASE SendEnds(s)
    <3>1. s.id \in remote /\ remote' = remote \ {s.id}
      BY <2>1 DEF SendEnds, Sends
    <3>2. remote' = {}
      BY <1>1, <3>1
    <3> QED
      BY <3>2
  <2>2. CASE Confirm(s) \/ Retry(s)
    <3>1. remote' = remote /\ remote = {}
      BY <2>2 DEF Confirm, Retry
    <3> QED
      BY <3>1
  <2>3. CASE Complete(s) \/ CancelRun(s) \/ CleanupFails(s) \/ Cleanup(s)
    <3>1. /\ remote' = remote
          /\ \/ run'.status \in {"awaiting_step_start", "cancelled"}
             \/ run' = run /\ step' = step /\ summary' = summary
             \/ run' = run /\ Ended
      BY <2>0, <2>3
         DEF Complete, Ends, CancelRun, CancelStep, CleanupFails, Cleanup, Guarded
    <3> QED
      BY <1>1, <3>1 DEF Waiting, Ended
  <2>4. CASE Launched(s) \/ LaunchFails(s)
    <3>1. /\ remote' = remote
          /\ \/ run' = run /\ step' = step /\ summary' = summary
             \/ run.status = "running"
      BY <2>0, <2>4 DEF Launched, LaunchFails, Guarded
    <3> QED
      BY <1>1, <3>1 DEF Waiting
  <2> QED
    BY <1>3, <2>1, <2>2, <2>3, <2>4 DEF Answers
<1>4. CASE Asks \/ UNCHANGED vars
  <2>1. remote' = remote /\ run' = run /\ step' = step /\ summary' = summary
    BY <1>4 DEF Asks, AskConfirm, AskComplete, AskRetry, AskCancel, Launch, Opens, vars
  <2> QED
    BY <1>1, <2>1 DEF Waiting
<1>5. CASE CancelNow \/ ConfirmStep \/ Expire
  <2>1. /\ remote' = remote
        /\ run'.status \in {"awaiting_step_start", "cancelled", "timed_out"}
    BY <1>5 DEF CancelNow, CancelStep, ConfirmStep, Expire
  <2> QED
    BY <1>1, <2>1
<1>6. CASE RetryFailed
  <2>1. remote' = remote /\ run.status = "awaiting_step_retry"
    BY <1>6 DEF RetryFailed
  <2> QED
    BY <1>1, <2>1 DEF Waiting
<1>7. CASE Crash
  BY <1>7 DEF Crash
<1> QED
  BY <1>2, <1>3, <1>4, <1>5, <1>6, <1>7, NextIs

LEMMA StartsRight == Init => IInv
<1> SUFFICES ASSUME Init PROVE IInv
  OBVIOUS
<1>1. Cardinality({}) = 0 /\ summary.history = {}
  BY FS_EmptySet DEF Init
<1>2. GoodFor({}, sent, crowded)
  BY <1>1, BoundsAssumption DEF Init, GoodFor, OncePerId, Holds
<1>3. Histories
  BY <1>1, <1>2 DEF Init, Histories, Good
<1>4. TypeOK
  <2>1. 0 \in Nat /\ MaxSends \in Nat /\ MaxRetries \in Nat /\ MaxCrashes \in Nat
        /\ HistoryLimit \in Nat
    BY BoundsAssumption
  <2>2. 0 \in 0..MaxSends /\ 0 \in 0..MaxRetries /\ 0 \in 0..MaxCrashes
    BY <2>1
  <2>3. summary \in Summaries
    BY DEF Init, Summaries
  <2>4. Cardinality(summary.history) <= HistoryLimit
    BY <1>1, <2>1
  <2> QED
    BY <2>1, <2>2, <2>3, <2>4 DEF Init, TypeOK
<1>5. Places /\ Sends /\ Alone
  BY DEF Init, Places, Agrees, Sends, Alone
<1> QED
  BY <1>3, <1>4, <1>5 DEF IInv

LEMMA StepKeeps == IInv /\ [Next]_vars => IInv'
BY HistoriesKept, TypeKept, PlacesKept, SendsKept, AloneKept DEF IInv

LEMMA Inductive == Spec => []IInv
BY StartsRight, StepKeeps, PTL DEF Spec

-----------------------------------------------------------------------------
(* Theorems *)

\* Every variable keeps its type, and no history that is stored grows beyond
\* ORDER_ACTION_HISTORY_LIMIT, however its writers overlap.
THEOREM Typing == Spec => []TypeOK
BY Inductive, PTL DEF IInv

\* An action that no other request overlapped when it was dispatched stays in the history
\* of the step until HistoryLimit newer ones have pushed it out, whichever stale snapshot
\* is written back over the summary.
THEOREM RemembersActions == Spec => []ActionsRemembered
<1>1. IInv => ActionsRemembered
  BY DEF IInv, Histories, Good, GoodFor, Holds, Names, ActionsRemembered, Recorded
<1> QED
  BY <1>1, Inductive, PTL

\* No action passes the guard of dispatch_order_action while another is being sent,
\* unless an operator confirmed or retried the one under way.
THEOREM SendsOneAtATime == Spec => []OneActionAtATime
<1>1. IInv => OneActionAtATime
  <2> SUFFICES ASSUME IInv, ~overridden
               PROVE  ~(Cardinality(remote) > 1)
    BY DEF OneActionAtATime
  <2>1. \A a, b \in remote : a = b
    BY DEF IInv, Alone
  <2>2. CASE remote = {}
    BY <2>2, FS_EmptySet
  <2>3. CASE remote # {}
    <3>1. PICK a \in remote : TRUE
      BY <2>3
    <3>2. remote = {a}
      BY <2>1, <3>1
    <3>3. Cardinality({a}) = 1
      BY FS_Singleton
    <3> QED
      BY <3>2, <3>3
  <2> QED
    BY <2>2, <2>3
<1> QED
  BY <1>1, Inductive, PTL

\* A step that has succeeded or was cancelled keeps its status: what still awaits the
\* remote host compares the run's version or leaves the status alone.
THEOREM EndsStay == Spec => EndedStepStays
<1>1. IInv /\ [Next]_vars => [step \notin {"succeeded", "cancelled"}]_step
  <2> SUFFICES ASSUME IInv, [Next]_vars, step' # step
               PROVE  step \notin {"succeeded", "cancelled"}
    OBVIOUS
  <2>1. CASE \E s \in sessions : Answers(s)
    BY <2>1, AnswersFit DEF IInv
  <2>2. CASE Expire \/ CancelNow \/ ConfirmStep \/ RetryFailed
    BY <2>2 DEF Expire, CancelNow, CancelStep, ConfirmStep, RetryFailed, Waiting
  <2>3. ~(Dispatch \/ Asks \/ Crash \/ UNCHANGED vars)
    BY DEF Dispatch, Asks, AskConfirm, AskComplete, AskRetry, AskCancel, Launch, Opens, Crash,
       vars
  <2> QED
    BY <2>1, <2>2, <2>3, NextIs
<1> QED
  BY <1>1, Inductive, PTL DEF EndedStepStays, Spec

=============================================================================
