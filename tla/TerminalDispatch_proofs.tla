---------------------- MODULE TerminalDispatch_proofs ----------------------
(***************************************************************************)
(* What holds of the dispatch of a step for any number of terminals,       *)
(* retries and sessions: the command of an attempt is typed at most once   *)
(* or run by the step's task, a waiting step has somebody who drives it,   *)
(* and a session that ends fails the attempt of another only after a shell *)
(* refused its input.                                                      *)
(*                                                                         *)
(* The invariant says what a dispatch may rely on when its await returns:  *)
(* a session whose loaded row is still the committed one (fresh) still     *)
(* meets the condition its request was validated against.                  *)
(***************************************************************************)
EXTENDS TerminalDispatch, TLAPS

\* A row has these three fields and no other.
Shape == row = Row(row.status, row.step, row.tries)

\* A dispatch in its await that nobody has overtaken could be validated again.
Loaded ==
  \A t \in Terminals :
    (t \in fresh /\ at[t] \in {"checking", "preparing"}) => Asked(retrying[t])

\* A parser step is prepared, not checked.
Checking ==
  \A t \in Terminals : /\ at[t] = "checking" => kind # "parser"
                       /\ at[t] = "preparing" => kind = "parser"

\* The write lock is held across an await by a preparation and by nothing else here.
Holding == \A t \in Terminals : (writer = t) <=> (at[t] = "preparing")

\* One dispatch at a time lies between its commit and its write, and it writes the
\* first command of a waiting attempt.
Typing ==
  \A t \in Terminals : at[t] = "typing" =>
    /\ row.step = "waiting" /\ writer = Free
    /\ typed[Attempt] = 0 /\ Attempt \notin ran
    /\ \A u \in Terminals : at[u] = "typing" => u = t

\* No command was typed or run for an attempt that has not begun, and none is typed for
\* one that runs in its task.
Counted ==
  \A a \in Attempts :
    /\ typed[a] <= 1 /\ (a \in ran => typed[a] = 0)
    /\ a > Attempt \/ row.step = "pending" => typed[a] = 0 /\ a \notin ran
    /\ a = Attempt /\ row.step = "running" => typed[a] = 0

\* A task whose loaded row is still the committed one runs the commands of the running
\* attempt; a parser step never has a task.
Tasked ==
  /\ task = "running" /\ Task \in fresh => row.step = "running" /\ Attempt \in ran
  /\ kind = "parser" => task = "none" /\ row.step # "running"

\* The outputs under collection are the waiting attempt's, or the save will fail;
\* a completed step stays as it is.
Collected ==
  /\ completing # 0 /\ Web \in fresh => completing = Attempt
  /\ completed # 0 => row.status = "completed" /\ completed = Attempt

\* Leases are of open parser sessions; as long as no shell has refused its input, only
\* the terminal of the last attempt has one, from its dispatch until its attempt fails.
Leases ==
  \A t \in Terminals : lease[t] =>
    /\ at[t] # "closed" /\ kind = "parser"
    /\ ~refused =>
         /\ row.step \notin {"pending", "failed"}
         /\ row.step = "waiting" => driver = t \/ at[t] = "typing"
         /\ \A u \in Terminals : at[u] = "typing" => u = t

IInv ==
  /\ TypeOK /\ Shape /\ Loaded /\ Checking /\ Holding
  /\ Typing /\ Counted /\ Tasked /\ Collected /\ WaitingStepIsDriven /\ Leases

-----------------------------------------------------------------------------
(* How the row changes *)

\* retry_count of the attempt that a dispatch begins.
NextTries == IF row.step = "failed" THEN row.tries + 1 ELSE row.tries
MayBegin == row.step \in {"pending", "failed"} /\ NextTries <= MaxTries

\* A dispatch commits, and its terminal is about to type.
Commits(t) ==
  /\ MayBegin
  /\ row' = Row("awaiting_step_completion", "waiting", NextTries) /\ fresh' = {}
  /\ at' = [at EXCEPT ![t] = "typing"]

\* A dispatch could not be saved, and its session ends.
GivesUp(t) == row' = row /\ fresh' \subseteq fresh /\ at' = [at EXCEPT ![t] = "ending"]

\* Every change a step may make to the row: none, or one after which nobody's is fresh.
Moves ==
  \/ row' = row
  \/ /\ fresh' = {}
     /\ \/ /\ MayBegin
           /\ row' \in {Row("awaiting_step_completion", "waiting", NextTries),
                        Row("awaiting_step_retry", "failed", NextTries)}
        \/ /\ row.step = "waiting"
           /\ row' \in {Row("awaiting_step_completion", "waiting", row.tries),
                        Row("paused", "waiting", row.tries),
                        Row("awaiting_step_retry", "failed", row.tries),
                        Row("completed", "succeeded", row.tries)}
        \/ /\ MayBegin /\ kind # "parser"
           /\ row' = Row("running", "running", NextTries)
        \/ /\ row.step = "running"
           /\ row' \in {Row("awaiting_step_completion", "waiting", row.tries),
                        Row("awaiting_step_retry", "failed", row.tries)}
        \/ /\ row.status \notin Ended
           /\ row' = Row("cancelled", "cancelled", row.tries)

LEMMA RowFields ==
  ASSUME NEW s, NEW p, NEW n
  PROVE  /\ Row(s, p, n).status = s
         /\ Row(s, p, n).step = p
         /\ Row(s, p, n).tries = n
BY DEF Row

LEMMA TriesAre ==
  TypeOK => row.tries \in Nat /\ row.tries <= MaxTries /\ NextTries \in Nat
<1>1. TypeOK => row.tries \in 0..MaxTries
  BY DEF TypeOK
<1> QED
  BY <1>1, TriesAssumption DEF NextTries

LEMMA AskedMayBegin ==
  ASSUME TypeOK, NEW retry \in BOOLEAN, Asked(retry)
  PROVE  MayBegin /\ row.tries + (IF retry THEN 1 ELSE 0) = NextTries
<1>1. row.tries \in Nat /\ row.tries <= MaxTries /\ MaxTries \in Nat
  BY TriesAre, TriesAssumption
<1>2. CASE retry
  <2>1. row.step = "failed" /\ row.tries < MaxTries
    BY <1>2 DEF Asked
  <2> QED
    BY <1>1, <1>2, <2>1 DEF MayBegin, NextTries
<1>3. CASE ~retry
  <2>1. row.step = "pending"
    BY <1>3 DEF Asked
  <2> QED
    BY <1>1, <1>3, <2>1 DEF MayBegin, NextTries
<1> QED
  BY <1>2, <1>3

\* What a session has loaded and validated it may still write, if nobody was faster.
LEMMA SavedIsAsked ==
  ASSUME TypeOK, Loaded, Holding, NEW t \in Terminals,
         at[t] \in {"checking", "preparing"}, MaySave(t)
  PROVE  retrying[t] \in BOOLEAN /\ Asked(retrying[t])
<1>1. t \in fresh
  BY DEF MaySave
<1>2. retrying[t] \in BOOLEAN
  BY DEF TypeOK
<1> QED
  BY <1>1, <1>2 DEF Loaded

LEMMA DispatchesCommit ==
  ASSUME TypeOK, Loaded, Holding, NEW t \in Terminals, NEW retry \in BOOLEAN,
         DispatchShell(t, retry) \/ CheckPasses(t) \/ PrepareReturns(t)
  PROVE  Commits(t) \/ GivesUp(t)
<1>1. CASE DispatchShell(t, retry)
  <2>1. Asked(retry)
    BY <1>1 DEF DispatchShell, Validated, Asked
  <2>2. MayBegin /\ row.tries + (IF retry THEN 1 ELSE 0) = NextTries
    BY <2>1, AskedMayBegin
  <2> QED
    BY <1>1, <2>2 DEF DispatchShell, Write, Dispatched, Commits, GivesUp
<1>2. CASE CheckPasses(t)
  <2>1. CASE MaySave(t)
    <3>1. retrying[t] \in BOOLEAN /\ Asked(retrying[t])
      BY <1>2, <2>1, SavedIsAsked DEF CheckPasses
    <3>2. MayBegin /\ row.tries + (IF retrying[t] THEN 1 ELSE 0) = NextTries
      BY <3>1, AskedMayBegin
    <3> QED
      BY <1>2, <2>1, <3>2 DEF CheckPasses, Write, Dispatched, Commits
  <2> QED
    BY <1>2, <2>1 DEF CheckPasses, GivesUp
<1>3. CASE PrepareReturns(t)
  <2>1. retrying[t] \in BOOLEAN /\ Asked(retrying[t])
    BY <1>3, SavedIsAsked DEF PrepareReturns
  <2>2. MayBegin /\ row.tries + (IF retrying[t] THEN 1 ELSE 0) = NextTries
    BY <2>1, AskedMayBegin
  <2> QED
    BY <1>3, <2>2 DEF PrepareReturns, Write, Dispatched, Commits
<1> QED
  BY <1>1, <1>2, <1>3

LEMMA PreparationFails ==
  ASSUME TypeOK, Loaded, Holding, NEW t \in Terminals, PrepareFails(t)
  PROVE  /\ MayBegin /\ fresh' = {}
         /\ row' = Row("awaiting_step_retry", "failed", NextTries)
<1>1. retrying[t] \in BOOLEAN /\ Asked(retrying[t])
  BY SavedIsAsked DEF PrepareFails
<1>2. MayBegin /\ row.tries + (IF retrying[t] THEN 1 ELSE 0) = NextTries
  BY <1>1, AskedMayBegin
<1> QED
  BY <1>2 DEF PrepareFails, Write

LEMMA RefusalFails ==
  ASSUME NEW t \in Terminals, WriteRefused(t)
  PROVE  \/ row' = row /\ fresh' = fresh
         \/ /\ row.step = "waiting" /\ fresh' = {}
            /\ row' = Row("awaiting_step_retry", "failed", row.tries)
BY DEF WriteRefused, FailWaiting, Write, IsWaiting

LEMMA DisconnectFails ==
  ASSUME NEW t \in Terminals, Disconnect(t)
  PROVE  \/ row' = row /\ fresh' = fresh
         \/ /\ row.step = "waiting" /\ fresh' = {}
            /\ row' = Row("awaiting_step_retry", "failed", row.tries)
BY DEF Disconnect, OwnsStep, FailWaiting, Write, IsWaiting

\* A step begun by a web request runs; its task leaves it waiting or failed.
LEMMA TaskMoves ==
  ASSUME TypeOK, Tasked, ByTask
  PROVE  Moves
<1>1. ASSUME NEW retry \in BOOLEAN, WebBegin(retry)
      PROVE  Moves
  <2>1. Asked(retry)
    BY <1>1 DEF WebBegin
  <2>2. MayBegin /\ row.tries + (IF retry THEN 1 ELSE 0) = NextTries
    BY <2>1, AskedMayBegin
  <2> QED
    BY <1>1, <2>2 DEF WebBegin, WebWrites, Write, Moves
<1>2. CASE TaskLoads
  BY <1>2 DEF TaskLoads, Moves
<1>3. CASE TaskEnds
  BY <1>3 DEF TaskEnds, MaySave, Write, Tasked, Moves
<1> QED
  BY <1>1, <1>2, <1>3 DEF ByTask

LEMMA RowMoves == TypeOK /\ Shape /\ Loaded /\ Holding /\ Tasked /\ [Next]_vars => Moves
<1> SUFFICES ASSUME TypeOK, Shape, Loaded, Holding, Tasked, [Next]_vars PROVE Moves
  OBVIOUS
<1>1. CASE UNCHANGED vars
  BY <1>1 DEF vars, Moves
<1>2. ASSUME NEW t \in Terminals, Terminal(t)
      PROVE  Moves
  <2>1. ASSUME NEW retry \in BOOLEAN,
               DispatchShell(t, retry) \/ CheckPasses(t) \/ PrepareReturns(t)
        PROVE  Moves
    BY <2>1, DispatchesCommit DEF Commits, GivesUp, Moves
  <2>2. CASE PrepareFails(t)
    BY <2>2, PreparationFails DEF Moves
  <2>3. CASE ActFails(t)
    BY <2>3, RefusalFails DEF ActFails, Moves
  <2>4. CASE Disconnect(t)
    BY <2>4, DisconnectFails DEF Moves
  <2>5. CASE \/ Open(t) \/ ShellEnds(t) \/ SessionEnds(t) \/ CheckFails(t) \/ ActUnrecorded(t)
             \/ \E retry \in BOOLEAN : Check(t, retry) \/ Prepare(t, retry)
    BY <2>5 DEF Open, ShellEnds, SessionEnds, CheckFails, ActUnrecorded, Check, Prepare, Moves
  <2>6. TRUE \in BOOLEAN
    OBVIOUS
  <2> QED
    BY <1>2, <2>1, <2>2, <2>3, <2>4, <2>5, <2>6 DEF Terminal
<1>3. ASSUME NEW t \in Terminals, Type(t) \/ TypeFails(t)
      PROVE  Moves
  BY <1>3, RefusalFails DEF Type, TypeFails, Moves
<1>4. CASE Pause
  <2>1. row.step = "waiting" /\ fresh' = {} /\ row' = [row EXCEPT !.status = "paused"]
    BY <1>4 DEF Pause, IsWaiting, WebWrites, Write
  <2>2. row' = Row("paused", "waiting", row.tries)
    BY <2>1 DEF Shape, Row
  <2> QED
    BY <2>1, <2>2 DEF Moves
<1>5. CASE Resume
  <2>1. row.status = "paused" /\ fresh' = {}
        /\ row' = [row EXCEPT !.status = "awaiting_step_completion"]
    BY <1>5 DEF Resume, WebWrites, Write
  <2>2. row.step = "waiting"
    BY <2>1 DEF TypeOK
  <2>3. row' = Row("awaiting_step_completion", "waiting", row.tries)
    BY <2>1, <2>2 DEF Shape, Row
  <2> QED
    BY <2>1, <2>2, <2>3 DEF Moves
<1>6. CASE Cancel
  <2>1. row.status \notin Ended /\ fresh' = {}
        /\ row' = [row EXCEPT !.status = "cancelled", !.step = "cancelled"]
    BY <1>6 DEF Cancel, WebWrites, Write
  <2>2. row' = Row("cancelled", "cancelled", row.tries)
    BY <2>1 DEF Shape, Row
  <2> QED
    BY <2>1, <2>2 DEF Moves
<1>7. CASE Complete
  BY <1>7 DEF Complete, IsWaiting, Write, Moves
<1>8. CASE Confirm
  BY <1>8 DEF Confirm, IsWaiting, WebWrites, Write, Moves
<1>9. CASE HoldElsewhere \/ ReleaseElsewhere \/ AskComplete \/ Crash
  BY <1>9 DEF HoldElsewhere, ReleaseElsewhere, AskComplete, Crash, Moves
<1>10. CASE ByTask
  BY <1>10, TaskMoves
<1> QED
  BY <1>1, <1>2, <1>3, <1>4, <1>5, <1>6, <1>7, <1>8, <1>9, <1>10 DEF Next, ByHand

LEMMA ShapeKept == TypeOK /\ Shape /\ Moves => Shape'
BY RowFields DEF Moves, Shape

LEMMA RowTyped ==
  ASSUME TypeOK, Moves
  PROVE  /\ <<row'.status, row'.step>> \in
              {<<"awaiting_step_start", "pending">>, <<"running", "running">>,
               <<"awaiting_step_completion", "waiting">>, <<"paused", "waiting">>,
               <<"awaiting_step_retry", "failed">>, <<"completed", "succeeded">>,
               <<"cancelled", "cancelled">>}
         /\ row'.tries \in 0..MaxTries
<1>1. row.tries \in 0..MaxTries /\ MaxTries \in Nat
  BY TriesAssumption DEF TypeOK
<1>2. MayBegin => NextTries \in 0..MaxTries
  BY <1>1 DEF MayBegin, NextTries
<1>3. CASE row' = row
  BY <1>3 DEF TypeOK
<1>4. CASE row' # row
  BY <1>1, <1>2, <1>4, RowFields DEF Moves
<1> QED
  BY <1>3, <1>4

-----------------------------------------------------------------------------
(* Types *)

SessionsTyped ==
  /\ at \in [Terminals -> {"closed", "idle", "checking", "preparing", "typing", "ending"}]
  /\ retrying \in [Terminals -> BOOLEAN] /\ shell \in [Terminals -> BOOLEAN]
  /\ lease \in [Terminals -> BOOLEAN]

HoldersTyped ==
  /\ kind \in Kinds
  /\ fresh \subseteq Terminals \cup {Web, Task}
  /\ writer \in Terminals \cup {Elsewhere, Free} /\ driver \in Terminals \cup {Free}
  /\ excused \subseteq {"lost write", "paused", "crash"} /\ refused \in BOOLEAN

AttemptsTyped ==
  /\ typed \in [Attempts -> Nat]
  /\ completing \in {0} \cup Attempts /\ completed \in {0} \cup Attempts

TasksTyped == task \in {"none", "queued", "running"} /\ ran \subseteq Attempts

LEMMA AttemptIs == TypeOK => Attempt \in Attempts
BY TriesAre, TriesAssumption DEF Attempt, Attempts

LEMMA SessionsKept ==
  ASSUME SessionsTyped, [Next]_vars
  PROVE  SessionsTyped'
<1>1. CASE UNCHANGED vars
  BY <1>1 DEF vars, session, SessionsTyped
<1>2. ASSUME LoopIsFree, NEW t \in Terminals, Terminal(t)
      PROVE  SessionsTyped'
  <2>1. CASE Open(t) \/ ShellEnds(t) \/ SessionEnds(t) \/ CheckFails(t) \/ ActUnrecorded(t)
    BY <1>2, <2>1 DEF LoopIsFree, Open, ShellEnds, SessionEnds, CheckFails, ActUnrecorded,
       SessionsTyped
  <2>2. CASE Disconnect(t)
    BY <1>2, <2>2 DEF LoopIsFree, Disconnect, SessionsTyped
  <2>3. ASSUME NEW retry \in BOOLEAN, DispatchShell(t, retry) \/ Check(t, retry) \/ Prepare(t,
               retry)
        PROVE  SessionsTyped'
    BY <1>2, <2>3 DEF LoopIsFree, DispatchShell, Check, Prepare, SessionsTyped
  <2>4. CASE CheckPasses(t) \/ PrepareReturns(t) \/ PrepareFails(t)
    BY <1>2, <2>4 DEF LoopIsFree, CheckPasses, PrepareReturns, PrepareFails, SessionsTyped
  <2>5. CASE ActFails(t)
    BY <1>2, <2>5 DEF LoopIsFree, ActFails, WriteRefused, SessionsTyped
  <2> QED
    BY <1>2, <2>1, <2>2, <2>3, <2>4, <2>5 DEF Terminal
<1>3. CASE LoopIsFree /\ (HoldElsewhere \/ ReleaseElsewhere \/ Resume \/ Cancel \/
           AskComplete \/ Complete \/ Confirm)
  BY <1>3 DEF LoopIsFree, HoldElsewhere, ReleaseElsewhere, Resume, Cancel, AskComplete,
     Complete, Confirm, session, WebWrites, SessionsTyped
<1>4. ASSUME NEW t \in Terminals, Type(t)
      PROVE  SessionsTyped'
  BY <1>4 DEF Type, SessionsTyped
<1>5. ASSUME NEW t \in Terminals, TypeFails(t)
      PROVE  SessionsTyped'
  BY <1>5 DEF TypeFails, WriteRefused, SessionsTyped
<1>6. CASE Pause
  BY <1>6 DEF Pause, WebWrites, session, SessionsTyped
<1>7. CASE Crash
  BY <1>7 DEF Crash, SessionsTyped
<1>8. CASE ByTask
  BY <1>8 DEF ByTask, WebBegin, TaskLoads, TaskEnds, WebWrites, session, SessionsTyped
<1> QED
  BY <1>1, <1>2, <1>3, <1>4, <1>5, <1>6, <1>7, <1>8 DEF Next, ByHand

LEMMA HoldersKept ==
  ASSUME HoldersTyped, [Next]_vars
  PROVE  HoldersTyped'
<1>1. CASE UNCHANGED vars
  BY <1>1 DEF vars, session, HoldersTyped
<1>2. ASSUME LoopIsFree, NEW t \in Terminals, Terminal(t)
      PROVE  HoldersTyped'
  <2>1. CASE Open(t) \/ ShellEnds(t) \/ SessionEnds(t) \/ CheckFails(t) \/ ActUnrecorded(t)
    BY <1>2, <2>1 DEF LoopIsFree, Open, ShellEnds, SessionEnds, CheckFails, ActUnrecorded,
       HoldersTyped
  <2>2. CASE Disconnect(t)
    BY <1>2, <2>2 DEF LoopIsFree, Disconnect, FailWaiting, Write, HoldersTyped
  <2>3. ASSUME NEW retry \in BOOLEAN, DispatchShell(t, retry) \/ Check(t, retry) \/ Prepare(t,
               retry)
        PROVE  HoldersTyped'
    BY <1>2, <2>3 DEF LoopIsFree, DispatchShell, Check, Prepare, Write, HoldersTyped
  <2>4. CASE CheckPasses(t) \/ PrepareReturns(t) \/ PrepareFails(t)
    BY <1>2, <2>4 DEF LoopIsFree, CheckPasses, PrepareReturns, PrepareFails, Write, HoldersTyped
  <2>5. CASE ActFails(t)
    BY <1>2, <2>5 DEF LoopIsFree, ActFails, WriteRefused, FailWaiting, Write, HoldersTyped
  <2> QED
    BY <1>2, <2>1, <2>2, <2>3, <2>4, <2>5 DEF Terminal
<1>3. CASE LoopIsFree /\ (HoldElsewhere \/ ReleaseElsewhere \/ Resume \/ Cancel \/
           AskComplete \/ Complete \/ Confirm)
  BY <1>3 DEF LoopIsFree, HoldElsewhere, ReleaseElsewhere, Resume, Cancel, AskComplete,
     Complete, Confirm, session, WebWrites, Write, HoldersTyped
<1>4. ASSUME NEW t \in Terminals, Type(t)
      PROVE  HoldersTyped'
  BY <1>4 DEF Type, HoldersTyped
<1>5. ASSUME NEW t \in Terminals, TypeFails(t)
      PROVE  HoldersTyped'
  BY <1>5 DEF TypeFails, WriteRefused, FailWaiting, Write, HoldersTyped
<1>6. CASE Pause
  BY <1>6 DEF Pause, WebWrites, Write, session, HoldersTyped
<1>7. CASE Crash
  BY <1>7 DEF Crash, HoldersTyped
<1>8. CASE ByTask
  BY <1>8 DEF ByTask, WebBegin, TaskLoads, TaskEnds, WebWrites, Write, session, HoldersTyped
<1> QED
  BY <1>1, <1>2, <1>3, <1>4, <1>5, <1>6, <1>7, <1>8 DEF Next, ByHand

LEMMA AttemptsKept ==
  ASSUME TypeOK, AttemptsTyped, Attempt \in Attempts, [Next]_vars
  PROVE  AttemptsTyped'
<1>1. CASE UNCHANGED vars
  BY <1>1 DEF vars, session, AttemptsTyped
<1>2. ASSUME LoopIsFree, NEW t \in Terminals, Terminal(t)
      PROVE  AttemptsTyped'
  <2>1. CASE Open(t) \/ ShellEnds(t) \/ SessionEnds(t) \/ CheckFails(t) \/ ActUnrecorded(t)
    BY <1>2, <2>1 DEF LoopIsFree, Open, ShellEnds, SessionEnds, CheckFails, ActUnrecorded,
       AttemptsTyped
  <2>2. CASE Disconnect(t)
    BY <1>2, <2>2 DEF LoopIsFree, Disconnect, AttemptsTyped
  <2>3. ASSUME NEW retry \in BOOLEAN, DispatchShell(t, retry) \/ Check(t, retry) \/ Prepare(t,
               retry)
        PROVE  AttemptsTyped'
    BY <1>2, <2>3 DEF LoopIsFree, DispatchShell, Check, Prepare, AttemptsTyped
  <2>4. CASE CheckPasses(t) \/ PrepareReturns(t) \/ PrepareFails(t)
    BY <1>2, <2>4 DEF LoopIsFree, CheckPasses, PrepareReturns, PrepareFails, AttemptsTyped
  <2>5. CASE ActFails(t)
    BY <1>2, <2>5 DEF LoopIsFree, ActFails, WriteRefused, AttemptsTyped
  <2> QED
    BY <1>2, <2>1, <2>2, <2>3, <2>4, <2>5 DEF Terminal
<1>3. CASE LoopIsFree /\ (HoldElsewhere \/ ReleaseElsewhere \/ Resume \/ Cancel \/
           AskComplete \/ Complete \/ Confirm)
  BY <1>3 DEF LoopIsFree, HoldElsewhere, ReleaseElsewhere, Resume, Cancel, AskComplete,
     Complete, Confirm, session, WebWrites, AttemptsTyped
<1>4. ASSUME NEW t \in Terminals, Type(t)
      PROVE  AttemptsTyped'
  BY <1>4 DEF Type, AttemptsTyped
<1>5. ASSUME NEW t \in Terminals, TypeFails(t)
      PROVE  AttemptsTyped'
  BY <1>5 DEF TypeFails, WriteRefused, AttemptsTyped
<1>6. CASE Pause
  BY <1>6 DEF Pause, WebWrites, session, AttemptsTyped
<1>7. CASE Crash
  BY <1>7 DEF Crash, AttemptsTyped
<1>8. CASE ByTask
  BY <1>8 DEF ByTask, WebBegin, TaskLoads, TaskEnds, WebWrites, session, AttemptsTyped
<1> QED
  BY <1>1, <1>2, <1>3, <1>4, <1>5, <1>6, <1>7, <1>8 DEF Next, ByHand

LEMMA TasksKept ==
  ASSUME TasksTyped, Attempt \in Attempts, [Next]_vars
  PROVE  TasksTyped'
<1>1. CASE UNCHANGED <<task, ran>>
  BY <1>1 DEF TasksTyped
<1>2. CASE ByTask
  BY <1>2 DEF ByTask, WebBegin, TaskLoads, TaskEnds, TasksTyped
<1>3. CASE Crash
  BY <1>3 DEF Crash, TasksTyped
<1> QED
  BY <1>1, <1>2, <1>3 DEF Next, vars

LEMMA TypeKept == TypeOK /\ Moves /\ [Next]_vars => TypeOK'
<1> SUFFICES ASSUME TypeOK, Moves, [Next]_vars PROVE TypeOK'
  OBVIOUS
<1>1. SessionsTyped /\ HoldersTyped /\ AttemptsTyped /\ TasksTyped
  BY DEF TypeOK, SessionsTyped, HoldersTyped, AttemptsTyped, TasksTyped
<1>2. SessionsTyped' /\ HoldersTyped' /\ AttemptsTyped' /\ TasksTyped'
  BY <1>1, AttemptIs, SessionsKept, HoldersKept, AttemptsKept, TasksKept
<1> QED
  BY <1>2, RowTyped DEF TypeOK, SessionsTyped, HoldersTyped, AttemptsTyped, TasksTyped

-----------------------------------------------------------------------------
(* What a dispatch may rely on when its await returns *)

LEMMA LoadedKept ==
  ASSUME SessionsTyped, HoldersTyped, Loaded, Moves, [Next]_vars
  PROVE  Loaded'
<1>1. CASE UNCHANGED vars
  BY HoldersAssumption, <1>1 DEF vars, session, Loaded, Asked, SessionsTyped, HoldersTyped
<1>2. ASSUME LoopIsFree, NEW t \in Terminals, Terminal(t)
      PROVE  Loaded'
  <2>1. CASE Open(t) \/ ShellEnds(t) \/ SessionEnds(t) \/ CheckFails(t) \/ ActUnrecorded(t)
    BY HoldersAssumption, <1>2, <2>1, ZenonT(60)
    DEF LoopIsFree, Open, ShellEnds, SessionEnds, CheckFails,
       ActUnrecorded, Loaded, Asked, SessionsTyped, HoldersTyped
  <2>2. CASE Disconnect(t)
    BY HoldersAssumption, <1>2, <2>2 DEF LoopIsFree, Disconnect, OwnsStep, FailWaiting, Write,
       Loaded, Asked, SessionsTyped, HoldersTyped
  <2>3. ASSUME NEW retry \in BOOLEAN, DispatchShell(t, retry)
        PROVE  Loaded'
    BY HoldersAssumption, <1>2, <2>3 DEF LoopIsFree, DispatchShell, Validated, Write, Loaded,
       Asked, SessionsTyped, HoldersTyped
  <2>4. ASSUME NEW retry \in BOOLEAN, Check(t, retry)
        PROVE  Loaded'
    BY HoldersAssumption, <1>2, <2>4 DEF LoopIsFree, Check, Validated, Loaded, Asked,
       SessionsTyped, HoldersTyped
  <2>5. ASSUME NEW retry \in BOOLEAN, Prepare(t, retry)
        PROVE  Loaded'
    <3>1. CASE writer = Free
      <4>1. /\ at' = [at EXCEPT ![t] = "preparing"] /\ fresh' = fresh \cup {t}
            /\ retrying' = [retrying EXCEPT ![t] = retry] /\ row' = row
        BY <2>5, <3>1 DEF Prepare
      <4>2. Asked(retry)' /\ (\A b \in BOOLEAN : Asked(b)' <=> Asked(b))
        BY <2>5, <4>1 DEF Prepare, Validated, Asked
      <4>3. ASSUME NEW u \in Terminals, u \in fresh', at'[u] \in {"checking", "preparing"}
            PROVE  Asked(retrying[u])'
        <5>1. CASE u = t
          BY <4>1, <4>2, <5>1 DEF SessionsTyped
        <5>2. CASE u # t
          BY <4>1, <4>2, <4>3, <5>2 DEF SessionsTyped, Loaded
        <5> QED
          BY <5>1, <5>2
      <4> QED
        BY <4>3 DEF Loaded
    <3>2. CASE writer # Free
      BY HoldersAssumption, <1>2, <2>5, <3>2
         DEF LoopIsFree, Prepare, Validated, Loaded, Asked, SessionsTyped, HoldersTyped
    <3> QED
      BY <3>1, <3>2
  <2>6. CASE CheckPasses(t)
    BY HoldersAssumption, <1>2, <2>6 DEF LoopIsFree, CheckPasses, Write, Loaded, Asked,
       SessionsTyped, HoldersTyped
  <2>7. CASE PrepareReturns(t)
    BY HoldersAssumption, <1>2, <2>7 DEF LoopIsFree, PrepareReturns, Write, Loaded, Asked,
       SessionsTyped, HoldersTyped
  <2>8. CASE PrepareFails(t)
    BY HoldersAssumption, <1>2, <2>8 DEF LoopIsFree, PrepareFails, Write, Loaded, Asked,
       SessionsTyped, HoldersTyped
  <2>9. CASE ActFails(t)
    BY HoldersAssumption, <1>2, <2>9 DEF LoopIsFree, ActFails, WriteRefused, FailWaiting, Write,
       Loaded, Asked, SessionsTyped, HoldersTyped
  <2> QED
    BY <1>2, <2>1, <2>2, <2>3, <2>4, <2>5, <2>6, <2>7, <2>8, <2>9 DEF Terminal
<1>3. CASE LoopIsFree /\ (HoldElsewhere \/ ReleaseElsewhere \/ AskComplete)
  BY HoldersAssumption, <1>3 DEF LoopIsFree, HoldElsewhere, ReleaseElsewhere, AskComplete,
     session, Loaded, Asked, SessionsTyped, HoldersTyped
<1>4. CASE LoopIsFree /\ (Resume \/ Cancel \/ Confirm)
  BY HoldersAssumption, <1>4 DEF LoopIsFree, Resume, Cancel, Confirm, WebWrites, Write, session,
     Loaded, Asked, SessionsTyped, HoldersTyped
<1>5. CASE LoopIsFree /\ Complete
  BY HoldersAssumption, <1>5 DEF LoopIsFree, Complete, Write, session, Loaded, Asked,
     SessionsTyped, HoldersTyped
<1>6. ASSUME NEW t \in Terminals, Type(t)
      PROVE  Loaded'
  BY HoldersAssumption, <1>6 DEF Type, Loaded, Asked, SessionsTyped, HoldersTyped
<1>7. ASSUME NEW t \in Terminals, TypeFails(t)
      PROVE  Loaded'
  BY HoldersAssumption, <1>7 DEF TypeFails, WriteRefused, FailWaiting, Write, Loaded, Asked,
     SessionsTyped, HoldersTyped
<1>8. CASE Pause
  BY HoldersAssumption, <1>8 DEF Pause, WebWrites, Write, session, Loaded, Asked, SessionsTyped,
     HoldersTyped
<1>9. CASE Crash
  BY HoldersAssumption, <1>9 DEF Crash, Loaded, Asked, SessionsTyped, HoldersTyped
<1>10. CASE ByTask
  BY HoldersAssumption, <1>10 DEF ByTask, WebBegin, TaskLoads, TaskEnds, WebWrites, Write,
     session, Loaded, Asked, SessionsTyped, HoldersTyped
<1> QED
  BY <1>1, <1>2, <1>3, <1>4, <1>5, <1>6, <1>7, <1>8, <1>9, <1>10 DEF Next, ByHand

LEMMA HoldingKept ==
  ASSUME SessionsTyped, HoldersTyped, Holding, [Next]_vars
  PROVE  Holding'
<1>1. CASE UNCHANGED vars
  BY HoldersAssumption, <1>1 DEF vars, session, Holding, SessionsTyped, HoldersTyped
<1>2. ASSUME LoopIsFree, NEW t \in Terminals, Terminal(t)
      PROVE  Holding'
  <2>1. CASE Open(t) \/ ShellEnds(t) \/ SessionEnds(t) \/ CheckFails(t) \/ ActUnrecorded(t)
    BY HoldersAssumption, <1>2, <2>1 DEF LoopIsFree, Open, ShellEnds, SessionEnds, CheckFails,
       ActUnrecorded, MayAct, Holding, SessionsTyped, HoldersTyped
  <2>2. CASE Disconnect(t)
    BY HoldersAssumption, <1>2, <2>2 DEF LoopIsFree, Disconnect, Holding, SessionsTyped,
       HoldersTyped
  <2>3. ASSUME NEW retry \in BOOLEAN, DispatchShell(t, retry)
        PROVE  Holding'
    BY HoldersAssumption, <1>2, <2>3 DEF LoopIsFree, DispatchShell, Validated, Holding,
       SessionsTyped, HoldersTyped
  <2>4. ASSUME NEW retry \in BOOLEAN, Check(t, retry)
        PROVE  Holding'
    BY HoldersAssumption, <1>2, <2>4 DEF LoopIsFree, Check, Validated, Holding, SessionsTyped,
       HoldersTyped
  <2>5. ASSUME NEW retry \in BOOLEAN, Prepare(t, retry)
        PROVE  Holding'
    <3>1. CASE writer = Free
      <4>1. at' = [at EXCEPT ![t] = "preparing"] /\ writer' = t
        BY <2>5, <3>1 DEF Prepare
      <4>2. ASSUME NEW u \in Terminals
            PROVE  (writer' = u) <=> (at'[u] = "preparing")
        BY <3>1, <4>1, HoldersAssumption DEF Holding, SessionsTyped
      <4> QED
        BY <4>2 DEF Holding
    <3>2. CASE writer # Free
      BY HoldersAssumption, <1>2, <2>5, <3>2
         DEF LoopIsFree, Prepare, Validated, Holding, SessionsTyped, HoldersTyped
    <3> QED
      BY <3>1, <3>2
  <2>6. CASE CheckPasses(t)
    BY HoldersAssumption, <1>2, <2>6 DEF LoopIsFree, CheckPasses, MaySave, Holding,
       SessionsTyped, HoldersTyped
  <2>7. CASE PrepareReturns(t)
    BY HoldersAssumption, <1>2, <2>7 DEF LoopIsFree, PrepareReturns, MaySave, Holding,
       SessionsTyped, HoldersTyped
  <2>8. CASE PrepareFails(t)
    BY HoldersAssumption, <1>2, <2>8 DEF LoopIsFree, PrepareFails, MaySave, Holding,
       SessionsTyped, HoldersTyped
  <2>9. CASE ActFails(t)
    BY HoldersAssumption, <1>2, <2>9 DEF LoopIsFree, ActFails, MayAct, WriteRefused, Holding,
       SessionsTyped, HoldersTyped
  <2> QED
    BY <1>2, <2>1, <2>2, <2>3, <2>4, <2>5, <2>6, <2>7, <2>8, <2>9 DEF Terminal
<1>3. CASE LoopIsFree /\ (HoldElsewhere \/ ReleaseElsewhere \/ AskComplete)
  BY HoldersAssumption, <1>3 DEF LoopIsFree, HoldElsewhere, ReleaseElsewhere, AskComplete,
     session, Holding, SessionsTyped, HoldersTyped
<1>4. CASE LoopIsFree /\ (Resume \/ Cancel \/ Confirm)
  BY HoldersAssumption, <1>4 DEF LoopIsFree, Resume, Cancel, Confirm, WebWrites, session,
     Holding, SessionsTyped, HoldersTyped
<1>5. CASE LoopIsFree /\ Complete
  BY HoldersAssumption, <1>5 DEF LoopIsFree, Complete, MaySave, session, Holding, SessionsTyped,
     HoldersTyped
<1>6. ASSUME NEW t \in Terminals, Type(t)
      PROVE  Holding'
  BY HoldersAssumption, <1>6 DEF Type, Holding, SessionsTyped, HoldersTyped
<1>7. ASSUME NEW t \in Terminals, TypeFails(t)
      PROVE  Holding'
  BY HoldersAssumption, <1>7 DEF TypeFails, WriteRefused, Holding, SessionsTyped, HoldersTyped
<1>8. CASE Pause
  BY HoldersAssumption, <1>8 DEF Pause, WebWrites, session, Holding, SessionsTyped, HoldersTyped
<1>9. CASE Crash
  BY HoldersAssumption, <1>9 DEF Crash, Holding, SessionsTyped, HoldersTyped
<1>10. CASE ByTask
  BY <1>10 DEF ByTask, WebBegin, TaskLoads, TaskEnds, WebWrites, session, Holding,
     SessionsTyped, HoldersTyped
<1> QED
  BY <1>1, <1>2, <1>3, <1>4, <1>5, <1>6, <1>7, <1>8, <1>9, <1>10 DEF Next, ByHand

LEMMA CheckingKept ==
  ASSUME SessionsTyped, Checking, [Next]_vars
  PROVE  Checking'
<1>1. CASE UNCHANGED vars
  BY <1>1 DEF vars, session, Checking, SessionsTyped
<1>2. ASSUME LoopIsFree, NEW t \in Terminals, Terminal(t)
      PROVE  Checking'
  <2>1. CASE Open(t) \/ ShellEnds(t) \/ SessionEnds(t) \/ CheckFails(t) \/ Disconnect(t) \/
             CheckPasses(t) \/ PrepareReturns(t) \/ PrepareFails(t) \/ ActUnrecorded(t) \/
             ActFails(t)
    BY <1>2, <2>1 DEF LoopIsFree, Open, ShellEnds, SessionEnds, CheckFails, Disconnect,
       CheckPasses, PrepareReturns, PrepareFails, ActUnrecorded, ActFails, WriteRefused,
       Checking, SessionsTyped
  <2>2. ASSUME NEW retry \in BOOLEAN, DispatchShell(t, retry) \/ Check(t, retry) \/ Prepare(t,
               retry)
        PROVE  Checking'
    BY <1>2, <2>2 DEF LoopIsFree, DispatchShell, Check, Prepare, Checking, SessionsTyped
  <2> QED
    BY <1>2, <2>1, <2>2 DEF Terminal
<1>3. CASE LoopIsFree /\ (HoldElsewhere \/ ReleaseElsewhere \/ Resume \/ Cancel \/
           AskComplete \/ Complete \/ Confirm)
  BY <1>3 DEF LoopIsFree, HoldElsewhere, ReleaseElsewhere, Resume, Cancel, AskComplete,
     Complete, Confirm, session, WebWrites, Checking, SessionsTyped
<1>4. ASSUME NEW t \in Terminals, Type(t) \/ TypeFails(t)
      PROVE  Checking'
  BY <1>4 DEF Type, TypeFails, WriteRefused, Checking, SessionsTyped
<1>5. CASE Pause
  BY <1>5 DEF Pause, WebWrites, session, Checking, SessionsTyped
<1>6. CASE Crash
  BY <1>6 DEF Crash, Checking, SessionsTyped
<1>7. CASE ByTask
  BY <1>7 DEF ByTask, WebBegin, TaskLoads, TaskEnds, WebWrites, session, Checking, SessionsTyped
<1> QED
  BY <1>1, <1>2, <1>3, <1>4, <1>5, <1>6, <1>7 DEF Next, ByHand


-----------------------------------------------------------------------------
(* One command per attempt *)

LEMMA TriesAfter ==
  ASSUME TypeOK, NEW s, NEW p, NEW n \in Nat, row' = Row(s, p, n)
  PROVE  row'.status = s /\ row'.step = p /\ row'.tries = n /\ Attempt' = n + 1
BY RowFields DEF Attempt

\* No command has been typed for the attempt that a dispatch begins.
LEMMA NextIsUntyped ==
  ASSUME TypeOK, Counted, MayBegin
  PROVE  NextTries + 1 \in Attempts /\ typed[NextTries + 1] = 0 /\ NextTries + 1 \notin ran
<1>1. row.tries \in Nat /\ NextTries \in Nat /\ NextTries <= MaxTries /\ MaxTries \in Nat
  BY TriesAre, TriesAssumption DEF MayBegin
<1>2. NextTries + 1 \in Attempts
  BY <1>1 DEF Attempts
<1>3. CASE row.step = "pending"
  BY <1>2, <1>3 DEF Counted
<1>4. CASE row.step = "failed"
  <2>1. NextTries + 1 > Attempt
    BY <1>1, <1>4 DEF NextTries, Attempt
  <2> QED
    BY <1>2, <2>1 DEF Counted
<1> QED
  BY <1>3, <1>4 DEF MayBegin

LEMMA CommitTypes ==
  ASSUME TypeOK, Counted, LoopIsFree, NEW t \in Terminals, Commits(t), writer' = Free,
         typed' = typed, ran' = ran
  PROVE  Typing'
<1>1. NextTries \in Nat
  BY TriesAre
<1>2. row'.step = "waiting" /\ Attempt' = NextTries + 1
  BY <1>1, TriesAfter DEF Commits
<1>3. typed'[Attempt'] = 0 /\ Attempt' \notin ran'
  BY <1>2, NextIsUntyped DEF Commits
<1>4. \A u \in Terminals : at'[u] = "typing" => u = t
  BY DEF Commits, LoopIsFree, TypeOK
<1> QED
  BY <1>2, <1>3, <1>4 DEF Typing

LEMMA TypingKept ==
  ASSUME TypeOK, Shape, Loaded, Holding, Typing, Counted, [Next]_vars
  PROVE  Typing'
<1>1. CASE UNCHANGED vars
  BY <1>1 DEF vars, session, Typing, Attempt
<1>2. ASSUME LoopIsFree, NEW t \in Terminals, Terminal(t), ran' = ran
      PROVE  Typing'
  <2>1. ASSUME NEW retry \in BOOLEAN,
               DispatchShell(t, retry) \/ CheckPasses(t) \/ PrepareReturns(t)
        PROVE  Typing'
    <3>1. CASE GivesUp(t)
      <4>1. \A u \in Terminals : at'[u] # "typing"
        BY <1>2, <3>1 DEF GivesUp, LoopIsFree, TypeOK
      <4> QED
        BY <4>1 DEF Typing
    <3>2. CASE Commits(t) /\ ~GivesUp(t)
      <4>1. typed' = typed
        BY <2>1 DEF DispatchShell, CheckPasses, PrepareReturns
      <4>2. writer' = Free
        <5>1. CASE DispatchShell(t, retry)
          BY <3>2, <5>1 DEF DispatchShell, GivesUp
        <5>2. CASE CheckPasses(t)
          <6>1. MaySave(t) /\ writer # t /\ writer' = writer
            BY <3>2, <5>2 DEF CheckPasses, GivesUp, Holding
          <6> QED
            BY <6>1 DEF MaySave
        <5>3. CASE PrepareReturns(t)
          BY <5>3 DEF PrepareReturns
        <5> QED
          BY <2>1, <5>1, <5>2, <5>3
      <4> QED
        BY <1>2, <3>2, <4>1, <4>2, CommitTypes
    <3> QED
      BY <2>1, <3>1, <3>2, DispatchesCommit
  <2>2. CASE \/ Open(t) \/ ShellEnds(t) \/ SessionEnds(t) \/ Disconnect(t) \/ CheckFails(t)
             \/ PrepareFails(t) \/ ActUnrecorded(t) \/ ActFails(t)
             \/ \E retry \in BOOLEAN : Check(t, retry) \/ Prepare(t, retry)
    <3>1. \A u \in Terminals : at'[u] # "typing"
      BY <1>2, <2>2 DEF LoopIsFree, TypeOK, Open, ShellEnds, SessionEnds, Disconnect, CheckFails,
         PrepareFails, ActUnrecorded, ActFails, WriteRefused, Check, Prepare
    <3> QED
      BY <3>1 DEF Typing
  <2>3. TRUE \in BOOLEAN
    OBVIOUS
  <2> QED
    BY <1>2, <2>1, <2>2, <2>3 DEF Terminal
<1>3. CASE LoopIsFree /\ (HoldElsewhere \/ ReleaseElsewhere \/ Resume \/ Cancel \/ AskComplete
                          \/ Complete \/ Confirm)
  BY <1>3 DEF LoopIsFree, HoldElsewhere, ReleaseElsewhere, Resume, Cancel, WebWrites,
     AskComplete, Complete, Confirm, session, Typing
<1>4. ASSUME NEW t \in Terminals, Type(t) \/ TypeFails(t)
      PROVE  Typing'
  <2>1. \A u \in Terminals : at'[u] # "typing"
    BY <1>4 DEF Type, TypeFails, WriteRefused, Typing, TypeOK
  <2> QED
    BY <2>1 DEF Typing
<1>5. CASE Pause /\ ran' = ran
  <2>1. row'.step = row.step /\ row'.tries = row.tries /\ UNCHANGED <<at, writer, typed, ran>>
    BY <1>5 DEF Shape, Row, Pause, WebWrites, Write, session
  <2> QED
    BY <2>1 DEF Typing, Attempt
<1>6. CASE Crash
  BY <1>6 DEF Crash, Typing
<1>7. CASE LoopIsFree /\ ByTask
  BY <1>7 DEF LoopIsFree, ByTask, WebBegin, TaskLoads, TaskEnds, WebWrites, session, Typing
<1> QED
  BY <1>1, <1>2, <1>3, <1>4, <1>5, <1>6, <1>7 DEF Next, ByHand

\* Until its command is typed an attempt counts none, and never a second.
LEMMA CountedKept ==
  ASSUME TypeOK, Moves, Typing, Counted, [Next]_vars
  PROVE  Counted'
<1> DEFINE C(a) == /\ typed'[a] <= 1 /\ (a \in ran' => typed'[a] = 0)
                   /\ a > Attempt' \/ row'.step = "pending" => typed'[a] = 0 /\ a \notin ran'
                   /\ a = Attempt' /\ row'.step = "running" => typed'[a] = 0
<1>1. row.tries \in Nat /\ NextTries \in Nat /\ Attempt \in Attempts
  BY TriesAre, AttemptIs
<1>2. Attempt \in Nat /\ Attempt' \in Nat /\ Attempt' >= Attempt
      /\ (row'.step = "pending" => row' = row)
  <2>1. CASE row' = row
    BY <1>1, <2>1 DEF Attempt
  <2>2. CASE row' # row
    BY <1>1, <2>2, RowFields DEF Moves, Attempt, NextTries
  <2> QED
    BY <2>1, <2>2
<1>3. CASE typed' = typed /\ ran' = ran
  <2>1. row'.step = "running" => typed[Attempt'] = 0
    <3>1. CASE row' = row
      BY <1>1, <3>1 DEF Counted, Attempt
    <3>2. CASE row' # row /\ row'.step = "running"
      <4>1. MayBegin /\ row' = Row("running", "running", NextTries)
        BY <3>2, RowFields DEF Moves
      <4>2. Attempt' = NextTries + 1
        BY <1>1, <4>1, TriesAfter
      <4> QED
        BY <4>1, <4>2, NextIsUntyped
    <3> QED
      BY <3>1, <3>2
  <2>2. ASSUME NEW a \in Attempts
        PROVE  C(a)
    <3>1. a \in Nat
      BY TriesAssumption DEF Attempts
    <3> QED
      BY <1>2, <1>3, <2>1, <3>1 DEF Counted
  <2> QED
    BY <2>2 DEF Counted
<1>4. ASSUME NEW t \in Terminals, Type(t), ran' = ran
      PROVE  Counted'
  <2>1. typed' = [typed EXCEPT ![Attempt] = @ + 1] /\ row' = row
    BY <1>4 DEF Type
  <2>2. typed[Attempt] = 0 /\ Attempt \notin ran /\ row.step = "waiting"
    BY <1>4 DEF Type, Typing
  <2>3. ASSUME NEW a \in Attempts
        PROVE  C(a)
    <3>1. CASE a = Attempt
      <4>1. typed \in [Attempts -> Nat]
        BY DEF TypeOK
      <4>2. typed'[a] = 1
        BY <1>1, <2>1, <2>2, <3>1, <4>1
      <4>3. Attempt' = Attempt /\ row'.step \notin {"pending", "running"}
        BY <2>1, <2>2 DEF Attempt
      <4> QED
        BY <1>2, <1>4, <2>2, <3>1, <4>2, <4>3
    <3>2. CASE a # Attempt
      BY <1>4, <2>1, <3>2 DEF Counted, Attempt, TypeOK
    <3> QED
      BY <3>1, <3>2
  <2> QED
    BY <2>3 DEF Counted
<1>5. CASE TaskLoads
  <2>1. row' = row /\ typed' = typed
        /\ (ran' = ran \/ (row.status = "running" /\ ran' = ran \cup {Attempt}))
    BY <1>5 DEF TaskLoads
  <2>2. row.status = "running" => row.step = "running"
    BY DEF TypeOK
  <2>3. ASSUME NEW a \in Attempts
        PROVE  C(a)
    <3>1. a \in Nat
      BY TriesAssumption DEF Attempts
    <3> QED
      BY <1>1, <1>2, <2>1, <2>2, <3>1 DEF Counted, Attempt
  <2> QED
    BY <2>3 DEF Counted
<1>6. \/ typed' = typed /\ ran' = ran
      \/ TaskLoads
      \/ \E t \in Terminals : Type(t) /\ ran' = ran
  BY DEF Next, ByHand, ByTask, Terminal, vars, Open, ShellEnds, SessionEnds, Disconnect,
     DispatchShell, Check, Prepare, CheckPasses, CheckFails, PrepareReturns, PrepareFails,
     ActUnrecorded, ActFails, WriteRefused, TypeFails, HoldElsewhere, ReleaseElsewhere,
     WebWrites, Pause, Resume, Cancel, AskComplete, Complete, Confirm, WebBegin, TaskEnds, Crash
<1> QED
  BY <1>3, <1>4, <1>5, <1>6

\* The row a task has loaded is the running one, or it is stale.
LEMMA TaskedKept ==
  ASSUME TypeOK, Moves, Tasked, [Next]_vars
  PROVE  Tasked'
<1>1. row.tries \in Nat
  BY TriesAre
<1>2. CASE TaskLoads
  <2>1. row' = row /\ kind' = kind /\ kind # "parser"
    BY <1>2 DEF TaskLoads, Tasked
  <2>2. task' = "running" => row.step = "running" /\ Attempt \in ran'
    BY <1>2 DEF TaskLoads, TypeOK
  <2> QED
    BY <2>1, <2>2 DEF Tasked, Attempt
<1>3. ASSUME NEW retry \in BOOLEAN, WebBegin(retry)
      PROVE  Tasked'
  BY <1>3 DEF WebBegin, WebWrites, Write, Tasked
<1>4. CASE /\ kind' = kind /\ ran' = ran
           /\ task' = task \/ (task # "none" /\ task' # "running")
           /\ Task \in fresh' => Task \in fresh
  <2>1. row' = row \/ fresh' = {}
    BY DEF Moves
  <2>2. row' = row => Attempt' = Attempt
    BY DEF Attempt
  <2>3. kind = "parser" => row'.step # "running"
    BY RowFields DEF Moves, Tasked
  <2> QED
    BY <1>4, <2>1, <2>2, <2>3 DEF Tasked
<1>5. \/ /\ kind' = kind /\ ran' = ran
         /\ task' = task \/ (task # "none" /\ task' # "running")
         /\ Task \in fresh' => Task \in fresh
      \/ TaskLoads
      \/ \E retry \in BOOLEAN : WebBegin(retry)
  BY HoldersAssumption DEF Next, ByHand, ByTask, Terminal, vars, session, Open, ShellEnds,
     SessionEnds, Disconnect, DispatchShell, Check, Prepare, CheckPasses, CheckFails,
     PrepareReturns, PrepareFails, ActUnrecorded, ActFails, WriteRefused, FailWaiting, Write,
     Type, TypeFails, HoldElsewhere, ReleaseElsewhere, WebWrites, Pause, Resume, Cancel,
     AskComplete, Complete, Confirm, TaskEnds, Crash
<1> QED
  BY <1>2, <1>3, <1>4, <1>5

\* The outputs a completion collects belong to the attempt it was asked for.
LEMMA CollectedKept ==
  ASSUME TypeOK, Moves, Collected, [Next]_vars
  PROVE  Collected'
<1>1. row.tries \in Nat
  BY TriesAre
<1>2. completed' # 0 => row'.status = "completed" /\ completed' = Attempt'
  <2>1. CASE completed' = completed
    <3>1. completed # 0 => row' = row
      BY RowFields DEF Collected, Moves, TypeOK, MayBegin, Ended
    <3> QED
      BY <2>1, <3>1 DEF Collected, Attempt
  <2>2. CASE Complete
    <3>1. CASE MaySave(Web) /\ IsWaiting(row)
      <4>1. completed' = Attempt /\ row' = Row("completed", "succeeded", row.tries)
        BY <2>2, <3>1 DEF Complete, MaySave, Collected, Write
      <4> QED
        BY <1>1, <4>1, TriesAfter DEF Attempt
    <3>2. CASE ~(MaySave(Web) /\ IsWaiting(row))
      BY <2>2, <3>2 DEF Complete, Collected, Attempt
    <3> QED
      BY <3>1, <3>2
  <2>3. completed' = completed \/ Complete
    BY DEF Next, ByHand, ByTask, Terminal, vars, Open, ShellEnds, SessionEnds, Disconnect,
       DispatchShell, Check, Prepare, CheckPasses, CheckFails, PrepareReturns, PrepareFails,
          ActUnrecorded, ActFails,
       WriteRefused, Type, TypeFails, HoldElsewhere, ReleaseElsewhere, WebWrites, Pause, Resume,
       Cancel, AskComplete, Confirm, WebBegin, TaskLoads, TaskEnds, session, Crash
  <2> QED
    BY <2>1, <2>2, <2>3
<1>3. completing' # 0 /\ Web \in fresh' => completing' = Attempt'
  <2>1. CASE AskComplete
    BY <2>1 DEF AskComplete, Attempt
  <2>2. CASE completing' \in {0, completing} /\ row' # row
    BY <2>2 DEF Moves
  <2>3. CASE completing' \in {0, completing} /\ (Web \in fresh' => Web \in fresh) /\ row' = row
    BY <2>3 DEF Collected, Attempt
  <2>4. \/ AskComplete
        \/ completing' \in {0, completing} /\ (Web \in fresh' => Web \in fresh)
    BY HoldersAssumption DEF Next, ByHand, ByTask, session, Terminal, vars, Open, ShellEnds,
       SessionEnds, Disconnect, DispatchShell, Check, Prepare, CheckPasses, CheckFails,
          PrepareReturns, PrepareFails,
       ActUnrecorded, ActFails, WriteRefused, FailWaiting, Write, Type, TypeFails, HoldElsewhere,
       ReleaseElsewhere, WebWrites, Pause, Resume, Cancel, Complete, Confirm,
       WebBegin, TaskLoads, TaskEnds, Crash
  <2> QED
    BY <2>1, <2>2, <2>3, <2>4
<1> QED
  BY <1>2, <1>3 DEF Collected

-----------------------------------------------------------------------------
(* Who drives a waiting step *)

LEMMA SameAttempt ==
  ASSUME TypeOK, Moves, row'.step = "waiting", row.step = "waiting"
  PROVE  Attempt' = Attempt
BY RowFields DEF Moves, MayBegin, Attempt

\* Who commits is about to type, with a lease if it is a parser step.
LEMMA CommitDrives ==
  ASSUME TypeOK, NEW t \in Terminals, Commits(t), kind' = "parser" => lease'[t]
  PROVE  WaitingStepIsDriven'
<1>1. at'[t] = "typing"
  BY DEF Commits, TypeOK
<1> QED
  BY <1>1 DEF WaitingStepIsDriven

\* What drove the step still does if no typing ends, no lease is taken back and no
\* session with a lease closes.
LEMMA StillDriven ==
  ASSUME TypeOK, Moves, WaitingStepIsDriven,
         row'.step = "waiting" => row.step = "waiting", ran \subseteq ran',
         excused' = {} => excused = {}, kind' = kind, typed' = typed,
         \A t \in Terminals : /\ at[t] = "typing" => at'[t] = "typing"
                              /\ lease[t] /\ at[t] # "closed" => lease'[t] /\ at'[t] # "closed"
  PROVE  WaitingStepIsDriven'
<1> SUFFICES ASSUME row'.step = "waiting", excused' = {}
             PROVE  /\ \/ typed'[Attempt'] = 1 \/ Attempt' \in ran'
                       \/ \E t \in Terminals : at'[t] = "typing"
                    /\ kind' = "parser" => \E t \in Terminals : lease'[t] /\ at'[t] # "closed"
  BY DEF WaitingStepIsDriven
<1>1. row.step = "waiting" /\ excused = {} /\ Attempt' = Attempt
  BY SameAttempt
<1> QED
  BY <1>1 DEF WaitingStepIsDriven

LEMMA DrivenKept ==
  ASSUME TypeOK, Shape, Loaded, Holding, Moves, Checking, Typing, Leases,
         Tasked, WaitingStepIsDriven, [Next]_vars
  PROVE  WaitingStepIsDriven'
<1>1. CASE UNCHANGED vars
  BY <1>1 DEF vars, session, WaitingStepIsDriven, Attempt
<1>2. ASSUME LoopIsFree, NEW t \in Terminals, Terminal(t), ran' = ran
      PROVE  WaitingStepIsDriven'
  <2>1. ASSUME NEW retry \in BOOLEAN,
               DispatchShell(t, retry) \/ CheckPasses(t) \/ PrepareReturns(t)
        PROVE  WaitingStepIsDriven'
    <3>1. CASE Commits(t)
      <4>1. kind' = "parser" => lease'[t]
        <5>1. CASE DispatchShell(t, retry)
          BY <5>1 DEF DispatchShell
        <5>2. CASE CheckPasses(t)
          BY <5>2 DEF CheckPasses, Checking
        <5>3. CASE PrepareReturns(t)
          BY <5>3 DEF PrepareReturns, TypeOK
        <5> QED
          BY <2>1, <5>1, <5>2, <5>3
      <4> QED
        BY <3>1, <4>1, CommitDrives
    <3>2. CASE GivesUp(t)
      BY <1>2, <2>1, <3>2, StillDriven DEF GivesUp, LoopIsFree, TypeOK, DispatchShell,
         CheckPasses, PrepareReturns
    <3> QED
      BY <2>1, <3>1, <3>2, DispatchesCommit
  <2>2. CASE Disconnect(t)
    <3>1. CASE row.step = "waiting" /\ lease[t]
      <4>1. kind = "parser"
        BY <3>1 DEF Leases
      <4>2. \/ row'.step = "failed"
            \/ excused' # {}
        <5>1. row.status \in {"awaiting_step_completion", "paused"}
          BY <3>1 DEF TypeOK
        <5>2. CASE row.status = "paused" \/ writer # Free
          BY <2>2, <3>1, <5>2 DEF Disconnect
        <5>3. CASE row.status = "awaiting_step_completion" /\ writer = Free
          <6>1. OwnsStep(t)
            BY <3>1, <4>1, <5>3 DEF OwnsStep, IsWaiting
          <6>2. row' = Row("awaiting_step_retry", "failed", row.tries)
            BY <2>2, <5>3, <6>1 DEF Disconnect, FailWaiting, Write
          <6> QED
            BY <6>2, RowFields
        <5> QED
          BY <5>1, <5>2, <5>3
      <4> QED
        BY <4>2 DEF WaitingStepIsDriven
    <3>2. CASE row.step # "waiting"
      <4>1. row'.step # "waiting"
        BY <2>2, <3>2, DisconnectFails
      <4> QED
        BY <4>1 DEF WaitingStepIsDriven
    <3>3. CASE row.step = "waiting" /\ ~lease[t]
      BY <1>2, <2>2, <3>3, StillDriven DEF Disconnect, LoopIsFree, TypeOK
    <3> QED
      BY <3>1, <3>2, <3>3
  <2>3. CASE PrepareFails(t)
    <3>1. row'.step = "failed"
      BY <2>3, PreparationFails, RowFields
    <3> QED
      BY <3>1 DEF WaitingStepIsDriven
  <2>4. CASE ActFails(t)
    <3>1. row'.step = "waiting" => row.step = "waiting"
      BY <2>4, RefusalFails DEF ActFails
    <3> QED
      BY <1>2, <2>4, <3>1, StillDriven DEF ActFails, MayAct, WriteRefused, LoopIsFree, TypeOK
  <2>5. CASE \/ Open(t) \/ ShellEnds(t) \/ SessionEnds(t) \/ CheckFails(t) \/ ActUnrecorded(t)
             \/ \E retry \in BOOLEAN : Check(t, retry) \/ Prepare(t, retry)
    <3>1. row' = row /\ excused' = excused /\ kind' = kind /\ typed' = typed /\ lease' = lease
      BY <2>5 DEF Open, ShellEnds, SessionEnds, CheckFails, ActUnrecorded, Check, Prepare
    <3>2. \A u \in Terminals : at[u] # "closed" => at'[u] # "closed"
      BY <2>5 DEF Open, ShellEnds, SessionEnds, CheckFails, ActUnrecorded, Check, Prepare, TypeOK
    <3> QED
      BY <1>2, <3>1, <3>2, StillDriven DEF LoopIsFree
  <2>6. TRUE \in BOOLEAN
    OBVIOUS
  <2> QED
    BY <1>2, <2>1, <2>2, <2>3, <2>4, <2>5, <2>6 DEF Terminal
<1>3. CASE LoopIsFree /\ (Cancel \/ Complete \/ Confirm) /\ ran' = ran
  <2>1. row' = row \/ row'.step # "waiting"
    <3>1. CASE Cancel
      BY <3>1 DEF Cancel, WebWrites, Write, Shape, Row
    <3>2. CASE Complete
      BY <3>2, RowFields DEF Complete, Write
    <3>3. CASE Confirm
      BY <3>3, RowFields DEF Confirm, WebWrites, Write
    <3> QED
      BY <1>3, <3>1, <3>2, <3>3
  <2>2. UNCHANGED <<excused, kind, typed, at, lease>>
    BY <1>3 DEF Cancel, Complete, Confirm, WebWrites, session
  <2> QED
    BY <1>3, <2>1, <2>2, StillDriven
<1>4. CASE (HoldElsewhere \/ ReleaseElsewhere \/ AskComplete \/ Pause \/ Resume) /\ ran' = ran
  <2>1. row'.step = row.step /\ UNCHANGED <<excused, kind, typed, at, lease>>
    BY <1>4 DEF HoldElsewhere, ReleaseElsewhere, AskComplete, Pause, Resume, WebWrites, Write,
       Shape, Row, session
  <2> QED
    BY <1>4, <2>1, StillDriven
<1>5. ASSUME NEW t \in Terminals, Type(t)
      PROVE  WaitingStepIsDriven'
  <2>1. typed[Attempt] = 0 /\ row.step = "waiting"
    BY <1>5 DEF Type, Typing
  <2>2. typed'[Attempt] = 1 /\ Attempt' = Attempt
    <3>1. typed \in [Attempts -> Nat] /\ Attempt \in Attempts
      BY AttemptIs DEF TypeOK
    <3>2. typed' = [typed EXCEPT ![Attempt] = @ + 1] /\ row' = row
      BY <1>5 DEF Type
    <3> QED
      BY <2>1, <3>1, <3>2 DEF Attempt
  <2>3. row' = row /\ excused' = excused /\ kind' = kind /\ lease' = lease
        /\ \A u \in Terminals : at[u] # "closed" => at'[u] # "closed"
    BY <1>5 DEF Type, TypeOK
  <2> QED
    BY <2>1, <2>2, <2>3 DEF WaitingStepIsDriven
<1>6. ASSUME NEW t \in Terminals, TypeFails(t)
      PROVE  WaitingStepIsDriven'
  <2>1. writer = Free
    BY <1>6 DEF TypeFails, Typing
  <2>2. row'.step = "failed" \/ excused' # {}
    BY <1>6, <2>1, RowFields DEF TypeFails, WriteRefused, FailWaiting, Write
  <2> QED
    BY <2>2 DEF WaitingStepIsDriven
<1>7. CASE Crash
  BY <1>7 DEF Crash, WaitingStepIsDriven
<1>8. CASE LoopIsFree /\ ByTask
  <2>1. ASSUME NEW retry \in BOOLEAN, WebBegin(retry)
        PROVE  WaitingStepIsDriven'
    BY <2>1, RowFields DEF WebBegin, WebWrites, Write, WaitingStepIsDriven
  <2>2. CASE TaskLoads
    BY <2>2, StillDriven DEF TaskLoads, session
  <2>3. CASE TaskEnds /\ ~MaySave(Task)
    BY <2>3, StillDriven DEF TaskEnds, session
  <2>4. CASE TaskEnds /\ MaySave(Task)
    <3>1. /\ row'.step = "waiting" =>
               row' = Row("awaiting_step_completion", "waiting", row.tries)
          /\ ran' = ran /\ kind' = kind /\ task = "running" /\ Task \in fresh
      BY <2>4, RowFields DEF TaskEnds, MaySave, Write
    <3>2. Attempt \in ran /\ kind # "parser"
      BY <3>1 DEF Tasked
    <3>3. row'.step = "waiting" => Attempt' = Attempt
      BY <3>1, RowFields DEF Attempt
    <3> QED
      BY <3>1, <3>2, <3>3 DEF WaitingStepIsDriven
  <2> QED
    BY <1>8, <2>1, <2>2, <2>3, <2>4 DEF ByTask
<1> QED
  BY <1>1, <1>2, <1>3, <1>4, <1>5, <1>6, <1>7, <1>8 DEF Next, ByHand

-----------------------------------------------------------------------------
(* Who holds a lease *)

\* A lease is left alone and the row stays, or ends as one its sessions do not mind.
LEMMA SameLeases ==
  ASSUME Leases, LoopIsFree, lease' = lease, kind' = kind, refused' = refused,
         driver' = driver,
         row'.step = row.step \/ row'.step \in {"succeeded", "cancelled"},
         \A u \in Terminals : /\ at'[u] # "typing"
                              /\ at[u] # "closed" => at'[u] # "closed"
  PROVE  Leases'
BY DEF Leases, LoopIsFree

\* A dispatch that commits finds no lease, unless a shell has refused its input.
LEMMA NobodyLeads ==
  ASSUME Leases, MayBegin, ~refused, NEW u \in Terminals
  PROVE  ~lease[u]
BY DEF Leases, MayBegin

LEMMA LeasesKept ==
  ASSUME TypeOK, Shape, Loaded, Holding, Checking, Moves, Typing, Tasked, Leases,
         [Next]_vars
  PROVE  Leases'
<1>1. CASE UNCHANGED vars
  BY <1>1 DEF vars, session, Leases
<1>2. ASSUME LoopIsFree, NEW t \in Terminals, Terminal(t)
      PROVE  Leases'
  <2>1. ASSUME NEW retry \in BOOLEAN,
               DispatchShell(t, retry) \/ CheckPasses(t) \/ PrepareReturns(t)
        PROVE  Leases'
    <3>1. CASE GivesUp(t) /\ lease' = lease
      <4>1. kind' = kind /\ refused' = refused /\ driver' = driver
        BY <2>1 DEF DispatchShell, CheckPasses, PrepareReturns
      <4>2. \A u \in Terminals : at'[u] # "typing" /\ (at[u] # "closed" => at'[u] # "closed")
        BY <1>2, <3>1 DEF GivesUp, LoopIsFree, TypeOK
      <4> QED
        BY <1>2, <3>1, <4>1, <4>2, SameLeases DEF GivesUp
    <3>2. CASE Commits(t)
      <4>1. row'.step = "waiting" /\ at'[t] = "typing"
        <5>1. at \in [Terminals ->
                        {"closed", "idle", "checking", "preparing", "typing", "ending"}]
          BY DEF TypeOK
        <5> QED
          BY <3>2, <5>1, RowFields DEF Commits
      <4>2. kind' = kind /\ refused' = refused
        BY <2>1 DEF DispatchShell, CheckPasses, PrepareReturns
      <4>3. ASSUME NEW u \in Terminals, lease'[u]
            PROVE  lease[u] \/ (u = t /\ kind = "parser")
        <5>1. CASE PrepareReturns(t)
          <6>1. kind = "parser"
            BY <5>1 DEF PrepareReturns, Checking
          <6> QED
            BY <4>3, <5>1, <6>1 DEF PrepareReturns, TypeOK
        <5>2. CASE lease' = lease
          BY <4>3, <5>2
        <5> QED
          BY <2>1, <5>1, <5>2 DEF DispatchShell, CheckPasses
      <4>4. \A u \in Terminals : at[u] # "closed" => at'[u] # "closed"
        BY <3>2 DEF Commits, TypeOK
      <4>5. ASSUME NEW u \in Terminals, lease'[u]
            PROVE  /\ at'[u] # "closed" /\ kind' = "parser"
                   /\ ~refused' => u = t
        BY <3>2, <4>1, <4>2, <4>3, <4>4, <4>5, NobodyLeads DEF Commits, Leases
      <4>6. \A u \in Terminals : at'[u] = "typing" => u = t
        BY <1>2, <3>2 DEF Commits, LoopIsFree, TypeOK
      <4> QED
        BY <4>1, <4>5, <4>6 DEF Leases
    <3>3. GivesUp(t) => lease' = lease \/ Commits(t)
      <4>1. CASE PrepareReturns(t)
        BY <4>1 DEF PrepareReturns, GivesUp, TypeOK
      <4> QED
        BY <2>1, <4>1 DEF DispatchShell, CheckPasses
    <3> QED
      BY <2>1, <3>1, <3>2, <3>3, DispatchesCommit
  <2>2. CASE Disconnect(t)
    <3>1. /\ lease' = [lease EXCEPT ![t] = FALSE] /\ at' = [at EXCEPT ![t] = "closed"]
          /\ kind' = kind /\ refused' = refused /\ driver' = driver
      BY <2>2 DEF Disconnect
    <3>2. ASSUME NEW u \in Terminals, lease'[u], ~refused'
          PROVE  row' = row
      <4>1. u # t /\ lease[u] /\ ~refused
        BY <3>1, <3>2 DEF TypeOK
      <4>2. CASE row' # row
        <5>1. row.step = "waiting" /\ lease[t]
          BY <2>2, <4>2 DEF Disconnect, OwnsStep, IsWaiting
        <5>2. driver = t /\ driver = u
          BY <1>2, <4>1, <5>1 DEF Leases, LoopIsFree
        <5> QED
          BY <4>1, <5>2
      <4> QED
        BY <4>2
    <3>3. ASSUME NEW u \in Terminals, lease'[u]
          PROVE  lease[u] /\ at'[u] = at[u]
      BY <3>1, <3>3 DEF TypeOK
    <3>4. \A u \in Terminals : at'[u] # "typing"
      BY <1>2, <3>1 DEF LoopIsFree, TypeOK
    <3> QED
      BY <1>2, <3>1, <3>2, <3>3, <3>4 DEF Leases, LoopIsFree
  <2>3. CASE PrepareFails(t)
    <3>1. MayBegin /\ row'.step = "failed"
      BY <2>3, PreparationFails, RowFields
    <3>2. UNCHANGED <<lease, kind, refused, driver>>
      BY <2>3 DEF PrepareFails
    <3>3. \A u \in Terminals : at[u] # "closed" => at'[u] # "closed"
      BY <2>3 DEF PrepareFails, TypeOK
    <3> QED
      BY <3>1, <3>2, <3>3, NobodyLeads DEF Leases
  <2>4. CASE ActFails(t)
    <3>1. refused' = TRUE /\ lease' = lease /\ kind' = kind
      BY <2>4 DEF ActFails, WriteRefused
    <3>2. \A u \in Terminals : at[u] # "closed" => at'[u] # "closed"
      BY <2>4 DEF ActFails, WriteRefused, TypeOK
    <3> QED
      BY <3>1, <3>2 DEF Leases
  <2>5. CASE \/ Open(t) \/ ShellEnds(t) \/ SessionEnds(t) \/ CheckFails(t) \/ ActUnrecorded(t)
             \/ \E retry \in BOOLEAN : Check(t, retry) \/ Prepare(t, retry)
    <3>1. row' = row /\ UNCHANGED <<lease, kind, refused, driver>>
      BY <2>5 DEF Open, ShellEnds, SessionEnds, CheckFails, ActUnrecorded, Check, Prepare
    <3>2. \A u \in Terminals : at'[u] # "typing" /\ (at[u] # "closed" => at'[u] # "closed")
      BY <1>2, <2>5 DEF Open, ShellEnds, SessionEnds, CheckFails, ActUnrecorded, Check, Prepare,
         LoopIsFree, TypeOK
    <3> QED
      BY <1>2, <3>1, <3>2, SameLeases
  <2>6. TRUE \in BOOLEAN
    OBVIOUS
  <2> QED
    BY <1>2, <2>1, <2>2, <2>3, <2>4, <2>5, <2>6 DEF Terminal
<1>3. CASE LoopIsFree /\ (HoldElsewhere \/ ReleaseElsewhere \/ Resume \/ Cancel \/ AskComplete
                          \/ Complete \/ Confirm)
  <2>1. UNCHANGED <<lease, kind, refused, driver, at>>
    BY <1>3 DEF HoldElsewhere, ReleaseElsewhere, Resume, Cancel, WebWrites, AskComplete,
       Complete, Confirm, session
  <2>2. row'.step = row.step \/ row'.step \in {"succeeded", "cancelled"}
    <3>1. CASE Resume \/ Cancel
      BY <3>1 DEF Resume, Cancel, WebWrites, Write, Shape, Row
    <3>2. CASE Complete
      BY <3>2, RowFields DEF Complete, Write
    <3>3. CASE HoldElsewhere \/ ReleaseElsewhere \/ AskComplete
      BY <3>3 DEF HoldElsewhere, ReleaseElsewhere, AskComplete
    <3>4. CASE Confirm
      BY <3>4, RowFields DEF Confirm, WebWrites, Write
    <3> QED
      BY <1>3, <3>1, <3>2, <3>3, <3>4
  <2> QED
    BY <1>3, <2>1, <2>2, SameLeases DEF LoopIsFree
<1>4. ASSUME NEW t \in Terminals, Type(t)
      PROVE  Leases'
  <2>1. /\ row' = row /\ UNCHANGED <<lease, kind, refused>> /\ driver' = t
        /\ at' = [at EXCEPT ![t] = "idle"] /\ at[t] = "typing"
    BY <1>4 DEF Type
  <2>2. \A u \in Terminals : at'[u] # "typing" /\ (at[u] # "closed" => at'[u] # "closed")
    BY <2>1 DEF Typing, TypeOK
  <2>3. \A u \in Terminals : lease[u] /\ ~refused => u = t
    BY <2>1 DEF Leases
  <2> QED
    BY <2>1, <2>2, <2>3 DEF Leases
<1>5. ASSUME NEW t \in Terminals, TypeFails(t)
      PROVE  Leases'
  <2>1. refused' = TRUE /\ lease' = lease /\ kind' = kind
    BY <1>5 DEF TypeFails, WriteRefused
  <2>2. \A u \in Terminals : at[u] # "closed" => at'[u] # "closed"
    BY <1>5 DEF TypeFails, WriteRefused, TypeOK
  <2> QED
    BY <2>1, <2>2 DEF Leases
<1>6. CASE Pause
  <2>1. row'.step = row.step /\ UNCHANGED <<lease, kind, refused, driver, at>>
    BY <1>6 DEF Pause, WebWrites, Write, Shape, Row, session
  <2> QED
    BY <2>1 DEF Leases
<1>7. CASE Crash
  BY <1>7 DEF Crash, Leases
<1>8. CASE LoopIsFree /\ ByTask
  <2>1. kind # "parser" /\ kind' = kind /\ lease' = lease
    BY <1>8 DEF ByTask, WebBegin, TaskLoads, TaskEnds, WebWrites, session, Tasked
  <2> QED
    BY <2>1 DEF Leases
<1> QED
  BY <1>1, <1>2, <1>3, <1>4, <1>5, <1>6, <1>7, <1>8 DEF Next, ByHand

-----------------------------------------------------------------------------
(* The invariant *)

LEMMA StartsRight == Init => IInv
<1> SUFFICES ASSUME Init PROVE IInv
  OBVIOUS
<1>1. row.status = "awaiting_step_start" /\ row.step = "pending" /\ row.tries = 0 /\ Shape
  BY RowFields DEF Init, Shape
<1>2. TypeOK
  <2>1. 0 \in 0..MaxTries
    BY TriesAssumption
  <2>2. SessionsTyped /\ HoldersTyped /\ AttemptsTyped /\ TasksTyped
    BY DEF Init, SessionsTyped, HoldersTyped, AttemptsTyped, TasksTyped
  <2> QED
    BY <1>1, <2>1, <2>2 DEF TypeOK, SessionsTyped, HoldersTyped, AttemptsTyped, TasksTyped
<1>3. \A t \in Terminals : at[t] = "closed" /\ ~lease[t] /\ writer # t
  BY HoldersAssumption DEF Init
<1>4. Loaded /\ Checking /\ Holding /\ Typing /\ Leases
  BY <1>3 DEF Loaded, Checking, Holding, Typing, Leases
<1>5. Counted /\ Tasked
  BY <1>1 DEF Init, Counted, Tasked
<1>6. Collected
  BY DEF Init, Collected
<1>7. WaitingStepIsDriven
  BY <1>1 DEF WaitingStepIsDriven
<1> QED
  BY <1>1, <1>2, <1>4, <1>5, <1>6, <1>7 DEF IInv

LEMMA StepKeeps == IInv /\ [Next]_vars => IInv'
<1> SUFFICES ASSUME IInv, [Next]_vars PROVE IInv'
  OBVIOUS
<1>1. TypeOK /\ Shape /\ Loaded /\ Checking /\ Holding /\ Typing /\ Counted /\ Tasked
      /\ Collected /\ WaitingStepIsDriven /\ Leases
  BY DEF IInv
<1>2. Moves /\ SessionsTyped /\ HoldersTyped
  BY <1>1, RowMoves DEF TypeOK, SessionsTyped, HoldersTyped
<1>3. TypeOK' /\ Shape'
  BY <1>1, <1>2, TypeKept, ShapeKept
<1>4. Loaded' /\ Checking' /\ Holding'
  BY <1>1, <1>2, LoadedKept, CheckingKept, HoldingKept
<1>5. Typing' /\ Counted' /\ Tasked' /\ Collected'
  BY <1>1, <1>2, TypingKept, CountedKept, TaskedKept, CollectedKept
<1>6. WaitingStepIsDriven' /\ Leases'
  BY <1>1, <1>2, DrivenKept, LeasesKept
<1> QED
  BY <1>3, <1>4, <1>5, <1>6 DEF IInv

LEMMA Inductive == Spec => []IInv
BY StartsRight, StepKeeps, PTL DEF Spec

-----------------------------------------------------------------------------
(* Theorems *)

\* The variables keep their types, and the statuses of run and step always fit.
THEOREM Typed == Spec => []TypeOK
BY Inductive, PTL DEF IInv

\* However many terminals are asked for a step, and however their checks and preparations
\* interleave with pauses, retries, completions and the web requests that begin it in a
\* task, an attempt's command is typed at most once and never if its task has run it; and
\* collected outputs that a completed step carries are those of its last attempt.
THEOREM TypesOnce == Spec => []OneCommandPerAttempt
<1>1. IInv => OneCommandPerAttempt
  BY DEF IInv, Counted, Collected, OneCommandPerAttempt
<1> QED
  BY <1>1, Inductive, PTL

\* A step that waits for its operator has had its command typed or is about to, or a web
\* request began it and its task has run it; a parser step has an open terminal that may
\* act on it; unless a crash, a pause or another run's hold on the database excuses it.
THEOREM SomebodyDrives == Spec => []WaitingStepIsDriven
BY Inductive, PTL DEF IInv

\* As long as no shell has refused its input, a session that ends fails no attempt but
\* the one its own terminal has typed.
THEOREM FailsItsOwn == Spec => DisconnectFailsItsOwn
<1>1. IInv /\ [Next]_vars =>
        [\A t \in Terminals :
           (at[t] = "ending" /\ at'[t] = "closed" /\ row'.step = "failed"
              /\ row.step = "waiting")
             => (driver = t \/ refused)]_vars
  <2> SUFFICES ASSUME IInv, Next, NEW t \in Terminals, at[t] = "ending", at'[t] = "closed",
                      row'.step = "failed", row.step = "waiting", ~refused
               PROVE  driver = t
    BY DEF vars
  <2>1. TypeOK /\ Typing /\ Leases
    BY DEF IInv
  <2>2. CASE Disconnect(t)
    <3>1. lease[t]
      BY <2>2 DEF Disconnect, OwnsStep
    <3> QED
      BY <2>1, <3>1 DEF Leases
  <2>3. ASSUME NEW u \in Terminals, Terminal(u), ~Disconnect(t)
        PROVE  FALSE
    <3>1. \/ Open(u) \/ ShellEnds(u) \/ SessionEnds(u) \/ CheckPasses(u) \/ CheckFails(u)
          \/ PrepareReturns(u) \/ PrepareFails(u) \/ ActUnrecorded(u) \/ ActFails(u)
          \/ (Disconnect(u) /\ u # t)
          \/ \E retry \in BOOLEAN :
               DispatchShell(u, retry) \/ Check(u, retry) \/ Prepare(u, retry)
      BY <2>3 DEF Terminal
    <3> QED
      BY <2>1, <3>1 DEF TypeOK, Open, ShellEnds, SessionEnds, CheckPasses, CheckFails,
         PrepareReturns, PrepareFails, ActUnrecorded, ActFails, WriteRefused, Disconnect,
         DispatchShell, Check, Prepare
  <2>4. ASSUME NEW u \in Terminals, Type(u) \/ TypeFails(u)
        PROVE  FALSE
    BY <2>1, <2>4 DEF TypeOK, Type, TypeFails, WriteRefused
  <2>5. HoldElsewhere \/ ReleaseElsewhere \/ Resume \/ Cancel \/ AskComplete \/ Complete
        \/ Confirm \/ Pause \/ ByTask => at' = at
    BY DEF HoldElsewhere, ReleaseElsewhere, Resume, Cancel, WebWrites, AskComplete, Complete,
       Confirm, Pause, ByTask, WebBegin, TaskLoads, TaskEnds, session
  <2>6. Crash => row' = row
    BY DEF Crash
  <2> QED
    BY <2>2, <2>3, <2>4, <2>5, <2>6 DEF Next, ByHand
<1> QED
  BY <1>1, Inductive, PTL DEF Spec, DisconnectFailsItsOwn

=============================================================================
