-------------------------- MODULE Execution_proofs --------------------------
(***************************************************************************)
(* What holds of a run's execution for every value of the constants: the   *)
(* analyses of a statistics step, the files of a parser step, the commands *)
(* of a node without a terminal and the captures with their wiring.        *)
(* MCExecution composes them with the other machines, whose steps leave    *)
(* their variables alone.                                                  *)
(***************************************************************************)
EXTENDS MCExecution, TerminalDispatch_proofs, FiniteSetTheorems, SequenceTheorems, TLAPS

-----------------------------------------------------------------------------
(* What the columns, the requests and the execution hold.                  *)

Choices == Configs \cup {Unset}
Bounds == Limits \cup {Unset}
Records ==
  [no : S!Numbers, status : {"running", "succeeded", "failed"}, rev : Nat, inputs : Choices,
   limit : Bounds, sealed : BOOLEAN]
Summaries ==
  [config : Choices, rev : Nat, history : SUBSET Records, active : {0} \cup S!Numbers,
   latest : {0} \cup S!Numbers, latestRev : Nat]
Saves ==
  [id : Requests, inputs : Configs, to : Bounds, analyze : BOOLEAN,
   from : {"pending", "failed", "waiting"}, seen : Summaries, limit : Bounds, fresh : BOOLEAN]
Executions == [on : BOOLEAN, summary : Summaries, seen : Summaries]
Payloads ==
  [status : {"none", "succeeded", "failed"}, rev : Nat, inputs : Choices, limit : Bounds]

StatTyped ==
  /\ step \in S!Statuses /\ summary \in Summaries /\ limit \in Bounds
  /\ saving \subseteq Saves /\ exec \in Executions
  /\ file \in [S!Numbers -> Payloads] /\ late \in BOOLEAN

Payload(h) == [status |-> h.status, rev |-> h.rev, inputs |-> h.inputs, limit |-> h.limit]

\* What a history says is sealed is what its file holds.
SaysTheFiles(sum) ==
  \A h \in sum.history :
    (h.status = "running" => ~h.sealed) /\ (h.sealed => file[h.no] = Payload(h))
Histories ==
  /\ SaysTheFiles(summary) /\ SaysTheFiles(exec.summary)
  /\ \A s \in saving : SaysTheFiles(s.seen)

\* An execution works on what it loaded, with a reservation of its own.
Works ==
  exec.on =>
    /\ step = "running"
    /\ S!Active(exec.summary) \in exec.summary.history
    /\ S!Active(exec.summary).no = exec.summary.active
    /\ S!Active(exec.summary).status = "running"
    /\ exec.seen.history \subseteq exec.summary.history
    /\ exec.summary.config = exec.seen.config /\ exec.summary.rev = exec.seen.rev
    /\ exec.summary.latest = exec.seen.latest /\ exec.summary.latestRev = exec.seen.latestRev

\* Analyses of the saved revision are of the saved configuration.
OfItsRevision(sum, lim) ==
  \A h \in sum.history :
    h.rev <= sum.rev /\ (h.rev = sum.rev => h.inputs = sum.config /\ h.limit = lim)
Revisions ==
  late \/ /\ OfItsRevision(summary, limit)
          /\ exec.on => exec.seen.rev <= summary.rev
          /\ exec.on /\ exec.seen = summary => OfItsRevision(exec.summary, limit)

\* A request is fresh as long as the step is where it found it.
Freshness == \A s \in saving : s.fresh => s.from = step

StatIInv ==
  /\ StatTyped /\ Histories /\ Works /\ Revisions /\ Freshness
  /\ S!CompletionIsFresh /\ S!MetricsAreOfLatestSuccess

-----------------------------------------------------------------------------
(* The next number is a new one.                                           *)

LEMMA HasLargest ==
  ASSUME NEW m \in Nat, NEW T \in SUBSET (0..m), T # {}
  PROVE  \E x \in T : \A y \in T : y <= x
<1> DEFINE Above(x) == {y \in T : x < y}
           Cuts == {Above(x) : x \in T}
           R == StrictSubsetOrdering(T)
<1>1. IsFiniteSet(0..m)
  BY FS_Interval
<1>2. \A x \in T : Above(x) \in SUBSET (0..m) /\ Above(x) \subseteq T
  OBVIOUS
<1>3. Cuts \subseteq FiniteSubsetsOf(T)
  BY <1>1, <1>2, FS_Subset DEF FiniteSubsetsOf
<1>4. IsWellFoundedOn(R, FiniteSubsetsOf(T))
  BY FS_StrictSubsetOrderingWellFounded
<1>5. Cuts # {}
  OBVIOUS
<1>6. PICK least \in Cuts : \A t \in Cuts : <<t, least>> \notin R
  <2> HIDE DEF Cuts, R
  <2> QED
  BY <1>3, <1>4, <1>5, WFMin
<1>7. PICK x \in T : least = Above(x)
  BY <1>6
<1>8. ASSUME NEW y \in T, x < y
      PROVE  FALSE
  <2>1. y \in Above(x) /\ y \notin Above(y)
    BY <1>8
  <2>2. Above(y) \subseteq Above(x)
    <3>1. ASSUME NEW z \in T, y < z
          PROVE  x < z
      BY <1>8, <3>1
    <3> QED
      BY <3>1
  <2>3. <<Above(y), Above(x)>> \in R
    BY <1>2, <2>1, <2>2 DEF StrictSubsetOrdering
  <2> QED
    BY <1>6, <1>7, <2>3
<1> QED
  BY <1>8

LEMMA NextIsNew ==
  ASSUME NEW sum \in Summaries, NEW h \in sum.history
  PROVE  h.no # S!NextNo(sum)
<1> DEFINE T == {g.no : g \in sum.history}
<1>1. T \subseteq S!Numbers /\ h.no \in T
  BY DEF Summaries, Records
<1>2. T \subseteq 0..MaxNo /\ MaxNo \in Nat
  BY <1>1, StatisticsAssumption DEF S!Numbers
<1>3. PICK x \in T : \A y \in T : y <= x
  <2> HIDE DEF T
  <2> QED
    BY <1>1, <1>2, HasLargest
<1>4. x \in T \cup {0} /\ \A y \in T : y <= x
  BY <1>3
<1>5. \A y \in T : y <= S!Largest(T)
  <2> HIDE DEF T
  <2> QED
    BY <1>4, Zenon DEF S!Largest
<1>6. S!Largest(T) \in T \cup {0}
  <2> HIDE DEF T
  <2> QED
    BY <1>4, Zenon DEF S!Largest
<1>7. h.no \in Nat /\ S!Largest(T) \in Nat
  BY <1>1, <1>2, <1>6
<1>8. h.no <= S!Largest(T)
  BY <1>1, <1>5
<1>9. S!NextNo(sum) = S!Largest(T) + 1
  BY DEF S!NextNo
<1> HIDE DEF T
<1> QED
  BY <1>7, <1>8, <1>9

-----------------------------------------------------------------------------
(* The summaries that the program computes, field by field.                *)

SumOf(c, r, h, a, l, v) ==
  [config |-> c, rev |-> r, history |-> h, active |-> a, latest |-> l, latestRev |-> v]

LEMMA SummaryIs ==
  ASSUME NEW f \in Summaries
  PROVE  f = SumOf(f.config, f.rev, f.history, f.active, f.latest, f.latestRev)
BY DEF Summaries, SumOf

LEMMA SumFields ==
  ASSUME NEW c, NEW r, NEW h, NEW a, NEW l, NEW v
  PROVE  LET z == SumOf(c, r, h, a, l, v)
         IN  /\ z.config = c /\ z.rev = r /\ z.history = h /\ z.active = a /\ z.latest = l
             /\ z.latestRev = v
BY DEF SumOf

Reservation(sum, lim) ==
  [no |-> S!NextNo(sum), status |-> "running", rev |-> sum.rev, inputs |-> sum.config,
   limit |-> lim, sealed |-> FALSE]

LEMMA ReservedIs ==
  ASSUME NEW sum \in Summaries, NEW lim
  PROVE  S!Reserved(sum, lim) =
           SumOf(sum.config, sum.rev, sum.history \cup {Reservation(sum, lim)}, S!NextNo(sum),
                 sum.latest, sum.latestRev)
<1> DEFINE c == sum.config  r == sum.rev  h == sum.history  a == sum.active
           l == sum.latest  v == sum.latestRev  n == S!NextNo(sum)
           more == sum.history \cup {Reservation(sum, lim)}
<1>1. sum = SumOf(c, r, h, a, l, v)
  BY SummaryIs
<1>2. S!Reserved(sum, lim) = [sum EXCEPT !.history = more, !.active = n]
  BY Zenon DEF S!Reserved, Reservation
<1> HIDE DEF c, r, h, a, l, v, n, more
<1>3. [sum EXCEPT !.history = more] = SumOf(c, r, more, a, l, v)
  BY <1>1 DEF SumOf
<1>4. [SumOf(c, r, more, a, l, v) EXCEPT !.active = n] = SumOf(c, r, more, n, l, v)
  BY DEF SumOf
<1> QED
  BY <1>2, <1>3, <1>4, Zenon DEF c, r, h, a, l, v, n, more

\* A reservation adds a running analysis under a new number, and is the active one.
LEMMA ReservedDoes ==
  ASSUME NEW sum \in Summaries, NEW lim \in Bounds, S!NextNo(sum) \in S!Numbers
  PROVE  LET z == S!Reserved(sum, lim)
         IN  /\ z \in Summaries /\ z.config = sum.config /\ z.rev = sum.rev
             /\ z.latest = sum.latest /\ z.latestRev = sum.latestRev
             /\ z.history = sum.history \cup {Reservation(sum, lim)}
             /\ z.active = S!NextNo(sum) /\ S!Active(z) = Reservation(sum, lim)
<1> DEFINE z == S!Reserved(sum, lim)
           new == Reservation(sum, lim)
<1>1. z = SumOf(sum.config, sum.rev, sum.history \cup {new}, S!NextNo(sum), sum.latest,
                sum.latestRev)
  BY ReservedIs
<1>2. new \in Records
  BY DEF Reservation, Records, Summaries
<1>3. new.no = S!NextNo(sum)
  BY DEF Reservation
<1> HIDE DEF z, new
<1>4. /\ z.config = sum.config /\ z.rev = sum.rev /\ z.history = sum.history \cup {new}
      /\ z.active = S!NextNo(sum) /\ z.latest = sum.latest /\ z.latestRev = sum.latestRev
  BY <1>1, SumFields
<1>5. z \in Summaries
  BY <1>1, <1>2 DEF Summaries, SumOf
<1>6. \A h \in z.history : h.no = z.active <=> h = new
  BY <1>3, <1>4, NextIsNew
<1>7. new \in z.history
  BY <1>4
<1>8. S!Active(z) = new
  BY <1>6, <1>7, Zenon DEF S!Active
<1> QED
  BY <1>4, <1>5, <1>8 DEF z, new

LEMMA ReservedSays ==
  ASSUME NEW sum \in Summaries, NEW lim \in Bounds, S!NextNo(sum) \in S!Numbers
  PROVE  /\ SaysTheFiles(sum) => SaysTheFiles(S!Reserved(sum, lim))
         /\ OfItsRevision(sum, lim) => OfItsRevision(S!Reserved(sum, lim), lim)
<1> DEFINE z == S!Reserved(sum, lim)
<1>1. /\ z.config = sum.config /\ z.rev = sum.rev
      /\ z.history = sum.history \cup {Reservation(sum, lim)}
  BY ReservedDoes
<1> HIDE DEF z
<1>2. LET new == Reservation(sum, lim)
      IN  /\ new.status = "running" /\ ~new.sealed /\ new.rev = sum.rev
          /\ new.inputs = sum.config /\ new.limit = lim
  BY DEF Reservation
<1>3. sum.rev \in Nat
  BY DEF Summaries
<1> QED
  BY <1>1, <1>2, <1>3 DEF SaysTheFiles, OfItsRevision, z

LEMMA RevisedIs ==
  ASSUME NEW s \in Saves
  PROVE  /\ S!Revised(s) \in Summaries /\ S!Revised(s).history = s.seen.history
         /\ S!Revised(s).latest = s.seen.latest /\ S!Revised(s).latestRev = s.seen.latestRev
         /\ \/ S!Revised(s) = s.seen /\ s.limit = s.to
            \/ S!Revised(s) # s.seen /\ S!Revised(s).rev = s.seen.rev + 1
<1> DEFINE sum == s.seen  inputs == s.inputs
           c == sum.config  r == sum.rev  h == sum.history  a == sum.active
           l == sum.latest  v == sum.latestRev  n == r + 1
<1>1. sum \in Summaries /\ inputs \in Choices
  BY DEF Saves, Choices
<1>2. sum = SumOf(c, r, h, a, l, v)
  BY <1>1, SummaryIs
<1>3. CASE sum.config = inputs /\ s.limit = s.to
  BY <1>1, <1>3 DEF S!Revised
<1>4. CASE ~(sum.config = inputs /\ s.limit = s.to)
  <2>1. S!Revised(s) = [sum EXCEPT !.config = inputs, !.rev = n]
    BY <1>4, Zenon DEF S!Revised
  <2>2. S!Revised(s) = SumOf(inputs, n, h, a, l, v)
    <3> HIDE DEF sum, inputs, c, r, h, a, l, v, n
    <3>1. [sum EXCEPT !.config = inputs] = SumOf(inputs, r, h, a, l, v)
      BY <1>2 DEF SumOf
    <3>2. [SumOf(inputs, r, h, a, l, v) EXCEPT !.rev = n] = SumOf(inputs, n, h, a, l, v)
      BY DEF SumOf
    <3> QED
      BY <2>1, <3>1, <3>2, Zenon
  <2>3. /\ S!Revised(s).rev = n /\ S!Revised(s).history = h /\ S!Revised(s).latest = l
        /\ S!Revised(s).latestRev = v
    <3> HIDE DEF sum, inputs, c, r, h, a, l, v, n
    <3> QED
      BY <2>2 DEF SumOf
  <2>4. n \in Nat /\ n # r
    BY <1>1 DEF Summaries
  <2>5. S!Revised(s) \in Summaries
    BY <1>1, <2>2, <2>4 DEF Summaries, SumOf
  <2> QED
    BY <2>3, <2>4, <2>5
<1> QED
  BY <1>3, <1>4

LEMMA OutdatedIs ==
  ASSUME NEW T \in SUBSET Saves, NEW t \in S!Outdated(T)
  PROVE  /\ t \in Saves /\ ~t.fresh
         /\ \E s \in T : t.seen = s.seen
<1>1. PICK s \in T : t = [s EXCEPT !.fresh = FALSE]
  BY DEF S!Outdated
<1> QED
  BY <1>1 DEF Saves

\* The outcome of an execution: its reservation gets the status and is sealed.
Sealed(h, status) == [h EXCEPT !.status = status, !.sealed = TRUE]

LEMMA SealedIs ==
  ASSUME NEW h \in Records, NEW status \in {"succeeded", "failed"}
  PROVE  LET d == Sealed(h, status)
         IN  /\ d \in Records /\ d.no = h.no /\ d.status = status /\ d.rev = h.rev
             /\ d.inputs = h.inputs /\ d.limit = h.limit /\ d.sealed
<1> DEFINE n == h.no  r == h.rev  i == h.inputs  l == h.limit  p == h.status  q == h.sealed
           yes == TRUE
           Rec(x, y) == [no |-> n, status |-> x, rev |-> r, inputs |-> i, limit |-> l,
                         sealed |-> y]
<1>1. h = Rec(p, q)
  BY DEF Records
<1>2. Sealed(h, status) = Rec(status, yes)
  <2> HIDE DEF n, r, i, l, p, q, yes
  <2>1. [h EXCEPT !.status = status] = Rec(status, q)
    BY <1>1
  <2>2. [Rec(status, q) EXCEPT !.sealed = yes] = Rec(status, yes)
    OBVIOUS
  <2> HIDE DEF Rec
  <2> QED
    BY <2>1, <2>2, Zenon DEF Sealed, yes
<1> QED
  BY <1>2 DEF Records

LEMMA FinishedIs ==
  ASSUME exec \in Executions, NEW status \in {"succeeded", "failed"},
         S!Active(exec.summary) \in Records
  PROVE  LET h == S!Active(exec.summary)
             z == S!Finished(status)
         IN  /\ z \in Summaries /\ z.config = exec.summary.config /\ z.rev = exec.summary.rev
             /\ z.history = (exec.summary.history \ {h}) \cup {Sealed(h, status)}
             /\ z.latest = IF status = "succeeded" THEN h.no ELSE exec.summary.latest
             /\ z.latestRev = IF status = "succeeded" THEN h.rev ELSE exec.summary.latestRev
<1> DEFINE h == S!Active(exec.summary)
           sum == exec.summary
           more == (exec.summary.history \ {h}) \cup {Sealed(h, status)}
           c == sum.config  r == sum.rev  o == sum.history  a == sum.active
           l == sum.latest  v == sum.latestRev
           no == h.no  rev == h.rev
<1>1. sum \in Summaries /\ h \in Records
  BY DEF Executions
<1>2. sum = SumOf(c, r, o, a, l, v)
  BY <1>1, SummaryIs
<1>3. Sealed(h, status) \in Records
  BY <1>1, SealedIs
<1>4. S!Finished(status) = IF status = "succeeded"
        THEN [[sum EXCEPT !.history = more] EXCEPT !.latest = no, !.latestRev = rev]
        ELSE [sum EXCEPT !.history = more]
  BY Zenon DEF S!Finished, Sealed
<1>5. [sum EXCEPT !.history = more] = SumOf(c, r, more, a, l, v)
  <2> HIDE DEF h, sum, more, c, r, o, a, l, v, no, rev
  <2> QED
    BY <1>2 DEF SumOf
<1>6. [SumOf(c, r, more, a, l, v) EXCEPT !.latest = no, !.latestRev = rev]
        = SumOf(c, r, more, a, no, rev)
  <2> HIDE DEF h, sum, more, c, r, o, a, l, v, no, rev
  <2>1. [SumOf(c, r, more, a, l, v) EXCEPT !.latest = no] = SumOf(c, r, more, a, no, v)
    BY DEF SumOf
  <2>2. [SumOf(c, r, more, a, no, v) EXCEPT !.latestRev = rev] = SumOf(c, r, more, a, no, rev)
    BY DEF SumOf
  <2> QED
    BY <2>1, <2>2, Zenon
<1>7. S!Finished(status) = SumOf(c, r, more, a, IF status = "succeeded" THEN no ELSE l,
                                 IF status = "succeeded" THEN rev ELSE v)
  <2> HIDE DEF h, sum, more, c, r, o, a, l, v, no, rev
  <2>1. CASE status = "succeeded"
    BY <1>4, <1>5, <1>6, <2>1, Zenon
  <2>2. CASE status # "succeeded"
    BY <1>4, <1>5, <2>2, Zenon
  <2> QED
    BY <2>1, <2>2
<1>8. more \subseteq Records
  BY <1>1, <1>3 DEF Summaries
<1>9. no \in S!Numbers /\ rev \in Nat
  BY <1>1 DEF Records
<1>10. /\ c \in Choices /\ r \in Nat /\ v \in Nat
       /\ a \in {0} \cup S!Numbers /\ l \in {0} \cup S!Numbers
  BY <1>1 DEF Summaries
<1>11. /\ S!Finished(status).config = c /\ S!Finished(status).rev = r
       /\ S!Finished(status).history = more
       /\ S!Finished(status).latest = IF status = "succeeded" THEN no ELSE l
       /\ S!Finished(status).latestRev = IF status = "succeeded" THEN rev ELSE v
  <2> HIDE DEF h, sum, more, c, r, o, a, l, v, no, rev
  <2> QED
    BY <1>7 DEF SumOf
<1>12. S!Finished(status) \in Summaries
  <2> HIDE DEF h, sum, more, c, r, o, a, l, v, no, rev
  <2> QED
    BY <1>7, <1>8, <1>9, <1>10 DEF Summaries, SumOf
<1> QED
  BY <1>11, <1>12

\* What a save writes is of its revision if what it loaded was.
LEMMA RevisedSays ==
  ASSUME NEW s \in Saves, limit \in Bounds
  PROVE  /\ S!RevisedLimit(s) \in Bounds
         /\ S!Revised(s) = s.seen => S!RevisedLimit(s) = limit
         /\ SaysTheFiles(s.seen) => SaysTheFiles(S!Revised(s))
         /\ OfItsRevision(s.seen, limit) => OfItsRevision(S!Revised(s), S!RevisedLimit(s))
<1> DEFINE z == S!Revised(s)
<1>1. /\ z \in Summaries /\ z.history = s.seen.history
      /\ (z = s.seen /\ s.limit = s.to) \/ (z # s.seen /\ z.rev = s.seen.rev + 1)
  BY RevisedIs
<1>2. /\ S!RevisedLimit(s) \in Bounds
      /\ s.limit = s.to => S!RevisedLimit(s) = limit
  BY DEF S!RevisedLimit, Saves
<1>3. /\ s.seen.rev \in Nat /\ \A h \in s.seen.history : h.rev \in Nat
  BY DEF Saves, Summaries, Records
<1> HIDE DEF z
<1>4. SaysTheFiles(s.seen) => SaysTheFiles(z)
  BY <1>1 DEF SaysTheFiles
<1>5. OfItsRevision(s.seen, limit) => OfItsRevision(z, S!RevisedLimit(s))
  BY <1>1, <1>2, <1>3 DEF OfItsRevision
<1> QED
  BY <1>1, <1>2, <1>4, <1>5 DEF z

\* Sealing an outcome changes no file that a history tells of.
LEMMA SealKeeps ==
  ASSUME file \in [S!Numbers -> Payloads], NEW no \in S!Numbers,
         NEW status \in {"succeeded", "failed"}, NEW p \in Payloads, p.status = status,
         S!Agrees(no, p), S!Seal(no, p)
  PROVE  /\ file' \in [S!Numbers -> Payloads] /\ file'[no] = p
         /\ \A sum \in Summaries : SaysTheFiles(sum) =>
              \A h \in sum.history : h.sealed => file'[h.no] = Payload(h)
<1>1. file' = [file EXCEPT ![no] = IF file[no] = S!Nothing THEN p ELSE file[no]]
  BY DEF S!Seal
<1>2. file' \in [S!Numbers -> Payloads] /\ file'[no] = p
  BY <1>1 DEF S!Agrees
<1>3. \A n \in S!Numbers : file[n] = S!Nothing \/ file'[n] = file[n]
  BY <1>1
<1>4. ASSUME NEW sum \in Summaries, SaysTheFiles(sum), NEW h \in sum.history, h.sealed
      PROVE  file'[h.no] = Payload(h)
  <2>1. h \in Records
    BY DEF Summaries
  <2>2. h.no \in S!Numbers /\ h.status # "none"
    BY <2>1 DEF Records
  <2>3. file[h.no] = Payload(h)
    BY <1>4 DEF SaysTheFiles
  <2>4. Payload(h).status # S!Nothing.status
    BY <2>2 DEF Payload, S!Nothing
  <2> QED
    BY <1>3, <2>2, <2>3, <2>4
<1> QED
  BY <1>2, <1>4

-----------------------------------------------------------------------------
(* The invariant holds at the start and is kept by each operation.         *)

LEMMA StatStarts ==
  ASSUME S!Init
  PROVE  StatIInv
<1> USE DEF S!Init, S!Empty, S!Nobody
<1>1. StatTyped
  <2>1. S!Empty \in Summaries
    BY DEF Summaries, Choices
  <2>2. S!Nothing \in Payloads
    BY DEF S!Nothing, Payloads, Choices, Bounds
  <2> QED
    BY <2>1, <2>2 DEF StatTyped, S!Statuses, Bounds, Executions
<1>2. Histories
  BY DEF Histories, SaysTheFiles
<1>3. Works /\ Revisions /\ Freshness
  BY DEF Works, Revisions, Freshness, OfItsRevision
<1>4. S!CompletionIsFresh /\ S!MetricsAreOfLatestSuccess
  BY DEF S!CompletionIsFresh, S!MetricsAreOfLatestSuccess
<1> QED
  BY <1>1, <1>2, <1>3, <1>4 DEF StatIInv

\* What does not touch the step, its columns, its task or its files.
LEMMA OthersKept ==
  ASSUME StatIInv, UNCHANGED <<step, summary, limit, exec, file, metrics, late>>,
         saving' \subseteq saving
  PROVE  StatIInv'
<1>1. StatTyped'
  BY DEF StatIInv, StatTyped
<1>2. Histories'
  BY DEF StatIInv, Histories, SaysTheFiles
<1>3. Works'
  BY DEF StatIInv, Works
<1>4. Revisions'
  BY DEF StatIInv, Revisions, OfItsRevision
<1>5. Freshness'
  BY DEF StatIInv, Freshness
<1>6. S!CompletionIsFresh' /\ S!MetricsAreOfLatestSuccess'
  BY DEF StatIInv, S!CompletionIsFresh, S!MetricsAreOfLatestSuccess
<1> QED
  BY <1>1, <1>2, <1>3, <1>4, <1>5, <1>6 DEF StatIInv

LEMMA BeginsKept ==
  ASSUME StatIInv, NEW r \in Requests, NEW c \in Configs, NEW to \in Bounds,
         NEW analyze \in BOOLEAN, S!Begins(r, c, to, analyze)
  PROVE  StatIInv'
<1> DEFINE s == [id |-> r, inputs |-> c, to |-> to, analyze |-> analyze, from |-> step,
                 seen |-> summary, limit |-> limit, fresh |-> TRUE]
<1>1. /\ S!Editable /\ saving' = saving \cup {s}
      /\ UNCHANGED <<step, summary, limit, exec, file, metrics, late>>
  BY DEF S!Begins
<1>2. s \in Saves
  BY <1>1 DEF StatIInv, StatTyped, Saves, S!Editable
<1>3. s.seen = summary /\ s.from = step
  OBVIOUS
<1> HIDE DEF s
<1>4. StatTyped'
  BY <1>1, <1>2 DEF StatIInv, StatTyped
<1>5. Histories'
  BY <1>1, <1>3 DEF StatIInv, Histories, SaysTheFiles
<1>6. Works'
  BY <1>1 DEF StatIInv, Works
<1>7. Revisions'
  BY <1>1 DEF StatIInv, Revisions, OfItsRevision
<1>8. Freshness'
  BY <1>1, <1>3 DEF StatIInv, Freshness
<1>9. S!CompletionIsFresh' /\ S!MetricsAreOfLatestSuccess'
  BY <1>1 DEF StatIInv, S!CompletionIsFresh, S!MetricsAreOfLatestSuccess
<1> QED
  BY <1>4, <1>5, <1>6, <1>7, <1>8, <1>9 DEF StatIInv

LEMMA SaveEndsKept ==
  ASSUME StatIInv, NEW s \in saving, S!SaveEnds(s)
  PROVE  StatIInv' /\ S!KeepsHistory
<1> DEFINE z == S!Revised(s)
           lim == S!RevisedLimit(s)
<1>1. s \in Saves /\ limit \in Bounds
  BY DEF StatIInv, StatTyped
<1>2. /\ z \in Summaries /\ z.history = s.seen.history /\ z.latest = s.seen.latest
      /\ z = s.seen \/ z.rev = s.seen.rev + 1
  BY <1>1, RevisedIs
<1>3. /\ lim \in Bounds
      /\ z = s.seen => lim = limit
      /\ SaysTheFiles(s.seen) => SaysTheFiles(z)
      /\ OfItsRevision(s.seen, limit) => OfItsRevision(z, lim)
  BY <1>1, RevisedSays
<1>4. /\ saving' = saving \ {s} /\ summary' = (IF z = s.seen THEN summary ELSE z)
      /\ limit' = lim /\ late' = (late \/ (z # s.seen /\ (s.seen # summary \/ ~s.fresh)))
      /\ UNCHANGED <<step, exec, file, metrics>>
  BY DEF S!SaveEnds
<1> HIDE DEF z, lim
<1>5. StatTyped'
  BY <1>1, <1>2, <1>3, <1>4 DEF StatIInv, StatTyped
<1>6. SaysTheFiles(s.seen) /\ SaysTheFiles(summary)
  BY DEF StatIInv, Histories
<1>7. Histories'
  BY <1>3, <1>4, <1>6 DEF StatIInv, Histories, SaysTheFiles
<1>8. Works'
  BY <1>4 DEF StatIInv, Works
<1>9. Freshness'
  BY <1>4 DEF StatIInv, Freshness
<1>10. CASE late'
  BY <1>4, <1>5, <1>7, <1>8, <1>9, <1>10
  DEF StatIInv, Revisions, S!CompletionIsFresh, S!MetricsAreOfLatestSuccess, S!KeepsHistory
<1>11. CASE ~late' /\ z = s.seen
  <2>1. summary' = summary /\ limit' = limit /\ ~late /\ ~late'
    BY <1>3, <1>4, <1>11
  <2>2. Revisions'
    BY <1>4, <2>1 DEF StatIInv, Revisions, OfItsRevision
  <2>3. S!CompletionIsFresh' /\ S!MetricsAreOfLatestSuccess'
    BY <1>4, <2>1 DEF StatIInv, S!CompletionIsFresh, S!MetricsAreOfLatestSuccess
  <2>4. S!KeepsHistory
    BY <2>1 DEF S!KeepsHistory
  <2> QED
    BY <1>5, <1>7, <1>8, <1>9, <2>2, <2>3, <2>4 DEF StatIInv
<1>12. CASE ~late' /\ z # s.seen
  <2>1. summary' = z /\ s.seen = summary /\ s.fresh /\ ~late
    BY <1>4, <1>12
  <2>2. step \in {"pending", "failed", "waiting"}
    BY <1>1, <2>1 DEF StatIInv, Freshness, Saves
  <2>3. ~exec.on /\ ~exec'.on
    BY <1>4, <2>2 DEF StatIInv, Works
  <2>4. OfItsRevision(summary, limit)
    BY <2>1 DEF StatIInv, Revisions
  <2>5. OfItsRevision(summary', limit')
    BY <1>3, <1>4, <2>1, <2>4
  <2>6. Revisions'
    BY <2>3, <2>5 DEF Revisions, OfItsRevision
  <2>7. S!CompletionIsFresh'
    BY <1>4, <2>2 DEF S!CompletionIsFresh
  <2>8. S!MetricsAreOfLatestSuccess'
    BY <1>2, <1>4, <2>1 DEF StatIInv, S!MetricsAreOfLatestSuccess
  <2>9. S!KeepsHistory
    BY <1>2, <2>1 DEF S!KeepsHistory
  <2> QED
    BY <1>5, <1>7, <1>8, <1>9, <2>6, <2>7, <2>8, <2>9 DEF StatIInv
<1> QED
  BY <1>10, <1>11, <1>12

\* Requests that were made stale: nothing of them is fresh any more.
LEMMA OutdatedKept ==
  ASSUME StatIInv, UNCHANGED file, NEW T \in SUBSET saving, saving' = S!Outdated(T)
  PROVE  /\ saving' \subseteq Saves /\ Freshness'
         /\ \A t \in saving' : \A h \in t.seen.history :
              (h.status = "running" => ~h.sealed) /\ (h.sealed => file[h.no] = Payload(h))
<1>1. T \in SUBSET Saves
  BY DEF StatIInv, StatTyped
<1>2. \A t \in saving' : t \in Saves /\ ~t.fresh /\ \E s \in T : t.seen = s.seen
  BY <1>1, OutdatedIs
<1>3. \A s \in T : SaysTheFiles(s.seen)
  BY DEF StatIInv, Histories
<1> QED
  BY <1>2, <1>3 DEF Freshness, SaysTheFiles

LEMMA AnalyzeKept ==
  ASSUME StatIInv, NEW s \in saving, S!Analyze(s)
  PROVE  StatIInv' /\ S!KeepsHistory
<1>1. CASE ~(s.fresh /\ s.from = step)
  <2>1. /\ saving' = saving \ {s}
        /\ UNCHANGED <<step, summary, limit, exec, file, metrics, late>>
    BY <1>1 DEF S!Analyze
  <2>2. StatIInv'
    BY <2>1, OthersKept
  <2> QED
    BY <2>1, <2>2 DEF S!KeepsHistory
<1>2. CASE s.fresh /\ s.from = step
  <2> DEFINE v == S!Revised(s)
             lim == S!RevisedLimit(s)
             z == S!Reserved(v, lim)
  <2>1. s \in Saves /\ limit \in Bounds
    BY DEF StatIInv, StatTyped
  <2>2. /\ v \in Summaries /\ v.history = s.seen.history /\ v.latest = s.seen.latest
    BY <2>1, RevisedIs
  <2>3. /\ lim \in Bounds
        /\ SaysTheFiles(s.seen) => SaysTheFiles(v)
        /\ OfItsRevision(s.seen, limit) => OfItsRevision(v, lim)
    BY <2>1, RevisedSays
  <2>4. /\ S!NextNo(v) \in S!Numbers /\ summary' = z /\ limit' = lim /\ step' = "running"
        /\ saving' = S!Outdated(saving \ {s}) /\ late' = (late \/ s.seen # summary)
        /\ UNCHANGED <<exec, file, metrics>>
    BY <1>2 DEF S!Analyze, S!MayBegin
  <2> HIDE DEF v, lim
  <2>5. /\ z \in Summaries /\ z.latest = v.latest
        /\ z.history = v.history \cup {Reservation(v, lim)}
    BY <2>2, <2>3, <2>4, ReservedDoes
  <2>6. /\ SaysTheFiles(v) => SaysTheFiles(z)
        /\ OfItsRevision(v, lim) => OfItsRevision(z, lim)
    BY <2>2, <2>3, <2>4, ReservedSays
  <2> HIDE DEF z
  <2>7. saving \ {s} \in SUBSET saving /\ UNCHANGED file
    BY <2>4
  <2>8. /\ saving' \subseteq Saves /\ Freshness'
        /\ \A t \in saving' : \A h \in t.seen.history :
             (h.status = "running" => ~h.sealed) /\ (h.sealed => file[h.no] = Payload(h))
    BY <2>4, <2>7, OutdatedKept
  <2>9. StatTyped'
    BY <2>3, <2>4, <2>5, <2>8 DEF StatIInv, StatTyped, S!Statuses
  <2>10. SaysTheFiles(s.seen) /\ SaysTheFiles(exec.summary)
    BY DEF StatIInv, Histories
  <2>11. Histories'
    BY <2>3, <2>4, <2>6, <2>8, <2>10 DEF Histories, SaysTheFiles
  <2>12. ~exec.on /\ ~exec'.on
    BY <1>2, <2>1, <2>4 DEF StatIInv, Works, Saves
  <2>13. Works' /\ S!CompletionIsFresh'
    BY <2>4, <2>12 DEF Works, S!CompletionIsFresh
  <2>14. ASSUME ~late'
         PROVE  ~late /\ s.seen = summary
    BY <2>4, <2>14
  <2>15. Revisions'
    <3>1. ASSUME ~late'
          PROVE  OfItsRevision(summary', limit')
      <4>1. OfItsRevision(summary, limit)
        BY <2>14, <3>1 DEF StatIInv, Revisions
      <4> QED
        BY <2>3, <2>4, <2>6, <2>14, <3>1, <4>1
    <3> QED
      BY <2>12, <3>1 DEF Revisions, OfItsRevision
  <2>16. S!MetricsAreOfLatestSuccess'
    BY <2>2, <2>4, <2>5, <2>14 DEF StatIInv, S!MetricsAreOfLatestSuccess
  <2>17. S!KeepsHistory
    BY <2>2, <2>4, <2>5, <2>14 DEF S!KeepsHistory
  <2> QED
    BY <2>8, <2>9, <2>11, <2>13, <2>15, <2>16, <2>17 DEF StatIInv
<1> QED
  BY <1>1, <1>2

LEMMA BeginStepKept ==
  ASSUME StatIInv, S!BeginStep
  PROVE  StatIInv' /\ S!KeepsHistory
<1> DEFINE z == S!Reserved(summary, limit)
<1>1. /\ step \in {"pending", "failed"} /\ S!NextNo(summary) \in S!Numbers
      /\ summary' = z /\ step' = "running" /\ saving' = S!Outdated(saving)
      /\ UNCHANGED <<limit, exec, file, metrics, late>>
  BY DEF S!BeginStep, S!MayBegin
<1>2. summary \in Summaries /\ limit \in Bounds
  BY DEF StatIInv, StatTyped
<1>3. /\ z \in Summaries /\ z.latest = summary.latest
      /\ z.history = summary.history \cup {Reservation(summary, limit)}
  BY <1>1, <1>2, ReservedDoes
<1>4. /\ SaysTheFiles(summary) => SaysTheFiles(z)
      /\ OfItsRevision(summary, limit) => OfItsRevision(z, limit)
  BY <1>1, <1>2, ReservedSays
<1> HIDE DEF z
<1>5. saving \in SUBSET saving /\ UNCHANGED file
  BY <1>1
<1>6. /\ saving' \subseteq Saves /\ Freshness'
      /\ \A t \in saving' : \A h \in t.seen.history :
           (h.status = "running" => ~h.sealed) /\ (h.sealed => file[h.no] = Payload(h))
  BY <1>1, <1>5, OutdatedKept
<1>7. StatTyped'
  BY <1>1, <1>3, <1>6 DEF StatIInv, StatTyped, S!Statuses
<1>8. Histories'
  BY <1>1, <1>4, <1>6 DEF StatIInv, Histories, SaysTheFiles
<1>9. ~exec.on /\ ~exec'.on
  BY <1>1 DEF StatIInv, Works
<1>10. Works' /\ S!CompletionIsFresh'
  BY <1>1, <1>9 DEF Works, S!CompletionIsFresh
<1>11. Revisions'
  BY <1>1, <1>4, <1>9 DEF StatIInv, Revisions, OfItsRevision
<1>12. S!MetricsAreOfLatestSuccess' /\ S!KeepsHistory
  BY <1>1, <1>3 DEF StatIInv, S!MetricsAreOfLatestSuccess, S!KeepsHistory
<1> QED
  BY <1>6, <1>7, <1>8, <1>10, <1>11, <1>12 DEF StatIInv

LEMMA LoadKept ==
  ASSUME StatIInv, S!Load
  PROVE  StatIInv'
<1> DEFINE again == S!Reserved(summary, limit)
           z == IF S!Active(summary).status = "running" THEN summary ELSE again
<1>1. /\ step = "running" /\ ~exec.on /\ z.active \in S!Numbers
      /\ exec' = [on |-> TRUE, summary |-> z, seen |-> summary]
      /\ UNCHANGED <<step, summary, limit, saving, file, metrics, late>>
  BY DEF S!Load
<1>2. summary \in Summaries /\ limit \in Bounds
  BY DEF StatIInv, StatTyped
<1>3. /\ z \in Summaries /\ z.config = summary.config /\ z.rev = summary.rev
      /\ z.latest = summary.latest /\ z.latestRev = summary.latestRev
      /\ summary.history \subseteq z.history /\ S!Active(z) \in z.history
      /\ S!Active(z).no = z.active /\ S!Active(z).status = "running"
      /\ SaysTheFiles(summary) => SaysTheFiles(z)
      /\ OfItsRevision(summary, limit) => OfItsRevision(z, limit)
  <2>1. CASE S!Active(summary).status = "running"
    <3>1. S!NoRecord.status # "running"
      BY DEF S!NoRecord
    <3>2. \E h \in summary.history : h.no = summary.active
      BY <2>1, <3>1, Zenon DEF S!Active
    <3>3. S!Active(summary) = CHOOSE h \in summary.history : h.no = summary.active
      BY <3>2, Zenon DEF S!Active
    <3>4. S!Active(summary) \in summary.history /\ S!Active(summary).no = summary.active
      BY <3>2, <3>3
    <3> QED
      BY <1>2, <2>1, <3>4
  <2>2. CASE S!Active(summary).status # "running"
    <3>1. z = again
      BY <2>2
    <3>2. again.active = S!NextNo(summary)
      <4>1. again = SumOf(summary.config, summary.rev,
                          summary.history \cup {Reservation(summary, limit)},
                          S!NextNo(summary), summary.latest, summary.latestRev)
        BY <1>2, ReservedIs
      <4> HIDE DEF again
      <4> QED
        BY <4>1, SumFields
    <3>3. S!NextNo(summary) \in S!Numbers
      BY <1>1, <3>1, <3>2
    <3>4. /\ again \in Summaries /\ again.config = summary.config /\ again.rev = summary.rev
          /\ again.latest = summary.latest /\ again.latestRev = summary.latestRev
          /\ again.history = summary.history \cup {Reservation(summary, limit)}
          /\ again.active = S!NextNo(summary) /\ S!Active(again) = Reservation(summary, limit)
      BY <1>2, <3>3, ReservedDoes
    <3>5. /\ SaysTheFiles(summary) => SaysTheFiles(again)
          /\ OfItsRevision(summary, limit) => OfItsRevision(again, limit)
      BY <1>2, <3>3, ReservedSays
    <3>6. /\ Reservation(summary, limit).no = S!NextNo(summary)
          /\ Reservation(summary, limit).status = "running"
      BY DEF Reservation
    <3> HIDE DEF z, again
    <3> QED
      BY <3>1, <3>4, <3>5, <3>6
  <2> QED
    BY <2>1, <2>2
<1> HIDE DEF z
<1>4. exec'.on /\ exec'.summary = z /\ exec'.seen = summary
  BY <1>1
<1>5. StatTyped'
  BY <1>1, <1>2, <1>3 DEF StatIInv, StatTyped, Executions
<1>6. Histories'
  BY <1>1, <1>3, <1>4 DEF StatIInv, Histories, SaysTheFiles
<1>7. Works'
  <2>1. S!Active(exec'.summary) = S!Active(z)
    BY <1>4
  <2>2. S!Active(exec.summary)' = S!Active(exec'.summary)
    BY DEF S!Active
  <2> QED
    BY <1>1, <1>3, <1>4, <2>1, <2>2 DEF Works
<1>8. Revisions'
  <2>1. summary.rev <= summary.rev
    BY <1>2 DEF Summaries
  <2>2. late \/ OfItsRevision(summary, limit)
    BY DEF StatIInv, Revisions
  <2> QED
    BY <1>1, <1>3, <1>4, <2>1, <2>2 DEF Revisions, OfItsRevision
<1>9. Freshness'
  BY <1>1 DEF StatIInv, Freshness
<1>10. S!CompletionIsFresh' /\ S!MetricsAreOfLatestSuccess'
  BY <1>1 DEF StatIInv, S!CompletionIsFresh, S!MetricsAreOfLatestSuccess
<1> QED
  BY <1>5, <1>6, <1>7, <1>8, <1>9, <1>10 DEF StatIInv

LEMMA CompleteKept ==
  ASSUME StatIInv, S!Complete
  PROVE  StatIInv'
<1>1. /\ step = "waiting" /\ S!Covered(summary) /\ step' = "succeeded"
      /\ saving' = S!Outdated(saving)
      /\ UNCHANGED <<summary, limit, exec, file, metrics, late>>
  BY DEF S!Complete
<1>2. saving \in SUBSET saving /\ UNCHANGED file
  BY <1>1
<1>3. /\ saving' \subseteq Saves /\ Freshness'
      /\ \A t \in saving' : \A h \in t.seen.history :
           (h.status = "running" => ~h.sealed) /\ (h.sealed => file[h.no] = Payload(h))
  BY <1>1, <1>2, OutdatedKept
<1>4. StatTyped'
  BY <1>1, <1>3 DEF StatIInv, StatTyped, S!Statuses
<1>5. Histories'
  BY <1>1, <1>3 DEF StatIInv, Histories, SaysTheFiles
<1>6. ~exec.on /\ ~exec'.on
  BY <1>1 DEF StatIInv, Works
<1>7. Works'
  BY <1>6 DEF Works
<1>8. Revisions'
  BY <1>1, <1>6 DEF StatIInv, Revisions, OfItsRevision
<1>9. S!MetricsAreOfLatestSuccess'
  BY <1>1 DEF StatIInv, S!MetricsAreOfLatestSuccess
<1>10. S!CompletionIsFresh'
  <2>1. PICK h \in summary.history :
          h.no = summary.latest /\ h.status = "succeeded" /\ h.rev = summary.rev
    BY <1>1 DEF S!Covered
  <2>2. ~late => h.inputs = summary.config /\ h.limit = limit
    BY <2>1 DEF StatIInv, Revisions, OfItsRevision
  <2> QED
    BY <1>1, <2>1, <2>2 DEF S!CompletionIsFresh
<1> QED
  BY <1>3, <1>4, <1>5, <1>7, <1>8, <1>9, <1>10 DEF StatIInv

\* The task's end, unsaved: what it sealed is what its reservation says.
LEMMA ItsOutcome ==
  ASSUME StatIInv, exec.on, NEW status \in {"succeeded", "failed"}
  PROVE  LET h == S!Active(exec.summary)
         IN  /\ exec.summary \in Summaries /\ h \in Records /\ h \in exec.summary.history
             /\ h.no = exec.summary.active /\ h.no \in S!Numbers /\ ~h.sealed
             /\ S!Outcome(status) \in Payloads /\ S!Outcome(status).status = status
             /\ S!Outcome(status) = Payload(Sealed(h, status))
<1> DEFINE h == S!Active(exec.summary)
<1>1. exec.summary \in Summaries
  BY DEF StatIInv, StatTyped, Executions
<1>2. h \in exec.summary.history /\ h.no = exec.summary.active /\ h.status = "running"
  BY DEF StatIInv, Works
<1>3. h \in Records
  BY <1>1, <1>2 DEF Summaries
<1>4. ~h.sealed
  BY <1>2 DEF StatIInv, Histories, SaysTheFiles
<1>5. S!Outcome(status) =
        [status |-> status, rev |-> h.rev, inputs |-> h.inputs, limit |-> h.limit]
  BY Zenon DEF S!Outcome
<1> HIDE DEF h
<1>6. h.no \in S!Numbers /\ S!Outcome(status) \in Payloads /\ S!Outcome(status).status = status
  BY <1>3, <1>5 DEF Records, Payloads
<1>7. S!Outcome(status) = Payload(Sealed(h, status))
  <2> DEFINE d == Sealed(h, status)
  <2>1. d.status = status /\ d.rev = h.rev /\ d.inputs = h.inputs /\ d.limit = h.limit
    BY <1>3, SealedIs
  <2> HIDE DEF d
  <2> QED
    BY <1>5, <2>1 DEF Payload, d
<1> QED
  BY <1>1, <1>2, <1>3, <1>4, <1>6, <1>7 DEF h

LEMMA ExecEndsKept ==
  ASSUME StatIInv, NEW status \in {"succeeded", "failed"}, S!ExecEnds(status)
  PROVE  StatIInv' /\ S!KeepsHistory
<1> DEFINE h == S!Active(exec.summary)
           d == Sealed(h, status)
           p == S!Outcome(status)
           z == S!Finished(status)
           no == exec.summary.active
<1>1. /\ exec.on /\ S!Agrees(no, p) /\ S!Seal(no, p) /\ summary' = z
      /\ late' = (late \/ summary # exec.seen) /\ saving' = S!Outdated(saving)
      /\ metrics' = (IF status = "succeeded" THEN no ELSE metrics)
      /\ step' = (IF status = "succeeded" THEN "waiting" ELSE "failed")
      /\ exec' = S!Nobody /\ limit' = limit
  BY DEF S!ExecEnds, S!Save, S!Results
<1>2. /\ exec.summary \in Summaries /\ h \in Records /\ h \in exec.summary.history
      /\ h.no = no /\ h.no \in S!Numbers /\ ~h.sealed /\ p \in Payloads /\ p.status = status
      /\ p = Payload(d)
  BY <1>1, ItsOutcome
<1>3. /\ d \in Records /\ d.no = h.no /\ d.status = status /\ d.rev = h.rev
      /\ d.inputs = h.inputs /\ d.limit = h.limit /\ d.sealed
  BY <1>2, SealedIs
<1>4. exec \in Executions
  BY DEF StatIInv, StatTyped
<1>5. /\ z \in Summaries /\ z.config = exec.summary.config /\ z.rev = exec.summary.rev
      /\ z.history = (exec.summary.history \ {h}) \cup {d}
      /\ z.latest = (IF status = "succeeded" THEN h.no ELSE exec.summary.latest)
  BY <1>2, <1>4, FinishedIs
<1> HIDE DEF h, d, p, z, no
<1>6. file \in [S!Numbers -> Payloads]
  BY DEF StatIInv, StatTyped
<1>7. /\ file' \in [S!Numbers -> Payloads] /\ file'[no] = p
      /\ \A sum \in Summaries : SaysTheFiles(sum) =>
           \A g \in sum.history : g.sealed => file'[g.no] = Payload(g)
  BY <1>1, <1>2, <1>6, SealKeeps
<1>8. ~exec'.on /\ exec'.summary = S!Empty /\ exec' \in Executions
  <2>1. S!Empty \in Summaries
    BY DEF S!Empty, Summaries, Choices
  <2> QED
    BY <1>1, <2>1 DEF S!Nobody, Executions
<1>9. \A t \in saving' : t \in Saves /\ ~t.fresh /\ \E s \in saving : t.seen = s.seen
  <2>1. saving \in SUBSET Saves
    BY DEF StatIInv, StatTyped
  <2> QED
    BY <1>1, <2>1, OutdatedIs
<1>10. StatTyped'
  BY <1>1, <1>5, <1>7, <1>8, <1>9 DEF StatIInv, StatTyped, S!Statuses
<1>11. Histories'
  <2>1. \A s \in saving : s.seen \in Summaries
    BY DEF StatIInv, StatTyped, Saves
  <2>2. SaysTheFiles(exec.summary) /\ \A s \in saving : SaysTheFiles(s.seen)
    BY DEF StatIInv, Histories
  <2>3. ASSUME NEW g \in summary'.history
        PROVE  (g.status = "running" => ~g.sealed) /\ (g.sealed => file'[g.no] = Payload(g))
    <3>1. CASE g = d
      BY <1>2, <1>3, <1>7, <3>1
    <3>2. CASE g \in exec.summary.history
      BY <1>2, <1>7, <2>2, <3>2 DEF SaysTheFiles
    <3> QED
      BY <1>1, <1>5, <3>1, <3>2
  <2>4. ASSUME NEW t \in saving', NEW g \in t.seen.history
        PROVE  (g.status = "running" => ~g.sealed) /\ (g.sealed => file'[g.no] = Payload(g))
    <3>1. PICK s \in saving : t.seen = s.seen
      BY <1>9
    <3> QED
      BY <1>7, <2>1, <2>2, <3>1 DEF SaysTheFiles
  <2>5. \A g \in exec'.summary.history : FALSE
    BY <1>8 DEF S!Empty
  <2> QED
    BY <2>3, <2>4, <2>5 DEF Histories, SaysTheFiles
<1>12. Works' /\ Freshness' /\ S!CompletionIsFresh'
  BY <1>1, <1>8, <1>9 DEF Works, Freshness, S!CompletionIsFresh
<1>13. ASSUME ~late'
       PROVE  /\ ~late /\ exec.seen = summary /\ summary.history \subseteq exec.summary.history
              /\ exec.summary.latest = summary.latest
  <2>1. ~late /\ exec.seen = summary
    BY <1>1, <1>13
  <2> QED
    BY <1>1, <2>1 DEF StatIInv, Works
<1>14. Revisions'
  <2>1. ASSUME ~late'
        PROVE  OfItsRevision(summary', limit')
    <3>1. OfItsRevision(exec.summary, limit)
      BY <1>1, <1>13, <2>1 DEF StatIInv, Revisions
    <3> QED
      BY <1>1, <1>2, <1>3, <1>5, <3>1 DEF OfItsRevision
  <2> QED
    BY <1>8, <2>1 DEF Revisions, OfItsRevision
<1>15. S!MetricsAreOfLatestSuccess'
  <2>1. late \/ metrics = summary.latest
    BY DEF StatIInv, S!MetricsAreOfLatestSuccess
  <2> QED
    BY <1>1, <1>2, <1>5, <1>13, <2>1 DEF S!MetricsAreOfLatestSuccess
<1>16. S!KeepsHistory
  BY <1>1, <1>2, <1>5, <1>13 DEF S!KeepsHistory
<1> QED
  BY <1>10, <1>11, <1>12, <1>14, <1>15, <1>16 DEF StatIInv

LEMMA ExecUnsavedKept ==
  ASSUME StatIInv, NEW status \in {"succeeded", "failed"}, S!ExecUnsaved(status)
  PROVE  StatIInv'
<1> DEFINE p == S!Outcome(status)
           no == exec.summary.active
<1>1. /\ exec.on /\ S!Agrees(no, p) /\ S!Seal(no, p) /\ exec' = S!Nobody
      /\ UNCHANGED <<step, summary, limit, saving, metrics, late>>
  BY DEF S!ExecUnsaved
<1>2. no \in S!Numbers /\ p \in Payloads /\ p.status = status
  BY <1>1, ItsOutcome
<1>3. file \in [S!Numbers -> Payloads]
  BY DEF StatIInv, StatTyped
<1> HIDE DEF p, no
<1>4. /\ file' \in [S!Numbers -> Payloads]
      /\ \A sum \in Summaries : SaysTheFiles(sum) =>
           \A g \in sum.history : g.sealed => file'[g.no] = Payload(g)
  BY <1>1, <1>2, <1>3, SealKeeps
<1>5. ~exec'.on /\ exec'.summary = S!Empty /\ exec' \in Executions
  <2>1. S!Empty \in Summaries
    BY DEF S!Empty, Summaries, Choices
  <2> QED
    BY <1>1, <2>1 DEF S!Nobody, Executions
<1>6. StatTyped'
  BY <1>1, <1>4, <1>5 DEF StatIInv, StatTyped
<1>7. Histories'
  <2>1. summary \in Summaries /\ \A s \in saving : s.seen \in Summaries
    BY DEF StatIInv, StatTyped, Saves
  <2>2. SaysTheFiles(summary) /\ \A s \in saving : SaysTheFiles(s.seen)
    BY DEF StatIInv, Histories
  <2>3. \A g \in exec'.summary.history : FALSE
    BY <1>5 DEF S!Empty
  <2> QED
    BY <1>1, <1>4, <2>1, <2>2, <2>3 DEF Histories, SaysTheFiles
<1>8. Works' /\ Freshness'
  BY <1>1, <1>5 DEF StatIInv, Works, Freshness
<1>9. Revisions'
  BY <1>1, <1>5 DEF StatIInv, Revisions, OfItsRevision
<1>10. S!CompletionIsFresh' /\ S!MetricsAreOfLatestSuccess'
  BY <1>1 DEF StatIInv, S!CompletionIsFresh, S!MetricsAreOfLatestSuccess
<1> QED
  BY <1>6, <1>7, <1>8, <1>9, <1>10 DEF StatIInv

\* The task is gone, by a conflict or a crash, and nothing else has changed.
LEMMA TaskGone ==
  ASSUME StatIInv, exec' = S!Nobody, saving' \subseteq saving,
         UNCHANGED <<step, summary, limit, file, metrics, late>>
  PROVE  StatIInv'
<1>1. ~exec'.on /\ exec'.summary = S!Empty /\ exec' \in Executions
  <2>1. S!Empty \in Summaries
    BY DEF S!Empty, Summaries, Choices
  <2> QED
    BY <2>1 DEF S!Nobody, Executions
<1>2. StatTyped'
  BY <1>1 DEF StatIInv, StatTyped
<1>3. Histories'
  <2>1. \A g \in exec'.summary.history : FALSE
    BY <1>1 DEF S!Empty
  <2> QED
    BY <2>1 DEF StatIInv, Histories, SaysTheFiles
<1>4. Works' /\ Freshness'
  BY <1>1 DEF StatIInv, Works, Freshness
<1>5. Revisions'
  BY <1>1 DEF StatIInv, Revisions, OfItsRevision
<1>6. S!CompletionIsFresh' /\ S!MetricsAreOfLatestSuccess'
  BY DEF StatIInv, S!CompletionIsFresh, S!MetricsAreOfLatestSuccess
<1> QED
  BY <1>2, <1>3, <1>4, <1>5, <1>6 DEF StatIInv

-----------------------------------------------------------------------------
(* Every step of the machine, and the composition.                         *)

LEMMA StatKept ==
  ASSUME StatIInv, S!Next
  PROVE  StatIInv' /\ S!KeepsHistory
<1>1. UNCHANGED summary => S!KeepsHistory
  BY DEF S!KeepsHistory
<1>2. ASSUME NEW r \in Requests, NEW c \in Configs, S!SelectBegins(r, c)
      PROVE  StatIInv' /\ UNCHANGED summary
  <2>1. S!Begins(r, c, limit, FALSE) /\ limit \in Bounds
    BY <1>2 DEF S!SelectBegins, StatIInv, StatTyped
  <2> QED
    BY <2>1, BeginsKept DEF S!Begins
<1>3. ASSUME NEW r \in Requests, NEW c \in Configs, NEW l \in Limits,
             NEW analyze \in BOOLEAN, S!SaveBegins(r, c, l, analyze)
      PROVE  StatIInv' /\ UNCHANGED summary
  <2>1. S!Begins(r, c, l, analyze) /\ l \in Bounds
    BY <1>3 DEF S!SaveBegins, Bounds
  <2> QED
    BY <2>1, BeginsKept DEF S!Begins
<1>4. ASSUME NEW s \in saving, S!SaveFails(s)
      PROVE  StatIInv' /\ UNCHANGED summary
  <2>1. /\ saving' \subseteq saving
        /\ UNCHANGED <<step, summary, limit, exec, file, metrics, late>>
    BY <1>4 DEF S!SaveFails
  <2> QED
    BY <2>1, OthersKept
<1>5. ASSUME S!Load
      PROVE  StatIInv' /\ UNCHANGED summary
  BY <1>5, LoadKept DEF S!Load
<1>6. ASSUME S!Complete
      PROVE  StatIInv' /\ UNCHANGED summary
  BY <1>6, CompleteKept DEF S!Complete
<1>7. ASSUME S!Crash
      PROVE  StatIInv' /\ UNCHANGED summary
  <2>1. /\ exec' = S!Nobody /\ saving' \subseteq saving
        /\ UNCHANGED <<step, summary, limit, file, metrics, late>>
    BY <1>7 DEF S!Crash
  <2> QED
    BY <2>1, TaskGone
<1>8. ASSUME NEW status \in {"succeeded", "failed"}, S!ExecUnsaved(status)
      PROVE  StatIInv' /\ UNCHANGED summary
  BY <1>8, ExecUnsavedKept DEF S!ExecUnsaved
<1>9. ASSUME NEW status \in {"succeeded", "failed"}, S!ExecConflicts(status)
      PROVE  StatIInv' /\ UNCHANGED summary
  <2>1. /\ exec' = S!Nobody /\ saving' \subseteq saving
        /\ UNCHANGED <<step, summary, limit, file, metrics, late>>
    BY <1>9 DEF S!ExecConflicts
  <2> QED
    BY <2>1, TaskGone
<1> QED
  BY <1>1, <1>2, <1>3, <1>4, <1>5, <1>6, <1>7, <1>8, <1>9, SaveEndsKept, AnalyzeKept,
     BeginStepKept, ExecEndsKept DEF S!Next

\* The steps of the composition: the statistics machine's own, or none of its variables.
LEMMA ExecutionKept ==
  ASSUME StatIInv, [ExecutionNext]_executionVars
  PROVE  StatIInv' /\ (UNCHANGED statisticsVars \/ S!KeepsHistory)
<1>1. CASE RunStatistics
  BY <1>1, StatKept DEF RunStatistics
<1>2. CASE UNCHANGED statisticsVars
  <2>1. /\ saving' \subseteq saving
        /\ UNCHANGED <<step, summary, limit, exec, file, metrics, late>>
    BY <1>2 DEF statisticsVars
  <2> QED
    BY <1>2, <2>1, OthersKept
<1>3. RunStatistics \/ UNCHANGED statisticsVars
  BY DEF ExecutionNext, RunTerminal, RunParser, RunCommands, RunCaptures, executionVars
<1> QED
  BY <1>1, <1>2, <1>3

LEMMA StatIInvHolds == ExecutionSpec => []StatIInv
<1>1. ExecutionInit => StatIInv
  BY StatStarts DEF ExecutionInit
<1>2. StatIInv /\ [ExecutionNext]_executionVars => StatIInv'
  BY ExecutionKept
<1> QED
  BY <1>1, <1>2, PTL DEF ExecutionSpec

\* A statistics step is completed with an analysis of the configuration that is saved,
\* which is frozen from then on, as long as no save outlived what it was computed from
\* (complete_workflow_step).
THEOREM CompletionFresh == ExecutionSpec => []CompletionIsFresh
<1>1. StatIInv => CompletionIsFresh
  BY DEF StatIInv, CompletionIsFresh
<1> QED
  BY <1>1, StatIInvHolds, PTL

\* The history of analyses says what their sealed files say
\* (_finalize_statistics_analysis).
THEOREM HistoryOfFiles == ExecutionSpec => []HistoryMatchesFiles
<1>1. StatIInv => HistoryMatchesFiles
  BY DEF StatIInv, Histories, SaysTheFiles, Payload, HistoryMatchesFiles, S!HistoryMatchesFiles
<1> QED
  BY <1>1, StatIInvHolds, PTL

\* The metrics of the step are those of its latest success (_replace_metrics).
THEOREM MetricsOfLatest == ExecutionSpec => []MetricsAreOfLatestSuccess
<1>1. StatIInv => MetricsAreOfLatestSuccess
  BY DEF StatIInv, MetricsAreOfLatestSuccess
<1> QED
  BY <1>1, StatIInvHolds, PTL

\* What was sealed stays in the history, unless a save was computed from a step that
\* changed before it was committed (reserve_statistics_analysis and the saves).
THEOREM KeptHistory == ExecutionSpec => HistoryIsKept
<1>1. StatIInv /\ [ExecutionNext]_executionVars
        => [part = "statistics" => S!KeepsHistory]_statisticsVars
  BY ExecutionKept
<1> QED
  BY <1>1, StatIInvHolds, PTL DEF ExecutionSpec, HistoryIsKept

-----------------------------------------------------------------------------
(* The files of a parser step: what a preparation has verified or exported *)
(* is on disk and in its flushed rows, and a completion that may be saved  *)
(* belongs to the attempt that waits.                                      *)

PrepOf(a, left, r, e, s, u, b) ==
  [at |-> a, todo |-> left, row |-> r, exports |-> e, sums |-> s, uploads |-> u, before |-> b]
IsPrep(p) == p = PrepOf(p.at, p.todo, p.row, p.exports, p.sums, p.uploads, p.before)
CollectionOf(i, r, f) == [id |-> i, rev |-> r, fresh |-> f]
IsCollection(c) == c = CollectionOf(c.id, c.rev, c.fresh)
Tabled(f) == f = [t \in Tables |-> f[t]]

ParserTyped ==
  /\ IsPrep(prep) /\ Tabled(prep.row) /\ Tabled(prep.uploads)
  /\ Tabled(inputFile) /\ Tabled(inputRow)
  /\ \A c \in collecting : IsCollection(c)
  /\ \A e \in exporting : e.table \in Tables

\* No export request has come between a preparation's files and rows.
Undisturbed == parserExcused \cap {"export in preparation", "late export"} = {}

Preparing ==
  /\ parserStep # "ready" => prep.at = "idle"
  /\ prep.at = "inputs" /\ Undisturbed =>
       \A t \in Tables \ prep.todo : prep.row[t] = inputFile[t]
  /\ prep.at = "uploads" /\ Undisturbed =>
       /\ prep.row = inputFile /\ prep.sums = inputFile
       /\ \A t \in Tables \ prep.todo : prep.uploads[t] = inputFile[t]

\* A completion that may be saved is of the present attempt and downloaded its outputs.
Collecting ==
  /\ \A c \in collecting : c.fresh =>
       /\ parserStep = "waiting"
       /\ "late export" \notin parserExcused => c.rev > prepared.before
  /\ parserExcused \cap {"conflict", "crash"} = {} => outFile = outRow

ParserIInv == ParserTyped /\ Preparing /\ Collecting /\ P!ParserFilesAsRecorded

LEMMA PrepFields ==
  ASSUME NEW a, NEW l, NEW r, NEW e, NEW s, NEW u, NEW b
  PROVE  LET p == PrepOf(a, l, r, e, s, u, b)
         IN  /\ IsPrep(p) /\ p.at = a /\ p.todo = l /\ p.row = r /\ p.exports = e
             /\ p.sums = s /\ p.uploads = u /\ p.before = b
BY DEF PrepOf, IsPrep

LEMMA TabledSet ==
  ASSUME NEW f, Tabled(f), NEW t \in Tables, NEW w
  PROVE  LET g == [f EXCEPT ![t] = w]
         IN  Tabled(g) /\ g[t] = w /\ \A x \in Tables : x # t => g[x] = f[x]
<1> DEFINE g == [f EXCEPT ![t] = w]
<1>1. DOMAIN f = Tables
  BY DEF Tabled
<1>2. g = [x \in Tables |-> IF x = t THEN w ELSE f[x]]
  BY <1>1
<1> HIDE DEF g
<1>3. g = [x \in Tables |-> g[x]] /\ g[t] = w /\ \A x \in Tables : x # t => g[x] = f[x]
  BY <1>2
<1> QED
  BY <1>3 DEF Tabled, g

LEMMA TabledEqual ==
  ASSUME NEW f, NEW g, Tabled(f), Tabled(g), \A t \in Tables : f[t] = g[t]
  PROVE  f = g
BY DEF Tabled

\* The preparation as its steps write it.
HasBegun(p, l, r, e) == [p EXCEPT !.at = "inputs", !.todo = l, !.row = r, !.exports = e]
LEMMA HasBegunIs ==
  ASSUME NEW p, IsPrep(p), NEW l, NEW r, NEW e
  PROVE  HasBegun(p, l, r, e) = PrepOf("inputs", l, r, e, p.sums, p.uploads, p.before)
<1> DEFINE a == p.at  k == p.todo  q == p.row  f == p.exports  s == p.sums  u == p.uploads
           b == p.before  mark == "inputs"
<1>1. p = PrepOf(a, k, q, f, s, u, b)
  BY DEF IsPrep
<1>2. HasBegun(p, l, r, e) = [p EXCEPT !.at = mark, !.todo = l, !.row = r, !.exports = e]
  BY Zenon DEF HasBegun
<1> HIDE DEF a, k, q, f, s, u, b, mark
<1>3. [p EXCEPT !.at = mark] = PrepOf(mark, k, q, f, s, u, b)
  BY <1>1 DEF PrepOf
<1>4. [PrepOf(mark, k, q, f, s, u, b) EXCEPT !.todo = l] = PrepOf(mark, l, q, f, s, u, b)
  BY DEF PrepOf
<1>5. [PrepOf(mark, l, q, f, s, u, b) EXCEPT !.row = r] = PrepOf(mark, l, r, f, s, u, b)
  BY DEF PrepOf
<1>6. [PrepOf(mark, l, r, f, s, u, b) EXCEPT !.exports = e] = PrepOf(mark, l, r, e, s, u, b)
  BY DEF PrepOf
<1> QED
  BY <1>2, <1>3, <1>4, <1>5, <1>6, Zenon DEF s, u, b, mark

HasExported(p, l, r, e) == [p EXCEPT !.todo = l, !.row = r, !.exports = e]
LEMMA HasExportedIs ==
  ASSUME NEW p, IsPrep(p), NEW l, NEW r, NEW e
  PROVE  HasExported(p, l, r, e) = PrepOf(p.at, l, r, e, p.sums, p.uploads, p.before)
<1> DEFINE a == p.at  k == p.todo  q == p.row  f == p.exports  s == p.sums  u == p.uploads
           b == p.before
<1>1. p = PrepOf(a, k, q, f, s, u, b)
  BY DEF IsPrep
<1>2. HasExported(p, l, r, e) = [p EXCEPT !.todo = l, !.row = r, !.exports = e]
  BY Zenon DEF HasExported
<1> HIDE DEF a, k, q, f, s, u, b
<1>3. [p EXCEPT !.todo = l] = PrepOf(a, l, q, f, s, u, b)
  BY <1>1 DEF PrepOf
<1>4. [PrepOf(a, l, q, f, s, u, b) EXCEPT !.row = r] = PrepOf(a, l, r, f, s, u, b)
  BY DEF PrepOf
<1>5. [PrepOf(a, l, r, f, s, u, b) EXCEPT !.exports = e] = PrepOf(a, l, r, e, s, u, b)
  BY DEF PrepOf
<1> QED
  BY <1>2, <1>3, <1>4, <1>5, Zenon DEF a, s, u, b

HasSums(p, l, s, b) == [p EXCEPT !.at = "uploads", !.todo = l, !.sums = s, !.before = b]
LEMMA HasSumsIs ==
  ASSUME NEW p, IsPrep(p), NEW l, NEW s, NEW b
  PROVE  HasSums(p, l, s, b) = PrepOf("uploads", l, p.row, p.exports, s, p.uploads, b)
<1> DEFINE a == p.at  k == p.todo  r == p.row  e == p.exports  q == p.sums  u == p.uploads
           f == p.before  mark == "uploads"
<1>1. p = PrepOf(a, k, r, e, q, u, f)
  BY DEF IsPrep
<1>2. HasSums(p, l, s, b) = [p EXCEPT !.at = mark, !.todo = l, !.sums = s, !.before = b]
  BY Zenon DEF HasSums
<1> HIDE DEF a, k, r, e, q, u, f, mark
<1>3. [p EXCEPT !.at = mark] = PrepOf(mark, k, r, e, q, u, f)
  BY <1>1 DEF PrepOf
<1>4. [PrepOf(mark, k, r, e, q, u, f) EXCEPT !.todo = l] = PrepOf(mark, l, r, e, q, u, f)
  BY DEF PrepOf
<1>5. [PrepOf(mark, l, r, e, q, u, f) EXCEPT !.sums = s] = PrepOf(mark, l, r, e, s, u, f)
  BY DEF PrepOf
<1>6. [PrepOf(mark, l, r, e, s, u, f) EXCEPT !.before = b] = PrepOf(mark, l, r, e, s, u, b)
  BY DEF PrepOf
<1> QED
  BY <1>2, <1>3, <1>4, <1>5, <1>6, Zenon DEF r, e, u, mark

HasUploaded(p, l, u) == [p EXCEPT !.todo = l, !.uploads = u]
LEMMA HasUploadedIs ==
  ASSUME NEW p, IsPrep(p), NEW l, NEW u
  PROVE  HasUploaded(p, l, u) = PrepOf(p.at, l, p.row, p.exports, p.sums, u, p.before)
<1> DEFINE a == p.at  k == p.todo  r == p.row  e == p.exports  s == p.sums  q == p.uploads
           b == p.before
<1>1. p = PrepOf(a, k, r, e, s, q, b)
  BY DEF IsPrep
<1>2. HasUploaded(p, l, u) = [p EXCEPT !.todo = l, !.uploads = u]
  BY Zenon DEF HasUploaded
<1> HIDE DEF a, k, r, e, s, q, b
<1>3. [p EXCEPT !.todo = l] = PrepOf(a, l, r, e, s, q, b)
  BY <1>1 DEF PrepOf
<1>4. [PrepOf(a, l, r, e, s, q, b) EXCEPT !.uploads = u] = PrepOf(a, l, r, e, s, u, b)
  BY DEF PrepOf
<1> QED
  BY <1>2, <1>3, <1>4, Zenon DEF a, r, e, s, b

LEMMA IdlePrep ==
  /\ IsPrep(P!Idle) /\ P!Idle.at = "idle" /\ Tabled(P!Idle.row) /\ Tabled(P!Idle.uploads)
BY DEF P!Idle, P!None, IsPrep, PrepOf, Tabled

LEMMA CollectionStaled ==
  ASSUME NEW c, IsCollection(c)
  PROVE  LET d == [c EXCEPT !.fresh = FALSE] IN IsCollection(d) /\ ~d.fresh
<1> DEFINE i == c.id  r == c.rev  f == c.fresh  no == FALSE
<1>1. c = CollectionOf(i, r, f)
  BY DEF IsCollection
<1>2. [c EXCEPT !.fresh = no] = CollectionOf(i, r, no)
  <2> HIDE DEF i, r, f, no
  <2> QED
    BY <1>1 DEF CollectionOf
<1>3. IsCollection(CollectionOf(i, r, no)) /\ CollectionOf(i, r, no).fresh = no
  <2> HIDE DEF i, r, f, no
  <2> QED
    BY DEF CollectionOf, IsCollection
<1> HIDE DEF i, r, f
<1> QED
  BY <1>2, <1>3, Zenon DEF no

LEMMA Staled ==
  ASSUME NEW cs, \A c \in cs : IsCollection(c)
  PROVE  \A c \in P!Stale(cs) : IsCollection(c) /\ ~c.fresh
BY CollectionStaled, Zenon DEF P!Stale

LEMMA ParserStarts == P!Init => ParserIInv
<1> SUFFICES ASSUME P!Init PROVE ParserIInv
  OBVIOUS
<1> USE DEF P!Init
<1>1. ParserTyped
  BY IdlePrep DEF ParserTyped, Tabled, P!None
<1>2. Preparing /\ Collecting
  BY IdlePrep DEF Preparing, Collecting
<1>3. P!ParserFilesAsRecorded
  BY DEF P!ParserFilesAsRecorded
<1> QED
  BY <1>1, <1>2, <1>3 DEF ParserIInv

\* A step of the preparation: everything that is committed stays.
LEMMA PreparationGoes ==
  ASSUME ParserIInv, prep.at # "idle" \/ parserStep = "ready",
         IsPrep(prep'), Tabled(prep'.row), Tabled(prep'.uploads), Tabled(inputFile'),
         prep'.at # "idle" => parserStep = "ready",
         prep'.at = "inputs" /\ Undisturbed =>
           \A t \in Tables \ prep'.todo : prep'.row[t] = inputFile'[t],
         prep'.at = "uploads" /\ Undisturbed =>
           /\ prep'.row = inputFile' /\ prep'.sums = inputFile'
           /\ \A t \in Tables \ prep'.todo : prep'.uploads[t] = inputFile'[t],
         UNCHANGED <<inputRow, prepared, exporting, parserStep, outFile, outRow, collecting,
                     parserExcused>>
  PROVE  ParserIInv'
<1>1. ParserTyped'
  BY DEF ParserIInv, ParserTyped
<1>2. Preparing'
  BY DEF Preparing, Undisturbed
<1>3. Collecting'
  BY DEF ParserIInv, Collecting
<1>4. P!ParserFilesAsRecorded'
  BY DEF ParserIInv, P!ParserFilesAsRecorded
<1> QED
  BY <1>1, <1>2, <1>3, <1>4 DEF ParserIInv

LEMMA PrepIs ==
  ASSUME ParserIInv
  PROVE  /\ IsPrep(prep) /\ Tabled(prep.row) /\ Tabled(prep.uploads)
         /\ Tabled(inputFile) /\ Tabled(inputRow)
         /\ prep.at # "idle" => parserStep = "ready"
BY DEF ParserIInv, ParserTyped, Preparing

LEMMA PrepBeginsKept == ASSUME ParserIInv, P!PrepBegins PROVE ParserIInv'
<1>0. PICK v : v = HasBegun(P!Idle, Tables, inputRow, prepared.exports)
  OBVIOUS
<1>1. /\ parserStep = "ready" /\ prep' = v
      /\ UNCHANGED <<inputFile, inputRow, prepared, exporting, parserStep, outFile, outRow,
                     collecting, parserExcused>>
  BY <1>0 DEF P!PrepBegins, P!inVars, P!outVars, HasBegun
<1>2. /\ IsPrep(v) /\ v.at = "inputs" /\ v.todo = Tables /\ v.row = inputRow
      /\ v.uploads = P!Idle.uploads
  BY <1>0, IdlePrep, HasBegunIs, PrepFields
<1> QED
  BY <1>1, <1>2, IdlePrep, PrepIs, PreparationGoes

LEMMA PrepReusesKept == ASSUME ParserIInv, NEW t \in Tables, P!PrepReuses(t) PROVE ParserIInv'
<1> DEFINE left == prep.todo \ {t}
<1>0. PICK v : v = [prep EXCEPT !.todo = left]
  OBVIOUS
<1>1. /\ prep.at = "inputs" /\ prep' = v /\ inputFile[t] = prep.row[t]
      /\ UNCHANGED <<inputFile, inputRow, prepared, exporting, parserStep, outFile, outRow,
                     collecting, parserExcused>>
  BY <1>0 DEF P!PrepReuses, P!Valid, P!inVars, P!outVars
<1>2. /\ IsPrep(v) /\ v.at = prep.at /\ v.todo = left /\ v.row = prep.row
      /\ v.uploads = prep.uploads
  <2> DEFINE a == prep.at  k == prep.todo  r == prep.row  e == prep.exports  s == prep.sums
             u == prep.uploads  b == prep.before
  <2>1. prep = PrepOf(a, k, r, e, s, u, b)
    BY PrepIs DEF IsPrep
  <2> HIDE DEF a, k, r, e, s, u, b, left
  <2>2. v = PrepOf(a, left, r, e, s, u, b)
    BY <1>0, <2>1 DEF PrepOf
  <2>3. /\ IsPrep(v) /\ v.at = a /\ v.todo = left /\ v.row = r /\ v.uploads = u
    BY <2>2, PrepFields
  <2> QED
    BY <2>3 DEF a, r, u
<1>3. Undisturbed => \A x \in Tables \ left : prep.row[x] = inputFile[x]
  BY <1>1 DEF ParserIInv, Preparing
<1> HIDE DEF left
<1> QED
  BY <1>1, <1>2, <1>3, PrepIs, PreparationGoes

LEMMA PrepExportsKept == ASSUME ParserIInv, NEW t \in Tables, P!PrepExports(t) PROVE ParserIInv'
<1>0. PICK r, e : r = [prep.row EXCEPT ![t] = data] /\ e = [prep.exports EXCEPT ![t] = data]
  OBVIOUS
<1>1. PICK left : left = prep.todo \ {t}
  OBVIOUS
<1>2. PICK v : v = HasExported(prep, left, r, e)
  OBVIOUS
<1>3. /\ prep.at = "inputs" /\ prep' = v /\ inputFile' = [inputFile EXCEPT ![t] = data]
      /\ UNCHANGED <<inputRow, prepared, exporting, parserStep, outFile, outRow, collecting,
                     parserExcused>>
  <2>1. prep' = HasExported(prep, left, r, e)
    BY <1>0, <1>1 DEF P!PrepExports, HasExported
  <2> QED
    BY <1>2, <2>1 DEF P!PrepExports, P!outVars
<1>4. /\ IsPrep(v) /\ v.at = prep.at /\ v.todo = left /\ v.row = r /\ v.uploads = prep.uploads
  BY <1>2, PrepIs, HasExportedIs, PrepFields
<1>5. Tabled(r) /\ r[t] = data /\ \A x \in Tables : x # t => r[x] = prep.row[x]
  BY <1>0, PrepIs, TabledSet
<1>6. /\ Tabled(inputFile') /\ inputFile'[t] = data
      /\ \A x \in Tables : x # t => inputFile'[x] = inputFile[x]
  <2>1. PICK d : d = data
    OBVIOUS
  <2>2. Tabled([inputFile EXCEPT ![t] = d]) /\ [inputFile EXCEPT ![t] = d][t] = d
        /\ \A x \in Tables : x # t => [inputFile EXCEPT ![t] = d][x] = inputFile[x]
    BY PrepIs, TabledSet
  <2> QED
    BY <1>3, <2>1, <2>2
<1>7. Undisturbed => \A x \in Tables \ left : r[x] = inputFile'[x]
  <2>1. Undisturbed => \A x \in Tables \ prep.todo : prep.row[x] = inputFile[x]
    BY <1>3 DEF ParserIInv, Preparing
  <2> QED
    BY <1>1, <1>5, <1>6, <2>1
<1> QED
  BY <1>3, <1>4, <1>5, <1>6, <1>7, PrepIs, PreparationGoes

LEMMA PrepSumsKept == ASSUME ParserIInv, P!PrepSums PROVE ParserIInv'
<1>0. PICK v : v = HasSums(prep, Tables, inputFile, remote)
  OBVIOUS
<1>1. /\ prep.at = "inputs" /\ prep.todo = {} /\ prep' = v
      /\ UNCHANGED <<inputFile, inputRow, prepared, exporting, parserStep, outFile, outRow,
                     collecting, parserExcused>>
  BY <1>0 DEF P!PrepSums, P!outVars, HasSums
<1>2. /\ IsPrep(v) /\ v.at = "uploads" /\ v.todo = Tables /\ v.row = prep.row
      /\ v.sums = inputFile /\ v.uploads = prep.uploads
  BY <1>0, PrepIs, HasSumsIs, PrepFields
<1>3. Undisturbed => prep.row = inputFile
  <2>1. Undisturbed => \A t \in Tables : prep.row[t] = inputFile[t]
    BY <1>1 DEF ParserIInv, Preparing
  <2> QED
    BY <2>1, PrepIs, TabledEqual
<1> QED
  BY <1>1, <1>2, <1>3, PrepIs, PreparationGoes

LEMMA PrepUploadsKept == ASSUME ParserIInv, NEW t \in Tables, P!PrepUploads(t) PROVE ParserIInv'
<1>0. PICK u : u = [prep.uploads EXCEPT ![t] = inputFile[t]]
  OBVIOUS
<1>1. PICK left : left = prep.todo \ {t}
  OBVIOUS
<1>2. PICK v : v = HasUploaded(prep, left, u)
  OBVIOUS
<1>3. /\ prep.at = "uploads" /\ prep' = v
      /\ UNCHANGED <<inputFile, inputRow, prepared, exporting, parserStep, outFile, outRow, collecting,
                     parserExcused>>
  <2>1. prep' = HasUploaded(prep, left, u)
    BY <1>0, <1>1 DEF P!PrepUploads, HasUploaded
  <2> QED
    BY <1>2, <2>1 DEF P!PrepUploads, P!outVars
<1>4. /\ IsPrep(v) /\ v.at = prep.at /\ v.todo = left /\ v.row = prep.row /\ v.uploads = u
      /\ v.sums = prep.sums
  BY <1>2, PrepIs, HasUploadedIs, PrepFields
<1>5. Tabled(u) /\ u[t] = inputFile[t] /\ \A x \in Tables : x # t => u[x] = prep.uploads[x]
  BY <1>0, PrepIs, TabledSet
<1>6. Undisturbed =>
        /\ prep.row = inputFile /\ prep.sums = inputFile
        /\ \A x \in Tables \ left : u[x] = inputFile[x]
  BY <1>1, <1>3, <1>5 DEF ParserIInv, Preparing
<1> QED
  BY <1>3, <1>4, <1>5, <1>6, PrepIs, PreparationGoes

\* Nothing that may be saved is in flight while the step does not wait.
LEMMA NothingFresh ==
  ASSUME ParserIInv, parserStep # "waiting"
  PROVE  \A c \in collecting : ~c.fresh
BY DEF ParserIInv, Collecting

LEMMA PrepCommitsKept == ASSUME ParserIInv, P!PrepCommits PROVE ParserIInv'
<1>1. /\ prep.at = "uploads" /\ prep.todo = {} /\ inputRow' = prep.row
      /\ parserStep' = "waiting" /\ prep' = P!Idle
      /\ prepared'.sums = prep.sums /\ prepared'.uploads = prep.uploads
      /\ UNCHANGED <<inputFile, exporting, outFile, outRow, collecting, parserExcused>>
  BY DEF P!PrepCommits, P!outVars
<1>2. ParserTyped'
  BY <1>1, IdlePrep, PrepIs DEF ParserIInv, ParserTyped
<1>3. Preparing'
  BY <1>1, IdlePrep DEF Preparing
<1>4. Collecting'
  BY <1>1, PrepIs, NothingFresh DEF ParserIInv, Collecting
<1>5. P!ParserFilesAsRecorded'
  <2>1. Undisturbed => prep.row = inputFile /\ prep.sums = inputFile
                       /\ \A t \in Tables : prep.uploads[t] = inputFile[t]
    BY <1>1 DEF ParserIInv, Preparing
  <2>2. Undisturbed => prep.uploads = inputFile
    BY <2>1, PrepIs, TabledEqual
  <2> QED
    BY <1>1, <2>1, <2>2 DEF P!ParserFilesAsRecorded, Undisturbed
<1> QED
  BY <1>2, <1>3, <1>4, <1>5 DEF ParserIInv

LEMMA PrepEndsKept == ASSUME ParserIInv, P!PrepFails \/ P!PrepCancelled PROVE ParserIInv'
<1>1. /\ prep.at # "idle" /\ prep' = P!Idle /\ inputRow' \in {prep.row, inputRow}
      /\ UNCHANGED <<inputFile, exporting, parserStep, outFile, outRow, collecting,
                     parserExcused>>
  BY DEF P!PrepFails, P!PrepCancelled, P!outVars
<1>2. ParserTyped'
  BY <1>1, IdlePrep, PrepIs DEF ParserIInv, ParserTyped
<1>3. Preparing'
  BY <1>1, IdlePrep DEF Preparing
<1>4. Collecting'
  BY <1>1, PrepIs, NothingFresh DEF ParserIInv, Collecting
<1>5. P!ParserFilesAsRecorded'
  BY <1>1, PrepIs DEF P!ParserFilesAsRecorded
<1> QED
  BY <1>2, <1>3, <1>4, <1>5 DEF ParserIInv

\* An export that ends while the step waits or is done is known as late, and one that
\* ends while a preparation runs as its disturbance.
LEMMA ExportReturnsKept ==
  ASSUME ParserIInv, NEW e \in exporting, P!ExportReturns(e)
  PROVE  ParserIInv'
<1>0. e.table \in Tables
  BY DEF ParserIInv, ParserTyped
<1>1. /\ inputFile' = [inputFile EXCEPT ![e.table] = data] /\ exporting' \subseteq exporting
      /\ UNCHANGED <<prep, parserStep, outFile, outRow, collecting>>
      /\ parserExcused \subseteq parserExcused'
      /\ parserExcused' \subseteq parserExcused \cup {"export in preparation", "late export"}
  BY DEF P!ExportReturns, P!outVars
<1>2. CASE prep.at # "idle"
  <2>1. /\ "export in preparation" \in parserExcused' /\ UNCHANGED <<inputRow, prepared>>
    BY <1>2 DEF P!ExportReturns
  <2>2. Tabled(inputFile')
    BY <1>0, <1>1, PrepIs, TabledSet
  <2>3. ParserTyped'
    BY <1>1, <2>1, <2>2 DEF ParserIInv, ParserTyped
  <2>4. Preparing'
    BY <1>1, <2>1 DEF ParserIInv, Preparing, Undisturbed
  <2>5. Collecting'
    BY <1>1, <1>2, PrepIs, NothingFresh DEF ParserIInv, Collecting
  <2>6. P!ParserFilesAsRecorded'
    BY <1>1, <1>2, PrepIs DEF P!ParserFilesAsRecorded
  <2> QED
    BY <2>3, <2>4, <2>5, <2>6 DEF ParserIInv
<1>3. CASE prep.at = "idle"
  <2>1. /\ inputRow' = [inputRow EXCEPT ![e.table] = data]
        /\ parserStep # "ready" => "late export" \in parserExcused'
    BY <1>3 DEF P!ExportReturns
  <2>2. Tabled(inputFile') /\ Tabled(inputRow')
    BY <1>0, <1>1, <2>1, PrepIs, TabledSet
  <2>3. ParserTyped'
    BY <1>1, <2>2 DEF ParserIInv, ParserTyped
  <2>4. Preparing'
    BY <1>1, <1>3 DEF ParserIInv, Preparing
  <2>5. Collecting'
    BY <1>1, <2>1 DEF ParserIInv, Collecting
  <2>6. P!ParserFilesAsRecorded'
    BY <1>1, <2>1 DEF ParserIInv, P!ParserFilesAsRecorded
  <2> QED
    BY <2>3, <2>4, <2>5, <2>6 DEF ParserIInv
<1> QED
  BY <1>2, <1>3

\* Steps that leave both the preparation and the committed rows alone.
LEMMA RowsStay ==
  ASSUME ParserIInv,
         UNCHANGED <<inputFile, inputRow, prepared, prep, parserStep, outFile, outRow>>,
         UNCHANGED parserExcused, collecting' \subseteq collecting,
         \A e \in exporting' : e.table \in Tables
  PROVE  ParserIInv'
BY DEF ParserIInv, ParserTyped, Preparing, Undisturbed, Collecting, P!ParserFilesAsRecorded

LEMMA CollectBeginsKept ==
  ASSUME ParserIInv, NEW r \in Completions, P!CollectBegins(r)
  PROVE  ParserIInv'
<1>0. PICK c : c = [id |-> r, rev |-> remote, fresh |-> TRUE]
  OBVIOUS
<1>1. /\ parserStep = "waiting" /\ remote > prepared.before /\ collecting' = collecting \cup {c}
      /\ UNCHANGED <<inputFile, inputRow, prepared, exporting, prep, parserStep, outFile,
                     outRow, parserExcused>>
  BY <1>0 DEF P!CollectBegins, P!Changed, P!inVars
<1>2. IsCollection(c) /\ c.rev = remote
  BY <1>0 DEF IsCollection, CollectionOf
<1>3. ParserTyped'
  BY <1>1, <1>2 DEF ParserIInv, ParserTyped
<1>4. Preparing'
  BY <1>1 DEF ParserIInv, Preparing, Undisturbed
<1>5. Collecting'
  BY <1>1, <1>2 DEF ParserIInv, Collecting
<1>6. P!ParserFilesAsRecorded'
  BY <1>1 DEF ParserIInv, P!ParserFilesAsRecorded
<1> QED
  BY <1>3, <1>4, <1>5, <1>6 DEF ParserIInv

LEMMA CollectSavesKept ==
  ASSUME ParserIInv, NEW c \in collecting, P!CollectSaves(c)
  PROVE  ParserIInv'
<1>1. /\ c.fresh /\ outFile' = c.rev /\ outRow' = c.rev /\ parserStep' = "succeeded"
      /\ collecting' = P!Stale(collecting \ {c})
      /\ UNCHANGED <<inputFile, inputRow, prepared, exporting, prep, parserExcused>>
  BY DEF P!CollectSaves, P!Registered, P!inVars
<1>2. \A d \in collecting' : IsCollection(d) /\ ~d.fresh
  BY <1>1, Staled DEF ParserIInv, ParserTyped
<1>3. parserStep = "waiting" /\ ("late export" \notin parserExcused => c.rev > prepared.before)
  BY <1>1 DEF ParserIInv, Collecting
<1>4. ParserTyped'
  BY <1>1, <1>2 DEF ParserIInv, ParserTyped
<1>5. Preparing'
  BY <1>1, <1>3 DEF ParserIInv, Preparing, Undisturbed
<1>6. Collecting'
  BY <1>1, <1>2 DEF Collecting
<1>7. P!ParserFilesAsRecorded'
  BY <1>1, <1>3 DEF ParserIInv, P!ParserFilesAsRecorded
<1> QED
  BY <1>4, <1>5, <1>6, <1>7 DEF ParserIInv

LEMMA CollectConflictsKept ==
  ASSUME ParserIInv, NEW c \in collecting, P!CollectConflicts(c)
  PROVE  ParserIInv'
<1>1. /\ parserExcused' = parserExcused \cup {"conflict"} /\ collecting' \subseteq collecting
      /\ UNCHANGED <<inputFile, inputRow, prepared, exporting, prep, parserStep, outRow>>
  BY DEF P!CollectConflicts, P!inVars
<1>2. Undisturbed' <=> Undisturbed
  BY <1>1 DEF Undisturbed
<1>3. ParserTyped' /\ Preparing'
  BY <1>1, <1>2 DEF ParserIInv, ParserTyped, Preparing
<1>4. Collecting' /\ P!ParserFilesAsRecorded'
  BY <1>1 DEF ParserIInv, Collecting, P!ParserFilesAsRecorded
<1> QED
  BY <1>3, <1>4 DEF ParserIInv

LEMMA ParserDisconnectKept == ASSUME ParserIInv, P!Disconnect PROVE ParserIInv'
<1>1. /\ parserStep = "waiting" /\ parserStep' = "ready" /\ collecting' = P!Stale(collecting)
      /\ UNCHANGED <<inputFile, inputRow, prepared, exporting, prep, outFile, outRow,
                     parserExcused>>
  BY DEF P!Disconnect, P!inVars
<1>2. \A d \in collecting' : IsCollection(d) /\ ~d.fresh
  BY <1>1, Staled DEF ParserIInv, ParserTyped
<1>3. ParserTyped'
  BY <1>1, <1>2 DEF ParserIInv, ParserTyped
<1>4. Preparing'
  BY <1>1 DEF ParserIInv, Preparing, Undisturbed
<1>5. Collecting' /\ P!ParserFilesAsRecorded'
  BY <1>1, <1>2 DEF ParserIInv, Collecting, P!ParserFilesAsRecorded
<1> QED
  BY <1>3, <1>4, <1>5 DEF ParserIInv

LEMMA ParserConfirmKept == ASSUME ParserIInv, P!Confirm PROVE ParserIInv'
<1>1. /\ parserStep = "waiting" /\ parserStep' = "succeeded" /\ collecting' = P!Stale(collecting)
      /\ parserExcused' = parserExcused \cup {"confirmed"}
      /\ UNCHANGED <<inputFile, inputRow, prepared, exporting, prep, outFile, outRow>>
  BY DEF P!Confirm, P!inVars
<1>2. \A d \in collecting' : IsCollection(d) /\ ~d.fresh
  BY <1>1, Staled DEF ParserIInv, ParserTyped
<1>3. ParserTyped'
  BY <1>1, <1>2 DEF ParserIInv, ParserTyped
<1>4. Undisturbed' <=> Undisturbed
  BY <1>1 DEF Undisturbed
<1>5. Preparing'
  BY <1>1, <1>4 DEF ParserIInv, Preparing
<1>6. Collecting' /\ P!ParserFilesAsRecorded'
  BY <1>1, <1>2 DEF ParserIInv, Collecting, P!ParserFilesAsRecorded
<1> QED
  BY <1>3, <1>5, <1>6 DEF ParserIInv

LEMMA ParserRunChangesKept == ASSUME ParserIInv, P!RunChanges PROVE ParserIInv'
<1>1. /\ collecting' = P!Stale(collecting)
      /\ UNCHANGED <<inputFile, inputRow, prepared, exporting, prep, parserStep, outFile, outRow,
                     parserExcused>>
  BY DEF P!RunChanges, P!inVars
<1>2. \A d \in collecting' : IsCollection(d) /\ ~d.fresh
  BY <1>1, Staled DEF ParserIInv, ParserTyped
<1>3. ParserTyped' /\ Preparing'
  BY <1>1, <1>2 DEF ParserIInv, ParserTyped, Preparing, Undisturbed
<1>4. Collecting' /\ P!ParserFilesAsRecorded'
  BY <1>1, <1>2 DEF ParserIInv, Collecting, P!ParserFilesAsRecorded
<1> QED
  BY <1>3, <1>4 DEF ParserIInv

LEMMA ParserCrashKept == ASSUME ParserIInv, P!Crash PROVE ParserIInv'
<1>1. /\ exporting' = {} /\ prep' = P!Idle /\ collecting' = {}
      /\ parserExcused' = IF outFile' = outFile THEN parserExcused ELSE parserExcused \cup {"crash"}
      /\ UNCHANGED <<inputRow, prepared, parserStep, outRow>>
  BY DEF P!Crash
<1>2. Tabled(inputFile')
  <2>1. CASE inputFile' = inputFile
    BY <2>1, PrepIs
  <2>2. ASSUME NEW e \in exporting, inputFile' = [inputFile EXCEPT ![e.table] = data]
        PROVE  Tabled(inputFile')
    <3>1. e.table \in Tables
      BY DEF ParserIInv, ParserTyped
    <3> QED
      BY <2>2, <3>1, PrepIs, TabledSet
  <2> QED
    BY <2>1, <2>2 DEF P!Crash
<1>3. ParserTyped'
  BY <1>1, <1>2, IdlePrep, PrepIs DEF ParserTyped
<1>4. Preparing'
  BY <1>1, IdlePrep DEF Preparing
<1>5. Collecting'
  BY <1>1 DEF ParserIInv, Collecting
<1>6. P!ParserFilesAsRecorded'
  BY <1>1 DEF ParserIInv, P!ParserFilesAsRecorded
<1> QED
  BY <1>3, <1>4, <1>5, <1>6 DEF ParserIInv

\* Files and rows keep fitting each other through every step of the parser's machine.
LEMMA ParserKept == ASSUME ParserIInv, [P!Next]_parserVars PROVE ParserIInv'
<1>1. CASE UNCHANGED parserVars
  BY <1>1, RowsStay DEF parserVars, ParserIInv, ParserTyped
<1>2. CASE P!DataChanges \/ P!ParserWrites
  BY <1>2, RowsStay DEF P!DataChanges, P!ParserWrites, P!inVars, P!outVars, ParserIInv,
                        ParserTyped
<1>3. CASE P!Disconnect \/ P!Confirm \/ P!RunChanges
  BY <1>3, ParserDisconnectKept, ParserConfirmKept, ParserRunChangesKept
<1>4. CASE P!Crash
  BY <1>4, ParserCrashKept
<1>5. ASSUME NEW r \in Exporters, NEW t \in Tables, P!ExportBegins(r, t)
      PROVE  ParserIInv'
  <2>1. PICK e : e = [id |-> r, table |-> t, seen |-> prepared]
    OBVIOUS
  <2>2. exporting' = exporting \cup {e} /\ e.table = t
    BY <1>5, <2>1 DEF P!ExportBegins
  <2>3. \A x \in exporting' : x.table \in Tables
    BY <2>2 DEF ParserIInv, ParserTyped
  <2> QED
    BY <1>5, <2>3, RowsStay DEF P!ExportBegins, P!outVars
<1>6. ASSUME NEW e \in exporting, P!ExportReturns(e)
      PROVE  ParserIInv'
  BY <1>6, ExportReturnsKept
<1>7. ASSUME NEW e \in exporting, P!ExportFails(e)
      PROVE  ParserIInv'
  BY <1>7, RowsStay DEF P!ExportFails, P!outVars, ParserIInv, ParserTyped
<1>8. CASE P!PrepBegins
  BY <1>8, PrepBeginsKept
<1>9. CASE P!PrepSums
  BY <1>9, PrepSumsKept
<1>10. CASE P!PrepCommits
  BY <1>10, PrepCommitsKept
<1>11. CASE P!PrepFails \/ P!PrepCancelled
  BY <1>11, PrepEndsKept
<1>12. ASSUME NEW t \in Tables, P!PrepReuses(t)
       PROVE  ParserIInv'
  BY <1>12, PrepReusesKept
<1>13. ASSUME NEW t \in Tables, P!PrepExports(t)
       PROVE  ParserIInv'
  BY <1>13, PrepExportsKept
<1>14. ASSUME NEW t \in Tables, P!PrepUploads(t)
       PROVE  ParserIInv'
  BY <1>14, PrepUploadsKept
<1>15. ASSUME NEW r \in Completions, P!CollectBegins(r)
       PROVE  ParserIInv'
  BY <1>15, CollectBeginsKept
<1>16. ASSUME NEW c \in collecting, P!CollectSaves(c)
       PROVE  ParserIInv'
  BY <1>16, CollectSavesKept
<1>17. ASSUME NEW c \in collecting, P!CollectUndone(c)
       PROVE  ParserIInv'
  BY <1>17, RowsStay DEF P!CollectUndone, P!inVars, ParserIInv, ParserTyped
<1>18. ASSUME NEW c \in collecting, P!CollectConflicts(c)
       PROVE  ParserIInv'
  BY <1>18, CollectConflictsKept
<1> QED
  BY <1>1, <1>2, <1>3, <1>4, <1>5, <1>6, <1>7, <1>8, <1>9, <1>10, <1>11, <1>12, <1>13, <1>14,
     <1>15, <1>16, <1>17, <1>18 DEF P!Next

\* A waiting parser was given what the rows say it was given, and a completed step's
\* outputs are those its rows carry the checksums of and newer than its preparation,
\* unless an export overlapped it, a second completion lost its race, a crash cut one
\* short or the step was confirmed, which collects nothing
\* (prepare_parser_terminal_node, collect_parser_outputs, confirm_workflow_step).
THEOREM ParserFilesRecorded == ExecutionSpec => []ParserFilesAsRecorded
<1>1. ExecutionInit => ParserIInv
  BY ParserStarts DEF ExecutionInit
<1>2. ParserIInv /\ [ExecutionNext]_executionVars => ParserIInv'
  <2> SUFFICES ASSUME ParserIInv, [ExecutionNext]_executionVars
               PROVE  ParserIInv'
    OBVIOUS
  <2>1. [P!Next]_parserVars
    BY DEF ExecutionNext, RunTerminal, RunParser, RunStatistics, RunCommands, RunCaptures,
           executionVars
  <2> QED
    BY <2>1, ParserKept
<1>3. ParserIInv => ParserFilesAsRecorded
  BY DEF ParserIInv, ParserFilesAsRecorded
<1> QED
  BY <1>1, <1>2, <1>3, PTL DEF ExecutionSpec

-----------------------------------------------------------------------------
(* The commands of a node without a terminal: an execution that returned   *)
(* ran its shell to the end, nobody goes on with the shell of the          *)
(* execution the row names, and what a completion downloaded was prepared  *)
(* by that execution or later.                                             *)

Codes == {"ok", "bad", "left", "left bad"}
ShellOf(c, v, o, p) == [codes |-> c, revs |-> v, open |-> o, prep |-> p]
Shells == [codes : Seq(Codes), revs : Seq(Nat), open : BOOLEAN, prep : Nat]
HandlerOf(i, v, a, s) == [id |-> i, version |-> v, at |-> a, seen |-> s]
IsHandler(e) ==
  /\ e = HandlerOf(e.id, e.version, e.at, e.seen)
  /\ e.id \in Nat /\ e.version \in Nat /\ e.seen \in Seq(Nat)
NodeOf(s, v, b, r) == [status |-> s, version |-> v, by |-> b, results |-> r]
IsNode(n) ==
  /\ n = NodeOf(n.status, n.version, n.by, n.results)
  /\ n.version \in Nat /\ n.by \in Nat
DownloadOf(i, v, g, d) == [id |-> i, version |-> v, got |-> g, replaced |-> d]
IsDownload(c) ==
  /\ c = DownloadOf(c.id, c.version, c.got, c.replaced)
  /\ c.version \in Nat /\ c.got \in Nat /\ c.replaced \in BOOLEAN

CommandsTyped ==
  /\ IsNode(node) /\ \A e \in nodeExecs : IsHandler(e)
  /\ shells \in Seq(Shells)
  /\ scripts \in [C!Commands -> Nat]
  /\ preps \in Nat /\ output \in {0, preps}
  /\ artifact \in [file : Nat, row : Nat]
  /\ \A c \in downloads : IsDownload(c)

\* A shell stops at its first command that fails; one that has stopped by itself.
Orderly(s) ==
  /\ Len(s.codes) <= N /\ (s.open => Len(s.codes) < N)
  /\ \A i \in 1..Len(s.codes) : i < Len(s.codes) \/ s.open => s.codes[i] = "ok"
Ran(s) ==
  /\ ~s.open /\ s.codes # <<>>
  /\ Len(s.codes) = N \/ s.codes[Len(s.codes)] # "ok"
ShellsFit == \A id \in DOMAIN shells : Orderly(shells[id]) /\ shells[id].prep <= preps

\* A handler that may save has the step to itself, and works on a shell of its own.
HandlerPlace(e) ==
  /\ e.id \in DOMAIN shells /\ e.id # node.by
  /\ e.version <= node.version /\ (e.version = node.version => node.status = "running")
HandlerShell(e) ==
  /\ e.at = "preparing" => shells[e.id].codes = <<>> /\ ~shells[e.id].open
  /\ e.at = "running" => shells[e.id].open \/ Ran(shells[e.id])
  /\ e.at = "returned" => Ran(shells[e.id])
HandlerScripts(e) ==
  /\ nodeKind = "market" /\ e.at = "running" => C!Published(e.seen)
  /\ "script" \notin nodeExcused =>
       \A i \in 1..Len(e.seen) : i \in C!Commands /\ e.seen[i] = scripts[i]
HandlerFits(e) == HandlerPlace(e) /\ HandlerShell(e) /\ HandlerScripts(e)
Handlers ==
  /\ \A e \in nodeExecs : HandlerFits(e)
  /\ \A e, f \in nodeExecs : e.id = f.id => e = f

RowFits ==
  /\ node.by \in {0} \cup DOMAIN shells
  /\ node.status \in {"waiting", "succeeded"} =>
       node.by # 0 /\ Ran(shells[node.by]) /\ C!Succeeds(shells[node.by].codes)
  /\ nodeKind = "rem" /\ node.by # 0 =>
       \/ node.results = <<>>
       \/ ~shells[node.by].open /\ node.results = C!Recorded(shells[node.by].codes)

\* Nothing has left a shell without its handler or beside another.
Calm == nodeExcused \cap {"lost", "crash", "lapse"} = {}
OneAtWork ==
  Calm => /\ \A e, f \in nodeExecs : e = f
          /\ \A id \in DOMAIN shells :
               shells[id].open => \E e \in nodeExecs : e.id = id /\ e.at = "running"
RevsVerified ==
  "script" \notin nodeExcused =>
    \A id \in DOMAIN shells : \A i \in DOMAIN shells[id].revs : shells[id].revs[i] = 1

DownloadFits(c) ==
  /\ nodeKind = "merge" /\ node.by # 0 /\ node.status \in {"waiting", "succeeded", "cancelled"}
  /\ c.version <= node.version /\ (c.version = node.version => node.status = "waiting")
  /\ c.got >= shells[node.by].prep
  /\ c.replaced => artifact.file >= shells[node.by].prep
Downloads ==
  /\ \A c \in downloads : DownloadFits(c)
  /\ C!CaptureIsItsOwn

CommandsIInv ==
  /\ CommandsTyped /\ ShellsFit /\ Handlers /\ RowFits /\ OneAtWork /\ RevsVerified /\ Downloads

\* The shells as the steps write them: one becomes sh, the others stay.
Rewritten(ss, zz, id, sh) ==
  /\ zz \in Seq(Shells) /\ DOMAIN zz = DOMAIN ss /\ zz[id] = sh
  /\ \A i \in DOMAIN ss : i # id => zz[i] = ss[i]

LEMMA ShellRewritten ==
  ASSUME NEW ss \in Seq(Shells), NEW id \in DOMAIN ss, NEW sh \in Shells
  PROVE  Rewritten(ss, [ss EXCEPT ![id] = sh], id, sh)
<1> DEFINE zz == [ss EXCEPT ![id] = sh]
<1>1. id \in 1..Len(ss) /\ DOMAIN ss = 1..Len(ss)
  OBVIOUS
<1>2. zz \in Seq(Shells) /\ Len(zz) = Len(ss)
      /\ \A j \in 1..Len(ss) : zz[j] = IF j = id THEN sh ELSE ss[j]
  BY <1>1, ExceptSeq
<1> HIDE DEF zz
<1>3. DOMAIN zz = DOMAIN ss
  BY <1>1, <1>2
<1>4. Rewritten(ss, zz, id, sh)
  BY <1>1, <1>2, <1>3 DEF Rewritten
<1> QED
  BY <1>4 DEF zz

LEMMA ShellIs ==
  ASSUME NEW s \in Shells
  PROVE  /\ s = ShellOf(s.codes, s.revs, s.open, s.prep)
         /\ s.codes \in Seq(Codes) /\ s.revs \in Seq(Nat) /\ s.open \in BOOLEAN /\ s.prep \in Nat
BY DEF Shells, ShellOf

LEMMA ShellFields ==
  ASSUME NEW c \in Seq(Codes), NEW v \in Seq(Nat), NEW o \in BOOLEAN, NEW p \in Nat
  PROVE  LET s == ShellOf(c, v, o, p)
         IN  s \in Shells /\ s.codes = c /\ s.revs = v /\ s.open = o /\ s.prep = p
BY DEF Shells, ShellOf

LEMMA RewrittenOn ==
  ASSUME NEW a, NEW b, NEW c, NEW id, NEW s, NEW u, Rewritten(a, b, id, s), Rewritten(b, c, id, u)
  PROVE  Rewritten(a, c, id, u)
BY DEF Rewritten

LEMMA ShellField ==
  ASSUME NEW ss \in Seq(Shells), NEW id \in DOMAIN ss
  PROVE  /\ \A c \in Seq(Codes) : Rewritten(ss, [ss EXCEPT ![id].codes = c], id,
                                    ShellOf(c, ss[id].revs, ss[id].open, ss[id].prep))
         /\ \A v \in Seq(Nat) : Rewritten(ss, [ss EXCEPT ![id].revs = v], id,
                                    ShellOf(ss[id].codes, v, ss[id].open, ss[id].prep))
         /\ \A o \in BOOLEAN : Rewritten(ss, [ss EXCEPT ![id].open = o], id,
                                    ShellOf(ss[id].codes, ss[id].revs, o, ss[id].prep))
         /\ \A p \in Nat : Rewritten(ss, [ss EXCEPT ![id].prep = p], id,
                                    ShellOf(ss[id].codes, ss[id].revs, ss[id].open, p))
<1> DEFINE s == ss[id]  c0 == s.codes  v0 == s.revs  o0 == s.open  p0 == s.prep
<1>1. s \in Shells
  OBVIOUS
<1>2. s = ShellOf(c0, v0, o0, p0) /\ c0 \in Seq(Codes) /\ v0 \in Seq(Nat) /\ o0 \in BOOLEAN
      /\ p0 \in Nat
  BY <1>1, ShellIs
<1> HIDE DEF c0, v0, o0, p0
<1>3. ASSUME NEW c \in Seq(Codes)
      PROVE  Rewritten(ss, [ss EXCEPT ![id].codes = c], id, ShellOf(c, v0, o0, p0))
  <2>1. [s EXCEPT !.codes = c] = ShellOf(c, v0, o0, p0)
    BY <1>2 DEF ShellOf
  <2>2. [ss EXCEPT ![id].codes = c] = [ss EXCEPT ![id] = ShellOf(c, v0, o0, p0)]
    BY <2>1
  <2>3. ShellOf(c, v0, o0, p0) \in Shells
    BY <1>2, ShellFields
  <2> QED
    BY <2>2, <2>3, ShellRewritten
<1>4. ASSUME NEW v \in Seq(Nat)
      PROVE  Rewritten(ss, [ss EXCEPT ![id].revs = v], id, ShellOf(c0, v, o0, p0))
  <2>1. [s EXCEPT !.revs = v] = ShellOf(c0, v, o0, p0)
    BY <1>2 DEF ShellOf
  <2>2. [ss EXCEPT ![id].revs = v] = [ss EXCEPT ![id] = ShellOf(c0, v, o0, p0)]
    BY <2>1
  <2>3. ShellOf(c0, v, o0, p0) \in Shells
    BY <1>2, ShellFields
  <2> QED
    BY <2>2, <2>3, ShellRewritten
<1>5. ASSUME NEW o \in BOOLEAN
      PROVE  Rewritten(ss, [ss EXCEPT ![id].open = o], id, ShellOf(c0, v0, o, p0))
  <2>1. [s EXCEPT !.open = o] = ShellOf(c0, v0, o, p0)
    BY <1>2 DEF ShellOf
  <2>2. [ss EXCEPT ![id].open = o] = [ss EXCEPT ![id] = ShellOf(c0, v0, o, p0)]
    BY <2>1
  <2>3. ShellOf(c0, v0, o, p0) \in Shells
    BY <1>2, ShellFields
  <2> QED
    BY <2>2, <2>3, ShellRewritten
<1>6. ASSUME NEW p \in Nat
      PROVE  Rewritten(ss, [ss EXCEPT ![id].prep = p], id, ShellOf(c0, v0, o0, p))
  <2>1. [s EXCEPT !.prep = p] = ShellOf(c0, v0, o0, p)
    BY <1>2 DEF ShellOf
  <2>2. [ss EXCEPT ![id].prep = p] = [ss EXCEPT ![id] = ShellOf(c0, v0, o0, p)]
    BY <2>1
  <2>3. ShellOf(c0, v0, o0, p) \in Shells
    BY <1>2, ShellFields
  <2> QED
    BY <2>2, <2>3, ShellRewritten
<1> QED
  BY <1>3, <1>4, <1>5, <1>6, Zenon DEF c0, v0, o0, p0, s

HasRun(ss, id, c, o) == [ss EXCEPT ![id].codes = c, ![id].open = o]
LEMMA HasRunIs ==
  ASSUME NEW ss \in Seq(Shells), NEW id \in DOMAIN ss, NEW c \in Seq(Codes), NEW o \in BOOLEAN
  PROVE  Rewritten(ss, HasRun(ss, id, c, o), id, ShellOf(c, ss[id].revs, o, ss[id].prep))
<1> DEFINE x == [ss EXCEPT ![id].codes = c]  z == [x EXCEPT ![id].open = o]
           v == ss[id].revs  q == ss[id].open  p == ss[id].prep
<1>1. HasRun(ss, id, c, o) = z
  BY DEF HasRun
<1>a. ss[id] \in Shells
  OBVIOUS
<1>b. v \in Seq(Nat) /\ q \in BOOLEAN /\ p \in Nat
  BY <1>a, ShellIs
<1>c. Rewritten(ss, x, id, ShellOf(c, v, q, p))
  BY ShellField, Zenon
<1>2. Rewritten(ss, x, id, ShellOf(c, v, q, p)) /\ v \in Seq(Nat) /\ q \in BOOLEAN /\ p \in Nat
  BY <1>b, <1>c
<1> HIDE DEF x, v, q, p
<1>3. x \in Seq(Shells) /\ id \in DOMAIN x /\ x[id] = ShellOf(c, v, q, p)
  BY <1>2 DEF Rewritten
<1>4. x[id].codes = c /\ x[id].revs = v /\ x[id].prep = p
  BY <1>2, <1>3, ShellFields
<1>5. Rewritten(x, z, id, ShellOf(x[id].codes, x[id].revs, o, x[id].prep))
  BY <1>3, ShellField
<1> HIDE DEF z
<1> QED
  BY <1>1, <1>2, <1>4, <1>5, RewrittenOn DEF v, p

HasRunScript(ss, id, c, v, o) == [ss EXCEPT ![id].codes = c, ![id].revs = v, ![id].open = o]
LEMMA HasRunScriptIs ==
  ASSUME NEW ss \in Seq(Shells), NEW id \in DOMAIN ss, NEW c \in Seq(Codes), NEW v \in Seq(Nat),
         NEW o \in BOOLEAN
  PROVE  Rewritten(ss, HasRunScript(ss, id, c, v, o), id, ShellOf(c, v, o, ss[id].prep))
<1> DEFINE w == ss[id].revs  q == ss[id].open  p == ss[id].prep
           x == [ss EXCEPT ![id].codes = c]  y == [x EXCEPT ![id].revs = v]
           z == [y EXCEPT ![id].open = o]
<1>1. HasRunScript(ss, id, c, v, o) = z
  BY DEF HasRunScript
<1>a. ss[id] \in Shells
  OBVIOUS
<1>b. w \in Seq(Nat) /\ q \in BOOLEAN /\ p \in Nat
  BY <1>a, ShellIs
<1>c. Rewritten(ss, x, id, ShellOf(c, w, q, p))
  BY ShellField, Zenon
<1>2. Rewritten(ss, x, id, ShellOf(c, w, q, p)) /\ w \in Seq(Nat) /\ q \in BOOLEAN /\ p \in Nat
  BY <1>b, <1>c
<1> HIDE DEF x, w, q, p
<1>3. x \in Seq(Shells) /\ id \in DOMAIN x /\ x[id] = ShellOf(c, w, q, p)
  BY <1>2 DEF Rewritten
<1>4. x[id].codes = c /\ x[id].open = q /\ x[id].prep = p
  BY <1>2, <1>3, ShellFields
<1>5. Rewritten(x, y, id, ShellOf(x[id].codes, v, x[id].open, x[id].prep))
  BY <1>3, ShellField
<1> HIDE DEF y
<1>6. Rewritten(ss, y, id, ShellOf(c, v, q, p))
  BY <1>2, <1>4, <1>5, RewrittenOn
<1>7. y \in Seq(Shells) /\ id \in DOMAIN y /\ y[id] = ShellOf(c, v, q, p)
  BY <1>6 DEF Rewritten
<1>8. y[id].codes = c /\ y[id].revs = v /\ y[id].prep = p
  BY <1>2, <1>7, ShellFields
<1>9. Rewritten(y, z, id, ShellOf(y[id].codes, y[id].revs, o, y[id].prep))
  BY <1>7, ShellField
<1> HIDE DEF z
<1> QED
  BY <1>1, <1>6, <1>8, <1>9, RewrittenOn DEF p

\* A handler that goes on, and a row that is saved, as records.
LEMMA HandlerFields ==
  ASSUME NEW i, NEW v, NEW a, NEW s
  PROVE  LET e == HandlerOf(i, v, a, s) IN e.id = i /\ e.version = v /\ e.at = a /\ e.seen = s
BY DEF HandlerOf

LEMMA HandlerMoves ==
  ASSUME NEW e, IsHandler(e)
  PROVE  /\ \A a : [e EXCEPT !.at = a] = HandlerOf(e.id, e.version, a, e.seen)
         /\ \A s : [e EXCEPT !.seen = s] = HandlerOf(e.id, e.version, e.at, s)
<1> DEFINE i == e.id  v == e.version  b == e.at  t == e.seen
<1>1. e = HandlerOf(i, v, b, t)
  BY DEF IsHandler
<1> HIDE DEF i, v, b, t
<1>2. \A a : [e EXCEPT !.at = a] = HandlerOf(i, v, a, t)
  BY <1>1 DEF HandlerOf
<1>3. \A s : [e EXCEPT !.seen = s] = HandlerOf(i, v, b, s)
  BY <1>1 DEF HandlerOf
<1> QED
  BY <1>2, <1>3, Zenon DEF i, v, b, t

LEMMA NodeFields ==
  ASSUME NEW s, NEW v, NEW b, NEW r
  PROVE  LET n == NodeOf(s, v, b, r) IN n.status = s /\ n.version = v /\ n.by = b /\ n.results = r
BY DEF NodeOf

HasStatus(n, s, v) == [n EXCEPT !.status = s, !.version = v]
LEMMA HasStatusIs ==
  ASSUME NEW n, IsNode(n), NEW s, NEW v
  PROVE  HasStatus(n, s, v) = NodeOf(s, v, n.by, n.results)
<1> DEFINE t == n.status  w == n.version  b == n.by  r == n.results
<1>1. n = NodeOf(t, w, b, r)
  BY DEF IsNode
<1>2. HasStatus(n, s, v) = [[n EXCEPT !.status = s] EXCEPT !.version = v]
  BY DEF HasStatus
<1> HIDE DEF t, w, b, r
<1>3. [n EXCEPT !.status = s] = NodeOf(s, w, b, r)
  BY <1>1 DEF NodeOf
<1>4. [NodeOf(s, w, b, r) EXCEPT !.version = v] = NodeOf(s, v, b, r)
  BY DEF NodeOf
<1> QED
  BY <1>2, <1>3, <1>4, Zenon DEF b, r

LEMMA DownloadReplaced ==
  ASSUME NEW c, IsDownload(c)
  PROVE  [c EXCEPT !.replaced = TRUE] = DownloadOf(c.id, c.version, c.got, TRUE)
<1> DEFINE i == c.id  v == c.version  g == c.got  d == c.replaced  yes == TRUE
<1>1. c = DownloadOf(i, v, g, d)
  BY DEF IsDownload
<1> HIDE DEF i, v, g, d, yes
<1>2. [c EXCEPT !.replaced = yes] = DownloadOf(i, v, g, yes)
  BY <1>1 DEF DownloadOf
<1> QED
  BY <1>2, Zenon DEF i, v, g, yes

LEMMA DownloadFields ==
  ASSUME NEW i, NEW v, NEW g, NEW d
  PROVE  LET c == DownloadOf(i, v, g, d)
         IN  c.id = i /\ c.version = v /\ c.got = g /\ c.replaced = d
BY DEF DownloadOf

LEMMA CommandsStart == C!Init => CommandsIInv
<1> SUFFICES ASSUME C!Init PROVE CommandsIInv
  OBVIOUS
<1>0. /\ node = NodeOf("running", 1, 0, <<>>) /\ nodeExecs = {} /\ shells = <<>>
      /\ scripts = [i \in C!Commands |-> 1] /\ preps = 0 /\ output = 0
      /\ artifact = [file |-> 0, row |-> 0] /\ downloads = {} /\ nodeExcused = {}
  BY DEF C!Init, NodeOf
<1>1. node.status = "running" /\ node.version = 1 /\ node.by = 0 /\ node.results = <<>>
  BY <1>0, NodeFields
<1>2. CommandsTyped
  BY <1>0, <1>1 DEF CommandsTyped, IsNode
<1>3. ShellsFit /\ Handlers /\ RowFits /\ OneAtWork /\ RevsVerified
  BY <1>0, <1>1 DEF ShellsFit, Handlers, RowFits, OneAtWork, RevsVerified
<1>4. Downloads
  BY <1>0, <1>1 DEF Downloads, C!CaptureIsItsOwn
<1> QED
  BY <1>2, <1>3, <1>4 DEF CommandsIInv

\* Steps that leave the row and the downloads' matters alone.
LEMMA DownloadsKept ==
  ASSUME CommandsIInv, UNCHANGED <<nodeKind, node, artifact, downloads>>,
         "late file" \in nodeExcused => "late file" \in nodeExcused',
         \A id \in DOMAIN shells :
           id \in DOMAIN shells' /\ (id = node.by => shells'[id].prep = shells[id].prep)
  PROVE  Downloads'
<1>1. node.by # 0 => node.by \in DOMAIN shells
  BY DEF CommandsIInv, RowFits
<1>2. node.by # 0 => shells'[node.by].prep = shells[node.by].prep
  BY <1>1
<1>3. \A c \in downloads : DownloadFits(c)'
  BY <1>2 DEF CommandsIInv, Downloads, DownloadFits
<1>4. C!CaptureIsItsOwn'
  <2> SUFFICES ASSUME nodeKind = "merge", node.status = "succeeded"
               PROVE  /\ artifact.row >= shells'[node.by].prep
                      /\ "late file" \notin nodeExcused => artifact.file = artifact.row
    BY DEF C!CaptureIsItsOwn, CommandsIInv, Downloads
  <2>1. node.by # 0
    BY DEF CommandsIInv, RowFits
  <2> QED
    BY <1>2, <2>1 DEF CommandsIInv, Downloads, C!CaptureIsItsOwn
<1> QED
  BY <1>3, <1>4 DEF Downloads

\* The shell at work goes on.
LEMMA ShellGoesOn ==
  ASSUME CommandsIInv, NEW id \in DOMAIN shells, shells[id].open, NEW sh \in Shells,
         Rewritten(shells, shells', id, sh), Orderly(sh), sh.open \/ Ran(sh),
         sh.prep = shells[id].prep,
         "script" \notin nodeExcused => \A i \in DOMAIN sh.revs : sh.revs[i] = 1,
         UNCHANGED <<nodeKind, node, nodeExecs, scripts, preps, output, artifact, downloads,
                     nodeExcused>>
  PROVE  CommandsIInv'
<1>1. CommandsTyped'
  BY DEF CommandsIInv, CommandsTyped, Rewritten
<1>2. ShellsFit'
  BY DEF CommandsIInv, ShellsFit, Rewritten
<1>3. Handlers'
  <2>1. ASSUME NEW e \in nodeExecs PROVE HandlerFits(e)'
    <3>1. HandlerFits(e)
      BY DEF CommandsIInv, Handlers
    <3>2. CASE e.id = id
      BY <3>1, <3>2 DEF HandlerFits, HandlerPlace, HandlerShell, HandlerScripts, Rewritten, Ran
    <3>3. CASE e.id # id
      BY <3>1, <3>3 DEF HandlerFits, HandlerPlace, HandlerShell, HandlerScripts, Rewritten
    <3> QED
      BY <3>2, <3>3
  <2> QED
    BY <2>1 DEF CommandsIInv, Handlers
<1>4. RowFits'
  <2>1. node.by = id =>
          node.status \notin {"waiting", "succeeded"} /\ (nodeKind = "rem" => node.results = <<>>)
    BY DEF CommandsIInv, RowFits, Ran, CommandsTyped
  <2>2. node.by # 0 /\ node.by # id => shells'[node.by] = shells[node.by]
    BY DEF CommandsIInv, RowFits, Rewritten
  <2>3. \A codes : C!Succeeds(codes)' = C!Succeeds(codes)
    BY DEF C!Succeeds
  <2> QED
    BY <2>1, <2>2, <2>3 DEF CommandsIInv, RowFits, Rewritten
<1>5. OneAtWork'
  BY DEF CommandsIInv, OneAtWork, Calm, Rewritten
<1>6. RevsVerified'
  BY DEF CommandsIInv, RevsVerified, Rewritten
<1>7. Downloads'
  BY DownloadsKept DEF Rewritten
<1> QED
  BY <1>1, <1>2, <1>3, <1>4, <1>5, <1>6, <1>7 DEF CommandsIInv

After(s, code, v, o) == ShellOf(Append(s.codes, code), v, o, s.prep)
LEMMA CodeAppended ==
  ASSUME NEW s \in Shells, Orderly(s), s.open, NEW code \in Codes, NEW v \in Seq(Nat),
         NEW o \in BOOLEAN, o <=> (code = "ok" /\ Len(s.codes) + 1 < N)
  PROVE  /\ After(s, code, v, o) \in Shells
         /\ After(s, code, v, o).revs = v /\ After(s, code, v, o).prep = s.prep
         /\ Orderly(After(s, code, v, o))
         /\ After(s, code, v, o).open \/ Ran(After(s, code, v, o))
<1> DEFINE c == Append(s.codes, code)  sh == ShellOf(c, v, o, s.prep)
<1>1. s.codes \in Seq(Codes) /\ s.prep \in Nat /\ o \in BOOLEAN
  BY ShellIs
<1>2. /\ c \in Seq(Codes) /\ c # <<>> /\ Len(c) = Len(s.codes) + 1 /\ Len(s.codes) \in Nat
      /\ \A i \in 1..Len(s.codes) : c[i] = s.codes[i]
      /\ c[Len(c)] = code
  BY <1>1, AppendProperties
<1> HIDE DEF c
<1>3. sh \in Shells /\ sh.codes = c /\ sh.revs = v /\ sh.open = o /\ sh.prep = s.prep
  BY <1>1, <1>2 DEF ShellOf, Shells
<1> HIDE DEF sh
<1>4. Len(c) <= N
  BY <1>2, CommandsAssumption DEF Orderly
<1>5. o <=> code = "ok" /\ Len(c) < N
  BY <1>2
<1>6. \A i \in 1..Len(c) : i < Len(c) \/ o => c[i] = "ok"
  <2> SUFFICES ASSUME NEW i \in 1..Len(c), i < Len(c) \/ o PROVE c[i] = "ok"
    OBVIOUS
  <2>1. CASE i = Len(c)
    BY <1>2, <1>5, <2>1
  <2>2. CASE i # Len(c)
    BY <1>2, <2>2 DEF Orderly
  <2> QED
    BY <2>1, <2>2
<1>7. Orderly(sh)
  BY <1>3, <1>4, <1>5, <1>6 DEF Orderly
<1>8. o \/ Len(c) = N \/ c[Len(c)] # "ok"
  BY <1>2, <1>4, <1>5, CommandsAssumption
<1>9. sh.open \/ Ran(sh)
  BY <1>2, <1>3, <1>8 DEF Ran
<1> QED
  BY <1>3, <1>7, <1>9 DEF sh, c, After

LEMMA ShellRunsKept ==
  ASSUME CommandsIInv, NEW id \in DOMAIN shells, C!ShellRuns(id)
  PROVE  CommandsIInv'
<1>0. PICK s : s = shells[id]
  OBVIOUS
<1>1. /\ s.open
      /\ UNCHANGED <<nodeKind, node, nodeExecs, scripts, preps, output, artifact, downloads,
                     nodeExcused>>
  BY <1>0 DEF C!ShellRuns
<1>2. PICK code \in Codes : C!Runs(id, code)
  BY DEF C!ShellRuns, Codes
<1>3. PICK o : o = (C!Continues(code) /\ Len(s.codes) + 1 < N)
  OBVIOUS
<1>4. shells' = HasRun(shells, id, Append(s.codes, code), o)
  BY <1>0, <1>2, <1>3, Zenon DEF C!Runs, HasRun
<1>5. s \in Shells /\ Orderly(s) /\ o \in BOOLEAN /\ shells \in Seq(Shells)
  BY <1>0, <1>3 DEF CommandsIInv, CommandsTyped, ShellsFit
<1>6. s.revs \in Seq(Nat) /\ s.codes \in Seq(Codes) /\ Append(s.codes, code) \in Seq(Codes)
  BY <1>5, ShellIs, AppendProperties
<1> DEFINE sh == After(s, code, s.revs, o)
<1>7. Rewritten(shells, shells', id, sh)
  BY <1>0, <1>4, <1>5, <1>6, HasRunIs DEF After
<1>8. /\ sh \in Shells /\ sh.revs = s.revs /\ sh.prep = s.prep
      /\ Orderly(sh) /\ (sh.open \/ Ran(sh))
  <2>1. o <=> (code = "ok" /\ Len(s.codes) + 1 < N)
    BY <1>3 DEF C!Continues
  <2> QED
    BY <1>1, <1>5, <1>6, <2>1, CodeAppended
<1>9. "script" \notin nodeExcused => \A i \in DOMAIN s.revs : s.revs[i] = 1
  BY <1>0 DEF CommandsIInv, RevsVerified
<1> HIDE DEF sh
<1> QED
  BY <1>0, <1>1, <1>7, <1>8, <1>9, ShellGoesOn

LEMMA MarketRunsKept ==
  ASSUME CommandsIInv, NEW e \in nodeExecs, C!MarketRuns(e)
  PROVE  CommandsIInv'
<1>d. PICK id, s : id = e.id /\ s = shells[id]
  OBVIOUS
<1> DEFINE rev == scripts[Len(s.codes) + 1]
<1>0. HandlerFits(e)
  BY DEF CommandsIInv, Handlers
<1>1. /\ s.open /\ nodeKind = "market" /\ e.at = "running" /\ id \in DOMAIN shells
      /\ UNCHANGED <<nodeKind, node, nodeExecs, scripts, preps, output, artifact, downloads,
                     nodeExcused>>
  BY <1>d, <1>0 DEF C!MarketRuns, HandlerFits, HandlerPlace
<1>2. PICK code \in {"ok", "bad"} :
        LET done == shells[e.id].codes
        IN shells' = [shells EXCEPT ![e.id].codes = Append(@, code),
                                    ![e.id].revs = Append(@, scripts[Len(done) + 1]),
                                    ![e.id].open = C!Continues(code) /\ Len(done) + 1 < N]
  BY DEF C!MarketRuns
<1>3. PICK o : o = (C!Continues(code) /\ Len(s.codes) + 1 < N)
  OBVIOUS
<1>4. shells' = HasRunScript(shells, id, Append(s.codes, code), Append(s.revs, rev), o)
  BY <1>d, <1>2, <1>3, Zenon DEF HasRunScript
<1>5. s \in Shells /\ Orderly(s) /\ o \in BOOLEAN /\ shells \in Seq(Shells) /\ code \in Codes
  <2>1. s \in Shells /\ Orderly(s) /\ shells \in Seq(Shells)
    BY <1>d, <1>1 DEF CommandsIInv, CommandsTyped, ShellsFit
  <2>2. o \in BOOLEAN
    BY <1>3
  <2>3. code \in Codes
    BY DEF Codes
  <2> QED
    BY <2>1, <2>2, <2>3
<1>6. s.revs \in Seq(Nat) /\ s.codes \in Seq(Codes) /\ Append(s.codes, code) \in Seq(Codes)
  BY <1>5, ShellIs, AppendProperties
<1>a. Len(s.codes) + 1 \in C!Commands
  <2>1. Len(s.codes) < N /\ Len(s.codes) \in Nat
    BY <1>1, <1>5, <1>6 DEF Orderly
  <2> QED
    BY <2>1, CommandsAssumption DEF C!Commands
<1>b. rev \in Nat
  BY <1>a DEF CommandsIInv, CommandsTyped
<1> HIDE DEF rev
<1>c. Append(s.revs, rev) \in Seq(Nat)
  BY <1>6, <1>b, AppendProperties
<1> DEFINE sh == After(s, code, Append(s.revs, rev), o)
<1>7. Rewritten(shells, shells', id, sh)
  BY <1>d, <1>1, <1>4, <1>5, <1>6, <1>c, HasRunScriptIs DEF After
<1>8. /\ sh \in Shells /\ sh.revs = Append(s.revs, rev) /\ sh.prep = s.prep
      /\ Orderly(sh) /\ (sh.open \/ Ran(sh))
  <2>1. o <=> (code = "ok" /\ Len(s.codes) + 1 < N)
    BY <1>3 DEF C!Continues
  <2> QED
    <3>1. PICK v : v = Append(s.revs, rev)
      OBVIOUS
    <3>2. v \in Seq(Nat)
      BY <1>c, <3>1
    <3>3. /\ After(s, code, v, o) \in Shells
          /\ After(s, code, v, o).revs = v /\ After(s, code, v, o).prep = s.prep
          /\ Orderly(After(s, code, v, o))
          /\ After(s, code, v, o).open \/ Ran(After(s, code, v, o))
      BY <1>1, <1>5, <3>2, <2>1, CodeAppended
    <3> QED
      BY <3>1, <3>3, Zenon
<1>9. "script" \notin nodeExcused => \A i \in DOMAIN sh.revs : sh.revs[i] = 1
  <2> SUFFICES ASSUME "script" \notin nodeExcused, NEW i \in DOMAIN sh.revs PROVE sh.revs[i] = 1
    OBVIOUS
  <2>1. \A j \in DOMAIN s.revs : s.revs[j] = 1
    BY <1>d, <1>1 DEF CommandsIInv, RevsVerified
  <2>2. rev = 1
    <3> DEFINE k == Len(s.codes) + 1
    <3>1. k \in C!Commands /\ rev = scripts[k]
      BY <1>a DEF rev
    <3> HIDE DEF k
    <3>2. Len(e.seen) = N /\ e.seen[k] = 1
      BY <1>0, <1>1, <3>1 DEF HandlerFits, HandlerPlace, HandlerShell, HandlerScripts, C!Published
    <3>3. k \in 1..Len(e.seen)
      BY <3>1, <3>2 DEF C!Commands
    <3>4. e.seen[k] = scripts[k]
      BY <1>0, <3>3 DEF HandlerFits, HandlerPlace, HandlerShell, HandlerScripts
    <3> QED
      BY <3>1, <3>2, <3>4
  <2>3. i \in 1..(Len(s.revs) + 1) /\ Len(s.revs) \in Nat
        /\ Append(s.revs, rev)[Len(s.revs) + 1] = rev
        /\ \A j \in 1..Len(s.revs) : Append(s.revs, rev)[j] = s.revs[j]
    BY <1>6, <1>8, <1>b, <1>c, AppendProperties
  <2> HIDE DEF sh
  <2> QED
    BY <1>8, <2>1, <2>2, <2>3, <1>6
<1> HIDE DEF sh
<1> QED
  BY <1>d, <1>1, <1>7, <1>8, <1>9, ShellGoesOn

\* A handler goes on, and with it the shell that is its own.
LEMMA ShellAt == ASSUME NEW ss \in Seq(Shells), NEW i \in DOMAIN ss PROVE ss[i] \in Shells
OBVIOUS

HandlerTo(e, f) ==
  IsHandler(f) /\ f.id = e.id /\ nodeExecs' = (nodeExecs \ {e}) \cup {f} /\ HandlerFits(f)'
OwnShell(e) ==
  /\ shells' \in Seq(Shells) /\ DOMAIN shells' = DOMAIN shells
  /\ \A id \in DOMAIN shells : id # e.id => shells'[id] = shells[id]
  /\ Orderly(shells'[e.id]) /\ shells'[e.id].revs = shells[e.id].revs
  /\ shells'[e.id].prep <= preps'
RestAgrees ==
  /\ preps' \in Nat /\ preps <= preps' /\ output' \in {0, preps'}
  /\ "script" \in nodeExcused' <=> "script" \in nodeExcused
  /\ "late file" \in nodeExcused => "late file" \in nodeExcused'
  /\ UNCHANGED <<nodeKind, node, scripts, artifact, downloads>>
StaysCalm(e, f) == Calm' => Calm /\ (shells'[e.id].open => f.at = "running")
GoesOn(e, f) == HandlerTo(e, f) /\ OwnShell(e) /\ RestAgrees /\ StaysCalm(e, f)
LEMMA Upto == ASSUME NEW a \in Nat, NEW b \in Nat, NEW c \in Nat, a <= b, b <= c PROVE a <= c
OBVIOUS
LEMMA HandlerGoes ==
  ASSUME CommandsIInv, NEW e \in nodeExecs, NEW f, GoesOn(e, f)
  PROVE  CommandsIInv'
<1> USE DEF GoesOn, HandlerTo, OwnShell, RestAgrees, StaysCalm
<1>0. /\ HandlerFits(e) /\ e.id # node.by /\ e.id \in DOMAIN shells
      /\ \A g \in nodeExecs : g # e => g.id # e.id
  BY DEF CommandsIInv, Handlers, HandlerFits, HandlerPlace
<1>1. CommandsTyped'
  BY DEF CommandsIInv, CommandsTyped
<1>2. ShellsFit'
  <2> SUFFICES ASSUME NEW id \in DOMAIN shells
               PROVE  Orderly(shells'[id]) /\ shells'[id].prep <= preps'
    BY DEF ShellsFit
  <2>1. Orderly(shells[id]) /\ shells[id].prep <= preps /\ shells[id] \in Shells
    <3>1. shells \in Seq(Shells)
      BY DEF CommandsIInv, CommandsTyped
    <3>2. Orderly(shells[id]) /\ shells[id].prep <= preps
      BY DEF CommandsIInv, ShellsFit
    <3> QED
      BY <3>1, <3>2, ShellAt, Zenon
  <2>2. shells[id].prep \in Nat /\ preps \in Nat
    BY <2>1, ShellIs DEF CommandsIInv, CommandsTyped
  <2>3. CASE id = e.id
    BY <2>3
  <2>4. CASE id # e.id
    <3>1. shells'[id] = shells[id]
      BY <2>4
    <3>2. shells[id].prep <= preps'
      <4>1. preps' \in Nat /\ preps <= preps'
        OBVIOUS
      <4> QED
        BY <2>1, <2>2, <4>1, Upto, Zenon
    <3> QED
      BY <2>1, <3>1, <3>2, Zenon
  <2> QED
    BY <2>3, <2>4
<1>3. Handlers'
  <2>1. ASSUME NEW g \in nodeExecs, g # e PROVE HandlerFits(g)'
    <3>1. HandlerFits(g) /\ g.id # e.id
      BY <1>0, <2>1 DEF CommandsIInv, Handlers
    <3> QED
      BY <3>1 DEF HandlerFits, HandlerPlace, HandlerShell, HandlerScripts
  <2>2. \A g \in nodeExecs' : HandlerFits(g)'
    BY <2>1
  <2>3. \A g, h \in nodeExecs' : g.id = h.id => g = h
    BY <1>0 DEF CommandsIInv, Handlers
  <2> QED
    BY <2>2, <2>3 DEF Handlers
<1>4. RowFits'
  <2>1. node.by # 0 => shells'[node.by] = shells[node.by] /\ node.by \in DOMAIN shells
    BY <1>0 DEF CommandsIInv, RowFits
  <2>2. \A codes : C!Succeeds(codes)' = C!Succeeds(codes)
    BY DEF C!Succeeds
  <2> QED
    BY <2>1, <2>2 DEF CommandsIInv, RowFits
<1>5. OneAtWork'
  <2> SUFFICES ASSUME Calm'
               PROVE  /\ \A g, h \in nodeExecs' : g = h
                      /\ \A id \in DOMAIN shells : shells'[id].open =>
                           \E g \in nodeExecs' : g.id = id /\ g.at = "running"
    BY DEF OneAtWork
  <2>1. /\ \A g, h \in nodeExecs : g = h
        /\ \A id \in DOMAIN shells : shells[id].open =>
             \E g \in nodeExecs : g.id = id /\ g.at = "running"
    BY DEF CommandsIInv, OneAtWork
  <2> QED
    BY <2>1
<1>6. RevsVerified'
  <2>1. \A id \in DOMAIN shells : shells'[id].revs = shells[id].revs
    BY <1>0
  <2> QED
    <3>1. "script" \notin nodeExcused' => "script" \notin nodeExcused
      OBVIOUS
    <3>2. DOMAIN shells' = DOMAIN shells
      OBVIOUS
    <3>3. "script" \notin nodeExcused => \A id \in DOMAIN shells :
            \A i \in DOMAIN shells[id].revs : shells[id].revs[i] = 1
      BY DEF CommandsIInv, RevsVerified
    <3>4. ASSUME "script" \notin nodeExcused', NEW id \in DOMAIN shells',
                 NEW i \in DOMAIN shells'[id].revs
          PROVE  shells'[id].revs[i] = 1
      <4>1. id \in DOMAIN shells
        BY <3>2, Zenon
      <4>2. PICK v : v = shells[id].revs
        OBVIOUS
      <4>3. shells'[id].revs = v
        BY <2>1, <4>1, <4>2, Zenon
      <4>4. \A j \in DOMAIN v : v[j] = 1
        BY <3>1, <3>3, <3>4, <4>1, <4>2, Zenon
      <4>5. i \in DOMAIN v
        BY <4>3, Zenon
      <4> QED
        BY <4>3, <4>4, <4>5, Zenon
    <3> QED
      BY <3>4, Zenon DEF RevsVerified
<1>7. Downloads'
  BY <1>0, DownloadsKept
<1> QED
  BY <1>1, <1>2, <1>3, <1>4, <1>5, <1>6, <1>7 DEF CommandsIInv

LEMMA HandlerIs ==
  ASSUME CommandsIInv, NEW e \in nodeExecs
  PROVE  /\ IsHandler(e) /\ HandlerFits(e) /\ e.id \in DOMAIN shells /\ e.id # node.by
         /\ shells \in Seq(Shells) /\ shells[e.id] \in Shells /\ Orderly(shells[e.id])
         /\ shells[e.id].prep <= preps /\ shells[e.id].prep \in Nat /\ preps \in Nat
         /\ output \in {0, preps}
<1>1. /\ IsHandler(e) /\ HandlerFits(e) /\ shells \in Seq(Shells) /\ preps \in Nat
      /\ output \in {0, preps}
  BY DEF CommandsIInv, CommandsTyped, Handlers
<1>2. e.id \in DOMAIN shells /\ e.id # node.by
  BY <1>1 DEF HandlerFits, HandlerPlace, HandlerShell, HandlerScripts
<1>3. shells[e.id] \in Shells /\ Orderly(shells[e.id]) /\ shells[e.id].prep <= preps
  BY <1>1, <1>2 DEF CommandsIInv, ShellsFit
<1> QED
  BY <1>1, <1>2, <1>3, ShellIs

LEMMA HandlerGoesAlone ==
  ASSUME CommandsIInv, NEW e \in nodeExecs, NEW f, IsHandler(f), f.id = e.id,
         nodeExecs' = (nodeExecs \ {e}) \cup {f}, HandlerFits(f)', ~shells[e.id].open,
         UNCHANGED <<nodeKind, node, shells, scripts, preps, output, artifact, downloads,
                     nodeExcused>>
  PROVE  CommandsIInv'
<1>1. /\ preps \in Nat /\ shells \in Seq(Shells) /\ Orderly(shells[e.id])
      /\ shells[e.id].prep <= preps /\ output \in {0, preps}
  BY HandlerIs
<1>2. Calm' => Calm
  BY DEF Calm
<1>h. HandlerTo(e, f)
  BY <1>1, <1>2 DEF HandlerTo
<1>o. OwnShell(e)
  BY <1>1, <1>2 DEF OwnShell
<1>r. RestAgrees
  <2>1. preps' \in Nat /\ preps <= preps' /\ output' \in {0, preps'}
    BY <1>1, <1>2
  <2>2. "script" \in nodeExcused' <=> "script" \in nodeExcused
    BY <1>1, <1>2
  <2>3. "late file" \in nodeExcused => "late file" \in nodeExcused'
    BY <1>1, <1>2
  <2> QED
    BY <2>1, <2>2, <2>3 DEF RestAgrees
<1>s. StaysCalm(e, f)
  BY <1>1, <1>2 DEF StaysCalm
<1> QED
  BY <1>h, <1>o, <1>r, <1>s, HandlerGoes DEF GoesOn

LEMMA ReadScriptKept ==
  ASSUME CommandsIInv, NEW e \in nodeExecs, C!ReadScript(e)
  PROVE  CommandsIInv'
<1>0. IsHandler(e) /\ HandlerFits(e)
  BY HandlerIs
<1>k. PICK rev, seen : rev = scripts[Len(e.seen) + 1] /\ seen = Append(e.seen, rev)
  OBVIOUS
<1>m. nodeExecs' = (nodeExecs \ {e}) \cup {[e EXCEPT !.seen = seen]}
  BY <1>k, Zenon DEF C!ReadScript, C!Goes
<1>1. /\ e.at = "preparing" /\ Len(e.seen) < N
      /\ UNCHANGED <<nodeKind, node, shells, scripts, preps, output, artifact, downloads,
                     nodeExcused>>
  BY DEF C!ReadScript
<1>2. e.seen \in Seq(Nat) /\ Len(e.seen) \in Nat /\ e.id \in Nat /\ e.version \in Nat
  BY <1>0 DEF IsHandler
<1>3. Len(e.seen) + 1 \in C!Commands
  BY <1>1, <1>2, CommandsAssumption DEF C!Commands
<1>4. rev \in Nat
  BY <1>k, <1>3 DEF CommandsIInv, CommandsTyped
<1>5. PICK k : k = Len(e.seen) + 1
  OBVIOUS
<1>6. rev = scripts[k] /\ k \in C!Commands
  BY <1>k, <1>3, <1>5
<1>7. /\ seen \in Seq(Nat) /\ Len(seen) = k /\ seen[k] = rev
      /\ \A i \in 1..Len(seen) : i = k \/ (i \in 1..Len(e.seen) /\ seen[i] = e.seen[i])
  BY <1>k, <1>2, <1>4, <1>5, AppendProperties
<1> DEFINE f == HandlerOf(e.id, e.version, e.at, seen)
<1>8. [e EXCEPT !.seen = seen] = f
  BY <1>0, HandlerMoves
<1>9. f.id = e.id /\ f.version = e.version /\ f.at = e.at /\ f.seen = seen
  BY HandlerFields
<1> HIDE DEF f
<1>10. IsHandler(f)
  BY <1>2, <1>7, <1>9 DEF IsHandler, f
<1>11. HandlerFits(f)'
  <2>1. HandlerScripts(f)'
    <3>1. "script" \notin nodeExcused =>
            \A i \in 1..Len(seen) : i \in C!Commands /\ seen[i] = scripts[i]
      BY <1>0, <1>6, <1>7 DEF HandlerFits, HandlerScripts
    <3>2. f.at # "running" /\ f.seen = seen
      BY <1>1, <1>9
    <3> QED
      BY <1>1, <3>1, <3>2 DEF HandlerScripts, C!Commands
  <2>2. HandlerPlace(f)'
    BY <1>0, <1>1, <1>9 DEF HandlerFits, HandlerPlace
  <2>3. HandlerShell(f)'
    BY <1>0, <1>1, <1>9 DEF HandlerFits, HandlerShell
  <2> QED
    BY <2>1, <2>2, <2>3, Zenon DEF HandlerFits
<1>12. ~shells[e.id].open
  BY <1>0, <1>1 DEF HandlerFits, HandlerPlace, HandlerShell, HandlerScripts
<1>13. nodeExecs' = (nodeExecs \ {e}) \cup {f}
  BY <1>m, <1>8, Zenon
<1>14. UNCHANGED <<nodeKind, node, shells, scripts, preps, output, artifact, downloads,
                   nodeExcused>>
  BY <1>1
<1>15. f.id = e.id
  BY <1>9
<1> QED
  BY <1>10, <1>11, <1>12, <1>13, <1>14, <1>15, HandlerGoesAlone, Zenon

LEMMA ArchivePreviousKept ==
  ASSUME CommandsIInv, NEW e \in nodeExecs, C!ArchivePrevious(e)
  PROVE  CommandsIInv'
<1>0. /\ IsHandler(e) /\ HandlerFits(e) /\ preps \in Nat /\ shells \in Seq(Shells)
      /\ e.id \in DOMAIN shells /\ Orderly(shells[e.id]) /\ shells[e.id] \in Shells
  BY HandlerIs
<1>m. shells' = [shells EXCEPT ![e.id].prep = preps + 1]
  BY DEF C!ArchivePrevious
<1>1. /\ preps' = preps + 1 /\ output' = 0 /\ e.at = "preparing"
      /\ UNCHANGED <<nodeKind, node, nodeExecs, scripts, artifact, downloads, nodeExcused>>
  BY DEF C!ArchivePrevious
<1>a. PICK s : s = shells[e.id]
  OBVIOUS
<1>b. PICK p : p = preps + 1
  OBVIOUS
<1>2. s = shells[e.id] /\ p = preps + 1 /\ p \in Nat
  BY <1>0, <1>a, <1>b
<1>3. Rewritten(shells, shells', e.id, ShellOf(s.codes, s.revs, s.open, p))
  BY <1>0, <1>m, <1>2, ShellField, Zenon
<1>4. PICK u : u = ShellOf(s.codes, s.revs, s.open, p)
  OBVIOUS
<1>5. u.codes = s.codes /\ u.revs = s.revs /\ u.open = s.open /\ u.prep = p
  BY <1>4 DEF ShellOf
<1>6. /\ shells' \in Seq(Shells) /\ DOMAIN shells' = DOMAIN shells /\ shells'[e.id] = u
      /\ \A id \in DOMAIN shells : id # e.id => shells'[id] = shells[id]
  BY <1>3, <1>4 DEF Rewritten
<1>7. Orderly(u)
  BY <1>0, <1>2, <1>5 DEF Orderly
<1>8. HandlerFits(e)'
  BY <1>0, <1>1, <1>2, <1>5, <1>6 DEF HandlerFits, HandlerPlace, HandlerShell, HandlerScripts
<1>9. Calm' => Calm /\ (shells'[e.id].open => e.at = "running")
  BY <1>0, <1>1, <1>2, <1>5, <1>6 DEF Calm, HandlerFits, HandlerPlace, HandlerShell, HandlerScripts
<1>10. nodeExecs' = (nodeExecs \ {e}) \cup {e}
  BY <1>1
<1>11. preps' \in Nat /\ preps <= preps' /\ output' \in {0, preps'} /\ u.prep <= preps'
  BY <1>0, <1>1, <1>2, <1>5
<1>h. HandlerTo(e, e)
  BY <1>0, <1>1, <1>2, <1>5, <1>6, <1>7, <1>8, <1>9, <1>10, <1>11 DEF HandlerTo
<1>o. OwnShell(e)
  BY <1>0, <1>1, <1>2, <1>5, <1>6, <1>7, <1>8, <1>9, <1>10, <1>11 DEF OwnShell
<1>r. RestAgrees
  <2>1. preps' \in Nat /\ preps <= preps' /\ output' \in {0, preps'}
    BY <1>0, <1>1, <1>2, <1>5, <1>6, <1>7, <1>8, <1>9, <1>10, <1>11
  <2>2. "script" \in nodeExcused' <=> "script" \in nodeExcused
    BY <1>0, <1>1, <1>2, <1>5, <1>6, <1>7, <1>8, <1>9, <1>10, <1>11
  <2>3. "late file" \in nodeExcused => "late file" \in nodeExcused'
    BY <1>0, <1>1, <1>2, <1>5, <1>6, <1>7, <1>8, <1>9, <1>10, <1>11
  <2> QED
    BY <2>1, <2>2, <2>3, <1>1 DEF RestAgrees
<1>s. StaysCalm(e, e)
  BY <1>0, <1>1, <1>2, <1>5, <1>6, <1>7, <1>8, <1>9, <1>10, <1>11 DEF StaysCalm
<1> QED
  BY <1>h, <1>o, <1>r, <1>s, HandlerGoes DEF GoesOn

LEMMA OpensKept ==
  ASSUME CommandsIInv, NEW e \in nodeExecs, C!OpenRem(e) \/ C!OpenSlnic(e) \/ C!OpenMarket(e)
  PROVE  CommandsIInv'
<1>0. /\ IsHandler(e) /\ HandlerFits(e) /\ preps \in Nat /\ shells \in Seq(Shells)
      /\ e.id \in DOMAIN shells /\ Orderly(shells[e.id]) /\ shells[e.id] \in Shells
      /\ shells[e.id].prep <= preps /\ output \in {0, preps}
  BY HandlerIs
<1>m. /\ nodeExecs' = (nodeExecs \ {e}) \cup {[e EXCEPT !.at = "running"]}
      /\ shells' = [shells EXCEPT ![e.id].open = TRUE]
  BY Zenon DEF C!OpenRem, C!OpenSlnic, C!OpenMarket, C!Opens, C!Goes
<1>1. /\ e.at = "preparing"
      /\ UNCHANGED <<nodeKind, node, scripts, preps, output, artifact, downloads, nodeExcused>>
      /\ nodeKind = "market" => C!Published(e.seen)
  BY DEF C!OpenRem, C!OpenSlnic, C!OpenMarket, C!Opens
<1>2. PICK s : s = shells[e.id]
  OBVIOUS
<1>3. Rewritten(shells, shells', e.id, ShellOf(s.codes, s.revs, TRUE, s.prep))
  BY <1>0, <1>m, <1>2, ShellField, Zenon
<1>4. PICK u : u = ShellOf(s.codes, s.revs, TRUE, s.prep)
  OBVIOUS
<1>5. u.codes = s.codes /\ u.revs = s.revs /\ u.open /\ u.prep = s.prep
  BY <1>4 DEF ShellOf
<1>6. /\ shells' \in Seq(Shells) /\ DOMAIN shells' = DOMAIN shells /\ shells'[e.id] = u
      /\ \A id \in DOMAIN shells : id # e.id => shells'[id] = shells[id]
  BY <1>3, <1>4 DEF Rewritten
<1>7. Orderly(u)
  <2>1. u.codes = <<>>
    BY <1>0, <1>1, <1>2, <1>5 DEF HandlerFits, HandlerPlace, HandlerShell, HandlerScripts
  <2> QED
    BY <2>1, CommandsAssumption DEF Orderly
<1> DEFINE mark == "running"  f == HandlerOf(e.id, e.version, mark, e.seen)
<1>8. [e EXCEPT !.at = mark] = f
  BY <1>0, HandlerMoves
<1>9. f.id = e.id /\ f.version = e.version /\ f.at = mark /\ f.seen = e.seen
  BY HandlerFields
<1>10. e.id \in Nat /\ e.version \in Nat /\ e.seen \in Seq(Nat)
  BY <1>0 DEF IsHandler
<1> HIDE DEF f
<1>11. IsHandler(f)
  BY <1>9, <1>10 DEF IsHandler, f
<1>12. HandlerFits(f)'
  BY <1>0, <1>1, <1>5, <1>6, <1>9 DEF HandlerFits, HandlerPlace, HandlerShell, HandlerScripts, C!Published, C!Commands
<1>13. Calm' => Calm /\ (shells'[e.id].open => f.at = "running")
  BY <1>1, <1>9 DEF Calm
<1>14. nodeExecs' = (nodeExecs \ {e}) \cup {f}
  BY <1>m, <1>8, Zenon
<1>15. shells'[e.id].revs = shells[e.id].revs /\ shells'[e.id].prep <= preps'
  BY <1>0, <1>1, <1>2, <1>5, <1>6
<1>h. HandlerTo(e, f)
  BY <1>0, <1>1, <1>6, <1>7, <1>9, <1>11, <1>12, <1>13, <1>14, <1>15 DEF HandlerTo
<1>o. OwnShell(e)
  BY <1>0, <1>1, <1>6, <1>7, <1>9, <1>11, <1>12, <1>13, <1>14, <1>15 DEF OwnShell
<1>r. RestAgrees
  <2>1. preps' \in Nat /\ preps <= preps' /\ output' \in {0, preps'}
    BY <1>0, <1>1, <1>6, <1>7, <1>9, <1>11, <1>12, <1>13, <1>14, <1>15
  <2>2. "script" \in nodeExcused' <=> "script" \in nodeExcused
    BY <1>0, <1>1, <1>6, <1>7, <1>9, <1>11, <1>12, <1>13, <1>14, <1>15
  <2>3. "late file" \in nodeExcused => "late file" \in nodeExcused'
    BY <1>0, <1>1, <1>6, <1>7, <1>9, <1>11, <1>12, <1>13, <1>14, <1>15
  <2> QED
    BY <2>1, <2>2, <2>3, <1>1 DEF RestAgrees
<1>s. StaysCalm(e, f)
  BY <1>0, <1>1, <1>6, <1>7, <1>9, <1>11, <1>12, <1>13, <1>14, <1>15 DEF StaysCalm
<1> QED
  BY <1>h, <1>o, <1>r, <1>s, HandlerGoes DEF GoesOn

LEMMA ReturnsKept ==
  ASSUME CommandsIInv, NEW e \in nodeExecs, C!Returns(e)
  PROVE  CommandsIInv'
<1>0. /\ IsHandler(e) /\ HandlerFits(e) /\ preps \in Nat /\ shells \in Seq(Shells)
      /\ Orderly(shells[e.id]) /\ shells[e.id].prep <= preps /\ output \in {0, preps}
  BY HandlerIs
<1>m. nodeExecs' = (nodeExecs \ {e}) \cup {[e EXCEPT !.at = "returned"]}
  BY Zenon DEF C!Returns, C!Goes
<1>1. /\ e.at = "running" /\ ~shells[e.id].open
      /\ UNCHANGED <<nodeKind, node, shells, scripts, preps, output, artifact, downloads,
                     nodeExcused>>
  BY DEF C!Returns
<1> DEFINE mark == "returned"  f == HandlerOf(e.id, e.version, mark, e.seen)
<1>2. [e EXCEPT !.at = mark] = f
  BY <1>0, HandlerMoves
<1>3. f.id = e.id /\ f.version = e.version /\ f.at = mark /\ f.seen = e.seen
  BY HandlerFields
<1>4. e.id \in Nat /\ e.version \in Nat /\ e.seen \in Seq(Nat)
  BY <1>0 DEF IsHandler
<1> HIDE DEF f
<1>5. IsHandler(f)
  BY <1>3, <1>4 DEF IsHandler, f
<1>6. HandlerFits(f)'
  BY <1>0, <1>1, <1>3 DEF HandlerFits, HandlerPlace, HandlerShell, HandlerScripts
<1>7. nodeExecs' = (nodeExecs \ {e}) \cup {f}
  BY <1>m, <1>2, Zenon
<1> QED
  BY <1>1, <1>3, <1>5, <1>6, <1>7, HandlerGoesAlone

LEMMA RaisesKept ==
  ASSUME CommandsIInv, NEW e \in nodeExecs, C!Raises(e)
  PROVE  CommandsIInv'
<1>0. /\ IsHandler(e) /\ HandlerFits(e) /\ preps \in Nat /\ shells \in Seq(Shells)
      /\ e.id \in DOMAIN shells /\ Orderly(shells[e.id]) /\ shells[e.id] \in Shells
      /\ shells[e.id].prep <= preps /\ output \in {0, preps}
  BY HandlerIs
<1>m. nodeExecs' = (nodeExecs \ {e}) \cup {[e EXCEPT !.at = "raised"]}
  BY Zenon DEF C!Raises, C!Goes
<1>1. UNCHANGED <<nodeKind, node, scripts, preps, output, artifact, downloads>>
  BY DEF C!Raises
<1>2. PICK s : s = shells[e.id]
  OBVIOUS
<1>p. PICK o \in {FALSE, s.open /\ nodeKind # "market"} :
        /\ shells' = [shells EXCEPT ![e.id].open = o]
        /\ nodeExcused' = IF o THEN nodeExcused \cup {"lost"} ELSE nodeExcused
  BY <1>2, Zenon DEF C!Raises
<1>4. o \in BOOLEAN /\ (o => s.open)
  BY <1>p, Zenon
<1>3. nodeExcused' = IF o THEN nodeExcused \cup {"lost"} ELSE nodeExcused
  BY <1>p
<1>5. Rewritten(shells, shells', e.id, ShellOf(s.codes, s.revs, o, s.prep))
  BY <1>0, <1>2, <1>p, <1>4, ShellField, Zenon
<1>6. PICK u : u = ShellOf(s.codes, s.revs, o, s.prep)
  OBVIOUS
<1>7. u.codes = s.codes /\ u.revs = s.revs /\ u.open = o /\ u.prep = s.prep
  BY <1>6 DEF ShellOf
<1>8. /\ shells' \in Seq(Shells) /\ DOMAIN shells' = DOMAIN shells /\ shells'[e.id] = u
      /\ \A id \in DOMAIN shells : id # e.id => shells'[id] = shells[id]
  BY <1>5, <1>6 DEF Rewritten
<1>9. Orderly(u)
  BY <1>0, <1>2, <1>4, <1>7 DEF Orderly
<1> DEFINE mark == "raised"  f == HandlerOf(e.id, e.version, mark, e.seen)
<1>10. [e EXCEPT !.at = mark] = f
  BY <1>0, HandlerMoves
<1>11. f.id = e.id /\ f.version = e.version /\ f.at = mark /\ f.seen = e.seen
  BY HandlerFields
<1>12. e.id \in Nat /\ e.version \in Nat /\ e.seen \in Seq(Nat)
  BY <1>0 DEF IsHandler
<1> HIDE DEF f
<1>13. IsHandler(f)
  BY <1>11, <1>12 DEF IsHandler, f
<1>14. HandlerFits(f)'
  BY <1>0, <1>1, <1>3, <1>8, <1>11 DEF HandlerFits, HandlerPlace, HandlerShell, HandlerScripts
<1>15. Calm' => Calm /\ (shells'[e.id].open => f.at = "running")
  BY <1>3, <1>7, <1>8 DEF Calm
<1>16. /\ "script" \in nodeExcused' <=> "script" \in nodeExcused
       /\ "late file" \in nodeExcused => "late file" \in nodeExcused'
  BY <1>3
<1>17. nodeExecs' = (nodeExecs \ {e}) \cup {f}
  BY <1>m, <1>10, Zenon
<1>18. shells'[e.id].revs = shells[e.id].revs /\ shells'[e.id].prep <= preps'
  BY <1>0, <1>1, <1>2, <1>7, <1>8
<1>h. HandlerTo(e, f)
  BY <1>0, <1>1, <1>8, <1>9, <1>11, <1>13, <1>14, <1>15, <1>16, <1>17, <1>18 DEF HandlerTo
<1>o. OwnShell(e)
  BY <1>0, <1>1, <1>8, <1>9, <1>11, <1>13, <1>14, <1>15, <1>16, <1>17, <1>18 DEF OwnShell
<1>r. RestAgrees
  <2>1. preps' \in Nat /\ preps <= preps' /\ output' \in {0, preps'}
    BY <1>0, <1>1
  <2>2. "script" \in nodeExcused' <=> "script" \in nodeExcused
    BY <1>0, <1>1, <1>8, <1>9, <1>11, <1>13, <1>14, <1>15, <1>16, <1>17, <1>18
  <2>3. "late file" \in nodeExcused => "late file" \in nodeExcused'
    BY <1>0, <1>1, <1>8, <1>9, <1>11, <1>13, <1>14, <1>15, <1>16, <1>17, <1>18
  <2> QED
    BY <2>1, <2>2, <2>3, <1>1 DEF RestAgrees
<1>s. StaysCalm(e, f)
  BY <1>0, <1>1, <1>8, <1>9, <1>11, <1>13, <1>14, <1>15, <1>16, <1>17, <1>18 DEF StaysCalm
<1> QED
  BY <1>h, <1>o, <1>r, <1>s, HandlerGoes DEF GoesOn

LEMMA CommandsIs ==
  ASSUME CommandsIInv
  PROVE  /\ IsNode(node) /\ node.version \in Nat /\ shells \in Seq(Shells)
         /\ scripts \in [C!Commands -> Nat] /\ preps \in Nat /\ output \in {0, preps}
         /\ artifact \in [file : Nat, row : Nat]
         /\ node.by \in {0} \cup DOMAIN shells
         /\ \A e \in nodeExecs : IsHandler(e) /\ HandlerFits(e)
         /\ \A c \in downloads : IsDownload(c) /\ DownloadFits(c)
         /\ \A id \in DOMAIN shells : shells[id] \in Shells /\ shells[id].prep \in Nat
<1>1. /\ IsNode(node) /\ shells \in Seq(Shells)
      /\ scripts \in [C!Commands -> Nat] /\ preps \in Nat /\ output \in {0, preps}
      /\ artifact \in [file : Nat, row : Nat]
      /\ node.by \in {0} \cup DOMAIN shells
      /\ \A e \in nodeExecs : IsHandler(e) /\ HandlerFits(e)
      /\ \A c \in downloads : IsDownload(c) /\ DownloadFits(c)
  BY DEF CommandsIInv, CommandsTyped, RowFits, Handlers, Downloads
<1>2. node.version \in Nat
  BY <1>1 DEF IsNode
<1>3. \A id \in DOMAIN shells : shells[id] \in Shells
  BY <1>1, ShellAt
<1> QED
  BY <1>1, <1>2, <1>3, ShellIs, Zenon

LEMMA BeginCommandsKept == ASSUME CommandsIInv, C!Begin PROVE CommandsIInv'
<1>0. shells \in Seq(Shells) /\ preps \in Nat /\ node.version \in Nat
      /\ node.by \in {0} \cup DOMAIN shells /\ \A e \in nodeExecs : IsHandler(e) /\ HandlerFits(e)
  BY CommandsIs
<1>1. PICK l, v : l = Len(shells) + 1 /\ v = node.version
  OBVIOUS
<1> DEFINE s == ShellOf(<<>>, <<>>, FALSE, 0)  f == HandlerOf(l, v, "preparing", <<>>)
<1>2. /\ nodeExecs' = nodeExecs \cup {f} /\ shells' = Append(shells, s)
      /\ node.status = "running"
      /\ nodeExcused' = IF nodeExecs = {} THEN nodeExcused ELSE nodeExcused \cup {"lapse"}
      /\ UNCHANGED <<nodeKind, node, scripts, preps, output, artifact, downloads>>
  BY <1>1 DEF C!Begin, HandlerOf, ShellOf
<1>3. s \in Shells /\ s.codes = <<>> /\ s.revs = <<>> /\ ~s.open /\ s.prep = 0
  BY DEF ShellOf, Shells
<1>4. f.id = l /\ f.version = v /\ f.at = "preparing" /\ f.seen = <<>>
  BY HandlerFields
<1>5. l \in Nat /\ v \in Nat /\ f = HandlerOf(f.id, f.version, f.at, f.seen)
  BY <1>0, <1>1, <1>4
<1> HIDE DEF s, f
<1>6. /\ shells' \in Seq(Shells) /\ Len(shells') = l /\ shells'[l] = s
      /\ \A i \in 1..Len(shells) : shells'[i] = shells[i]
  BY <1>0, <1>1, <1>2, <1>3, AppendProperties
<1>7. /\ DOMAIN shells' = DOMAIN shells \cup {l} /\ l \notin DOMAIN shells /\ l # 0
      /\ \A i \in DOMAIN shells : shells'[i] = shells[i]
  BY <1>0, <1>1, <1>6
<1>8. IsHandler(f)
  BY <1>4, <1>5 DEF IsHandler
<1>9. CommandsTyped'
  BY <1>2, <1>6, <1>8 DEF CommandsIInv, CommandsTyped
<1>10. ShellsFit'
  <2>1. Orderly(s) /\ s.prep <= preps
    BY <1>0, <1>3, CommandsAssumption DEF Orderly
  <2> QED
    BY <1>2, <1>6, <1>7, <2>1 DEF CommandsIInv, ShellsFit
<1>11. Handlers'
  <2>1. ASSUME NEW e \in nodeExecs PROVE HandlerFits(e)' /\ e.id # l
    <3>1. HandlerFits(e)
      BY <1>0
    <3>2. HandlerPlace(e)' /\ HandlerShell(e)'
      BY <1>2, <1>7, <3>1 DEF HandlerFits, HandlerPlace, HandlerShell
    <3>3. HandlerScripts(e)'
      BY <1>2, <3>1 DEF HandlerFits, HandlerScripts
    <3>4. e.id # l
      BY <1>7, <3>1 DEF HandlerFits, HandlerPlace
    <3> QED
      BY <3>2, <3>3, <3>4 DEF HandlerFits
  <2>2. HandlerFits(f)'
    <3>1. HandlerPlace(f)'
      BY <1>0, <1>1, <1>2, <1>4, <1>7 DEF HandlerPlace
    <3>2. HandlerShell(f)'
      BY <1>3, <1>4, <1>6 DEF HandlerShell
    <3>3. HandlerScripts(f)'
      BY <1>4 DEF HandlerScripts
    <3> QED
      BY <3>1, <3>2, <3>3 DEF HandlerFits
  <2>3. \A e, g \in nodeExecs' : e.id = g.id => e = g
    BY <1>2, <1>4, <2>1 DEF CommandsIInv, Handlers
  <2> QED
    BY <1>2, <2>1, <2>2, <2>3 DEF Handlers
<1>12. RowFits'
  <2>1. node.by # 0 => shells'[node.by] = shells[node.by] /\ node.by \in DOMAIN shells
    BY <1>0, <1>7
  <2>2. \A codes : C!Succeeds(codes)' = C!Succeeds(codes)
    BY <1>2 DEF C!Succeeds
  <2>3. node.by \in {0} \cup DOMAIN shells'
    BY <1>0, <1>7
  <2> QED
    BY <1>2, <2>1, <2>2, <2>3 DEF CommandsIInv, RowFits
<1>13. OneAtWork'
  <2> SUFFICES ASSUME Calm'
               PROVE  /\ \A g, h \in nodeExecs' : g = h
                      /\ \A id \in DOMAIN shells' : shells'[id].open =>
                           \E g \in nodeExecs' : g.id = id /\ g.at = "running"
    BY DEF OneAtWork
  <2>1. nodeExecs = {} /\ Calm
    BY <1>2 DEF Calm
  <2>2. \A id \in DOMAIN shells : ~shells[id].open
    BY <2>1 DEF CommandsIInv, OneAtWork
  <2> QED
    BY <1>2, <1>3, <1>6, <1>7, <2>1, <2>2
<1>14. RevsVerified'
  <2>1. \A i \in DOMAIN s.revs : s.revs[i] = 1
    BY <1>3
  <2> QED
    BY <1>2, <1>6, <1>7, <2>1 DEF CommandsIInv, RevsVerified
<1>15. Downloads'
  BY <1>2, <1>7, DownloadsKept
<1> QED
  BY <1>9, <1>10, <1>11, <1>12, <1>13, <1>14, <1>15 DEF CommandsIInv

LEMMA EditScriptKept ==
  ASSUME CommandsIInv, NEW i \in C!Commands, C!EditScript(i)
  PROVE  CommandsIInv'
<1>0. scripts \in [C!Commands -> Nat] /\ \A e \in nodeExecs : IsHandler(e) /\ HandlerFits(e)
  BY CommandsIs
<1>1. /\ scripts' = [scripts EXCEPT ![i] = 2]
      /\ nodeExcused' = IF \E e \in nodeExecs : Len(e.seen) >= i
                          THEN nodeExcused \cup {"script"} ELSE nodeExcused
      /\ UNCHANGED <<nodeKind, node, nodeExecs, shells, preps, output, artifact, downloads>>
  BY DEF C!EditScript
<1>2. scripts' \in [C!Commands -> Nat] /\ \A k \in C!Commands : k # i => scripts'[k] = scripts[k]
  BY <1>0, <1>1
<1>3. CommandsTyped'
  BY <1>1, <1>2 DEF CommandsIInv, CommandsTyped, C!Commands
<1>4. ShellsFit'
  BY <1>1 DEF CommandsIInv, ShellsFit
<1>5. Handlers'
  <2>1. ASSUME NEW e \in nodeExecs PROVE HandlerFits(e)'
    <3>1. HandlerFits(e) /\ e.seen \in Seq(Nat)
      BY <1>0 DEF IsHandler
    <3>2. HandlerPlace(e)' /\ HandlerShell(e)'
      BY <1>1, <3>1 DEF HandlerFits, HandlerPlace, HandlerShell
    <3>3. HandlerScripts(e)'
      <4>1. nodeKind = "market" /\ e.at = "running" => C!Published(e.seen)
        BY <3>1 DEF HandlerFits, HandlerScripts
      <4>2. ASSUME "script" \notin nodeExcused', NEW k \in 1..Len(e.seen)
            PROVE  k \in C!Commands /\ e.seen[k] = scripts'[k]
        <5>1. "script" \notin nodeExcused /\ ~(Len(e.seen) >= i)
          BY <1>1, <4>2
        <5>2. k \in C!Commands /\ e.seen[k] = scripts[k]
          BY <3>1, <4>2, <5>1 DEF HandlerFits, HandlerScripts
        <5>3. k # i
          BY <3>1, <4>2, <5>1
        <5> QED
          BY <1>2, <5>2, <5>3
      <4> QED
        BY <1>1, <4>1, <4>2 DEF HandlerScripts, C!Commands, C!Published
    <3> QED
      BY <3>2, <3>3 DEF HandlerFits
  <2> QED
    BY <1>1, <2>1 DEF CommandsIInv, Handlers
<1>6. RowFits'
  <2>1. \A codes : C!Succeeds(codes)' = C!Succeeds(codes)
    BY <1>1 DEF C!Succeeds
  <2> QED
    BY <1>1, <2>1 DEF CommandsIInv, RowFits
<1>7. OneAtWork'
  BY <1>1 DEF CommandsIInv, OneAtWork, Calm
<1>8. RevsVerified'
  BY <1>1 DEF CommandsIInv, RevsVerified
<1>9. Downloads'
  BY <1>1, DownloadsKept
<1> QED
  BY <1>3, <1>4, <1>5, <1>6, <1>7, <1>8, <1>9 DEF CommandsIInv

\* A request or a completion moves the row on.
LEMMA NodeRowMoves ==
  ASSUME CommandsIInv, NEW s \in {"running", "succeeded", "cancelled"}, NEW ds,
         node' = NodeOf(s, node.version + 1, node.by, node.results),
         s = "running" => node.status = "failed", s = "succeeded" => node.status = "waiting",
         downloads' = downloads \ ds, artifact' \in [file : Nat, row : Nat],
         artifact'.file = artifact.file,
         nodeKind = "merge" /\ s = "succeeded" =>
           artifact'.row = artifact.file /\ artifact.file >= shells[node.by].prep,
         UNCHANGED <<nodeKind, nodeExecs, shells, scripts, preps, output, nodeExcused>>
  PROVE  CommandsIInv'
<1>0. /\ IsNode(node) /\ node.version \in Nat
      /\ \A e \in nodeExecs : IsHandler(e) /\ HandlerFits(e)
      /\ \A c \in downloads : IsDownload(c) /\ DownloadFits(c)
  BY CommandsIs
<1>1. /\ node'.status = s /\ node'.version = node.version + 1 /\ node'.by = node.by
      /\ node'.results = node.results
  BY NodeFields
<1>2. IsNode(node')
  BY <1>0, <1>1 DEF IsNode
<1>3. CommandsTyped'
  BY <1>2 DEF CommandsIInv, CommandsTyped
<1>4. ShellsFit' /\ RevsVerified' /\ OneAtWork'
  BY DEF CommandsIInv, ShellsFit, RevsVerified, OneAtWork, Calm
<1>5. Handlers'
  <2>1. ASSUME NEW e \in nodeExecs PROVE HandlerFits(e)'
    <3>1. HandlerFits(e) /\ e.version \in Nat
      BY <1>0 DEF IsHandler
    <3>2. HandlerPlace(e)'
      BY <1>0, <1>1, <3>1 DEF HandlerFits, HandlerPlace
    <3>3. HandlerShell(e)' /\ HandlerScripts(e)'
      BY <3>1 DEF HandlerFits, HandlerShell, HandlerScripts
    <3> QED
      BY <3>2, <3>3 DEF HandlerFits
  <2> QED
    BY <2>1 DEF CommandsIInv, Handlers
<1>6. RowFits'
  <2>1. \A codes : C!Succeeds(codes)' = C!Succeeds(codes)
    BY DEF C!Succeeds
  <2> QED
    BY <1>1, <2>1 DEF CommandsIInv, RowFits
<1>7. Downloads'
  <2>1. ASSUME NEW c \in downloads PROVE DownloadFits(c)'
    <3>1. DownloadFits(c) /\ c.version \in Nat
      BY <1>0 DEF IsDownload
    <3> QED
      BY <1>0, <1>1, <3>1 DEF DownloadFits
  <2>2. C!CaptureIsItsOwn'
    BY <1>1 DEF C!CaptureIsItsOwn
  <2> QED
    BY <2>1, <2>2 DEF Downloads
<1> QED
  BY <1>3, <1>4, <1>5, <1>6, <1>7 DEF CommandsIInv

LEMMA RequestsKept ==
  ASSUME CommandsIInv, C!Retry \/ C!Cancel \/ C!Complete
  PROVE  CommandsIInv'
<1>0. IsNode(node) /\ artifact \in [file : Nat, row : Nat]
  BY CommandsIs
<1>1. PICK s \in {"running", "succeeded", "cancelled"} :
        /\ node' = HasStatus(node, s, node.version + 1)
        /\ s = "running" => node.status = "failed"
        /\ s = "succeeded" => node.status = "waiting" /\ nodeKind # "merge"
        /\ UNCHANGED <<nodeKind, nodeExecs, shells, scripts, preps, output, artifact, downloads,
                       nodeExcused>>
  BY Zenon DEF C!Retry, C!Cancel, C!Complete, HasStatus
<1>2. node' = NodeOf(s, node.version + 1, node.by, node.results)
  BY <1>0, <1>1, HasStatusIs
<1>3. downloads' = downloads \ {}
  BY <1>1
<1> QED
  BY <1>0, <1>1, <1>2, <1>3, NodeRowMoves

LEMMA SavedKept ==
  ASSUME CommandsIInv, NEW e \in nodeExecs, e.at # "running", NEW ok \in BOOLEAN, NEW results,
         C!Saved(e, ok, results),
         ok => Ran(shells[e.id]) /\ C!Succeeds(shells[e.id].codes),
         \/ results = <<>>
         \/ Ran(shells[e.id]) /\ results = C!Recorded(shells[e.id].codes)
  PROVE  CommandsIInv'
<1>0. /\ IsNode(node) /\ node.version \in Nat
      /\ \A g \in nodeExecs : IsHandler(g) /\ HandlerFits(g)
      /\ \A c \in downloads : DownloadFits(c)
  BY CommandsIs
<1>1. /\ nodeExecs' = nodeExecs \ {e}
      /\ UNCHANGED <<nodeKind, shells, scripts, preps, output, artifact, downloads, nodeExcused>>
  BY DEF C!Saved
<1>a. e.id \in DOMAIN shells /\ e.id \in Nat /\ (e.version = node.version => node.status = "running")
  BY <1>0 DEF HandlerFits, HandlerPlace, IsHandler
<1>2. PICK s, r : /\ s = IF ok THEN "waiting" ELSE "failed"
                  /\ r = IF nodeKind = "rem" \/ (nodeKind = "market" /\ ok)
                           THEN results ELSE node.results
  OBVIOUS
<1>3. CASE e.version # node.version
  <2>1. node' = node
    BY <1>3 DEF C!Saved, C!Fresh
  <2>2. CommandsTyped' /\ ShellsFit' /\ RevsVerified'
    BY <1>1, <2>1 DEF CommandsIInv, CommandsTyped, ShellsFit, RevsVerified
  <2>3. Handlers'
    BY <1>1, <2>1 DEF CommandsIInv, Handlers, HandlerFits, HandlerPlace, HandlerShell,
       HandlerScripts, C!Published, C!Commands
  <2>4. \A codes : C!Succeeds(codes)' = C!Succeeds(codes)
    BY <1>1 DEF C!Succeeds
  <2>5. RowFits'
    BY <1>1, <2>1, <2>4 DEF CommandsIInv, RowFits
  <2>6. OneAtWork'
    BY <1>1 DEF CommandsIInv, OneAtWork, Calm
  <2>7. Downloads'
    BY <1>1, <2>1, DownloadsKept
  <2> QED
    BY <2>2, <2>3, <2>5, <2>6, <2>7 DEF CommandsIInv
<1>4. CASE e.version = node.version
  <2>1. node' = NodeOf(s, node.version + 1, e.id, r)
    BY <1>2, <1>4 DEF C!Saved, C!Fresh, NodeOf
  <2>2. node'.status = s /\ node'.version = node.version + 1 /\ node'.by = e.id /\ node'.results = r
    BY <2>1, NodeFields
  <2>3. IsNode(node')
    BY <1>0, <1>a, <2>1, <2>2 DEF IsNode
  <2>4. CommandsTyped' /\ ShellsFit' /\ RevsVerified'
    BY <1>1, <2>3 DEF CommandsIInv, CommandsTyped, ShellsFit, RevsVerified
  <2>5. Handlers'
    <3>1. ASSUME NEW g \in nodeExecs, g # e PROVE HandlerFits(g)'
      <4>1. HandlerFits(g) /\ g.version \in Nat /\ g.id # e.id
        BY <1>0, <3>1 DEF IsHandler, CommandsIInv, Handlers
      <4>2. HandlerPlace(g)'
        BY <1>0, <1>1, <2>2, <4>1 DEF HandlerFits, HandlerPlace
      <4>3. HandlerShell(g)' /\ HandlerScripts(g)'
        BY <1>1, <4>1 DEF HandlerFits, HandlerShell, HandlerScripts
      <4> QED
        BY <4>2, <4>3 DEF HandlerFits
    <3> QED
      BY <1>1, <3>1 DEF CommandsIInv, Handlers
  <2>6. RowFits'
    <3>1. \A codes : C!Succeeds(codes)' = C!Succeeds(codes)
      BY <1>1 DEF C!Succeeds
    <3>2. s \in {"waiting", "succeeded"} => Ran(shells[e.id]) /\ C!Succeeds(shells[e.id].codes)
      BY <1>2
    <3>3. nodeKind = "rem" =>
            r = <<>> \/ (~shells[e.id].open /\ r = C!Recorded(shells[e.id].codes))
      BY <1>2 DEF Ran
    <3>4. e.id # 0
      BY <1>a, CommandsIs
    <3> QED
      BY <1>1, <1>a, <2>2, <3>1, <3>2, <3>3, <3>4 DEF RowFits
  <2>7. OneAtWork'
    BY <1>1 DEF CommandsIInv, OneAtWork, Calm
  <2>8. Downloads'
    <3>1. downloads = {}
      BY <1>0, <1>4, <1>a DEF DownloadFits
    <3>2. node'.status # "succeeded"
      BY <1>2, <2>2
    <3> QED
      BY <1>1, <3>1, <3>2 DEF Downloads, C!CaptureIsItsOwn
  <2> QED
    BY <2>4, <2>5, <2>6, <2>7, <2>8 DEF CommandsIInv
<1> QED
  BY <1>3, <1>4

LEMMA SavesKept ==
  ASSUME CommandsIInv, NEW e \in nodeExecs, C!SaveReturned(e) \/ C!SaveRaised(e)
  PROVE  CommandsIInv'
<1>0. HandlerFits(e)
  BY CommandsIs
<1>1. CASE C!SaveReturned(e)
  <2>1. PICK ok, results : ok = C!Succeeds(shells[e.id].codes)
                           /\ results = C!Recorded(shells[e.id].codes)
    OBVIOUS
  <2>2. C!Saved(e, ok, results) /\ e.at = "returned"
    BY <1>1, <2>1, Zenon DEF C!SaveReturned
  <2>3. Ran(shells[e.id])
    BY <1>0, <2>2 DEF HandlerFits, HandlerShell
  <2>4. ok \in BOOLEAN
    BY <2>1 DEF C!Succeeds
  <2>5. ok => C!Succeeds(shells[e.id].codes)
    BY <2>1, Zenon
  <2> QED
    BY <2>1, <2>2, <2>3, <2>4, <2>5, SavedKept
<1>2. CASE C!SaveRaised(e)
  BY <1>2, SavedKept DEF C!SaveRaised
<1> QED
  BY <1>1, <1>2

LEMMA ConvertKept == ASSUME CommandsIInv, C!Convert PROVE CommandsIInv'
<1>1. /\ output' = preps
      /\ UNCHANGED <<nodeKind, node, nodeExecs, shells, scripts, preps, artifact, downloads,
                     nodeExcused>>
  BY DEF C!Convert
<1>2. CommandsTyped' /\ ShellsFit' /\ RevsVerified' /\ OneAtWork'
  BY <1>1 DEF CommandsIInv, CommandsTyped, ShellsFit, RevsVerified, OneAtWork, Calm, C!Commands
<1>3. Handlers'
  BY <1>1 DEF CommandsIInv, Handlers, HandlerFits, HandlerPlace, HandlerShell, HandlerScripts,
     C!Published, C!Commands
<1>4. \A codes : C!Succeeds(codes)' = C!Succeeds(codes)
  BY <1>1 DEF C!Succeeds
<1>5. RowFits'
  BY <1>1, <1>4 DEF CommandsIInv, RowFits
<1>6. Downloads'
  BY <1>1, DownloadsKept
<1> QED
  BY <1>2, <1>3, <1>5, <1>6 DEF CommandsIInv

\* A completion's steps leave the row and the executions alone until it is registered.
LEMMA CompletionGoes ==
  ASSUME CommandsIInv, \A c \in downloads' : IsDownload(c), artifact' \in [file : Nat, row : Nat],
         Downloads', "script" \in nodeExcused' <=> "script" \in nodeExcused, Calm' => Calm,
         UNCHANGED <<nodeKind, node, nodeExecs, shells, scripts, preps, output>>
  PROVE  CommandsIInv'
<1>1. CommandsTyped' /\ ShellsFit' /\ RevsVerified' /\ OneAtWork'
  BY DEF CommandsIInv, CommandsTyped, ShellsFit, RevsVerified, OneAtWork, C!Commands
<1>2. Handlers'
  BY DEF CommandsIInv, Handlers, HandlerFits, HandlerPlace, HandlerShell, HandlerScripts,
     C!Published, C!Commands
<1>3. \A codes : C!Succeeds(codes)' = C!Succeeds(codes)
  BY DEF C!Succeeds
<1>4. RowFits'
  BY <1>3 DEF CommandsIInv, RowFits
<1> QED
  BY <1>1, <1>2, <1>4 DEF CommandsIInv

LEMMA DownloadKept ==
  ASSUME CommandsIInv, NEW r \in Completions, C!Download(r)
  PROVE  CommandsIInv'
<1>0. /\ node.version \in Nat /\ preps \in Nat /\ output \in {0, preps}
      /\ node.by \in {0} \cup DOMAIN shells
      /\ \A c \in downloads : IsDownload(c) /\ DownloadFits(c)
      /\ artifact \in [file : Nat, row : Nat]
  BY CommandsIs
<1>1. PICK v, g : v = node.version /\ g = output
  OBVIOUS
<1> DEFINE no == FALSE  d == DownloadOf(r, v, g, no)
<1>2. /\ downloads' = downloads \cup {d}
      /\ nodeKind = "merge" /\ node.status = "waiting" /\ output # 0
      /\ UNCHANGED <<nodeKind, node, nodeExecs, shells, scripts, preps, output, artifact,
                     nodeExcused>>
  BY <1>1 DEF C!Download, DownloadOf
<1>3. d.id = r /\ d.version = v /\ d.got = g /\ d.replaced = no
  BY DEF DownloadOf
<1> HIDE DEF d
<1>4. IsDownload(d)
  <2>1. d = DownloadOf(d.id, d.version, d.got, d.replaced)
    BY <1>3 DEF d
  <2>2. d.replaced \in BOOLEAN
    BY <1>3, Zenon
  <2>3. d.version \in Nat /\ d.got \in Nat
    BY <1>0, <1>1, <1>3
  <2> QED
    BY <2>1, <2>2, <2>3, Zenon DEF IsDownload
<1>5. node.by # 0 /\ node.by \in DOMAIN shells
  BY <1>0, <1>2 DEF CommandsIInv, RowFits
<1>6. g >= shells[node.by].prep
  BY <1>0, <1>1, <1>2, <1>5 DEF CommandsIInv, ShellsFit
<1>7. DownloadFits(d)'
  BY <1>0, <1>1, <1>2, <1>3, <1>5, <1>6 DEF DownloadFits
<1>8. \A c \in downloads : DownloadFits(c)'
  BY <1>0, <1>2 DEF DownloadFits
<1>9. C!CaptureIsItsOwn'
  BY <1>2 DEF CommandsIInv, Downloads, C!CaptureIsItsOwn
<1>10. Downloads'
  BY <1>2, <1>7, <1>8, <1>9 DEF Downloads
<1>11. \A c \in downloads' : IsDownload(c)
  BY <1>0, <1>2, <1>4
<1>12. Calm' => Calm
  BY <1>2 DEF Calm
<1> QED
  BY <1>0, <1>2, <1>10, <1>11, <1>12, CompletionGoes

LEMMA ReplaceFileKept ==
  ASSUME CommandsIInv, NEW c \in downloads, C!ReplaceFile(c)
  PROVE  CommandsIInv'
<1>0. /\ \A d \in downloads : IsDownload(d) /\ DownloadFits(d)
      /\ artifact \in [file : Nat, row : Nat]
  BY CommandsIs
<1> DEFINE yes == TRUE  d == DownloadOf(c.id, c.version, c.got, yes)
<1>m. /\ downloads' = (downloads \ {c}) \cup {[c EXCEPT !.replaced = TRUE]}
      /\ artifact' = [artifact EXCEPT !.file = c.got]
  BY Zenon DEF C!ReplaceFile
<1>1. /\ nodeExcused' = IF node.status = "waiting" THEN nodeExcused
                          ELSE nodeExcused \cup {"late file"}
      /\ UNCHANGED <<nodeKind, node, nodeExecs, shells, scripts, preps, output>>
  BY DEF C!ReplaceFile
<1>2. downloads' = (downloads \ {c}) \cup {d}
  BY <1>m, <1>0, DownloadReplaced, Zenon
<1>3. d.id = c.id /\ d.version = c.version /\ d.got = c.got /\ d.replaced = yes
  BY DEF DownloadOf
<1>4. c.version \in Nat /\ c.got \in Nat
  BY <1>0 DEF IsDownload
<1>5. artifact' \in [file : Nat, row : Nat] /\ artifact'.file = c.got /\ artifact'.row = artifact.row
  <2>1. PICK g : g = c.got
    OBVIOUS
  <2>2. artifact' = [artifact EXCEPT !.file = g] /\ g \in Nat
    BY <1>m, <1>4, <2>1, Zenon
  <2> QED
    BY <1>0, <2>1, <2>2
<1>6. IsDownload(d)
  BY <1>3, <1>4 DEF IsDownload
<1> HIDE DEF d
<1>7. \A k \in downloads' : IsDownload(k) /\ DownloadFits(k)'
  <2>1. DownloadFits(c)
    BY <1>0
  <2>2. c.got >= shells[node.by].prep /\ nodeKind = "merge" /\ node.by # 0
    BY <2>1 DEF DownloadFits
  <2>3. DownloadFits(d)'
    BY <1>1, <1>3, <1>5, <2>1, <2>2 DEF DownloadFits
  <2>4. ASSUME NEW k \in downloads PROVE DownloadFits(k)'
    BY <1>0, <1>1, <1>5, <2>2 DEF DownloadFits
  <2> QED
    BY <1>0, <1>2, <1>6, <2>3, <2>4
<1>8. C!CaptureIsItsOwn'
  <2>1. "late file" \notin nodeExcused' => node.status = "waiting"
    BY <1>1
  <2> QED
    BY <1>1, <1>5, <2>1 DEF CommandsIInv, Downloads, C!CaptureIsItsOwn
<1>9. Downloads'
  BY <1>7, <1>8 DEF Downloads
<1>10. ("script" \in nodeExcused' <=> "script" \in nodeExcused) /\ (Calm' => Calm)
  BY <1>1 DEF Calm
<1> QED
  BY <1>1, <1>5, <1>7, <1>9, <1>10, CompletionGoes

LEMMA RegisterKept ==
  ASSUME CommandsIInv, NEW c \in downloads, C!Register(c) \/ C!CompletionFails(c)
  PROVE  CommandsIInv'
<1>0. /\ IsNode(node) /\ IsDownload(c) /\ DownloadFits(c)
      /\ artifact \in [file : Nat, row : Nat] /\ \A d \in downloads : IsDownload(d)
  BY CommandsIs
<1>1. /\ downloads' = downloads \ {c}
      /\ UNCHANGED <<nodeKind, nodeExecs, shells, scripts, preps, output, nodeExcused>>
  BY DEF C!Register, C!CompletionFails
<1>2. CASE C!Register(c) /\ c.version = node.version
  <2>1. c.replaced /\ node.status = "waiting" /\ artifact.file >= shells[node.by].prep
    BY <1>0, <1>2 DEF C!Register, DownloadFits
  <2>2. node' = HasStatus(node, "succeeded", node.version + 1)
        /\ artifact' = [artifact EXCEPT !.row = artifact.file]
    BY <1>2, Zenon DEF C!Register, C!Fresh, HasStatus
  <2>3. node' = NodeOf("succeeded", node.version + 1, node.by, node.results)
    BY <1>0, <2>2, HasStatusIs
  <2>4. /\ artifact' \in [file : Nat, row : Nat]
        /\ artifact'.row = artifact.file /\ artifact'.file = artifact.file
    BY <1>0, <2>2
  <2>5. PICK s \in {"running", "succeeded", "cancelled"} : s = "succeeded"
    OBVIOUS
  <2> QED
    BY <1>1, <2>1, <2>3, <2>4, <2>5, NodeRowMoves
<1>3. CASE ~(C!Register(c) /\ c.version = node.version)
  <2>1. node' = node /\ artifact' = artifact
    BY <1>3 DEF C!Register, C!CompletionFails, C!Fresh
  <2>2. Downloads'
    <3>1. C!CaptureIsItsOwn'
      BY <1>1, <2>1 DEF CommandsIInv, Downloads, C!CaptureIsItsOwn
    <3>2. \A d \in downloads : DownloadFits(d)'
      BY <1>1, <2>1, CommandsIs DEF DownloadFits
    <3> QED
      BY <1>1, <3>1, <3>2 DEF Downloads
  <2>3. \A d \in downloads' : IsDownload(d)
    BY <1>0, <1>1
  <2>4. ("script" \in nodeExcused' <=> "script" \in nodeExcused) /\ (Calm' => Calm)
    BY <1>1 DEF Calm
  <2> QED
    BY <1>0, <1>1, <2>1, <2>2, <2>3, <2>4, CompletionGoes
<1> QED
  BY <1>2, <1>3

\* A dead process leaves the shells as they were, open or closed by their connection.
IsCut(s, o, t) ==
  /\ t \in Shells /\ Orderly(t) /\ t.codes = s.codes /\ t.revs = s.revs
  /\ t.prep = s.prep /\ t.open = o
LEMMA ShellCut ==
  ASSUME NEW s \in Shells, Orderly(s), NEW o \in BOOLEAN, o => s.open
  PROVE  IsCut(s, o, [s EXCEPT !.open = o])
<1> DEFINE c == s.codes  v == s.revs  q == s.open  p == s.prep
<1>1. s = ShellOf(c, v, q, p) /\ c \in Seq(Codes) /\ v \in Seq(Nat) /\ q \in BOOLEAN /\ p \in Nat
  BY ShellIs
<1>2. Len(c) <= N /\ (q => Len(c) < N) /\ \A i \in 1..Len(c) : i < Len(c) \/ q => c[i] = "ok"
  BY DEF Orderly
<1>3. o => q
  OBVIOUS
<1> HIDE DEF c, v, q, p
<1>4. [s EXCEPT !.open = o] = ShellOf(c, v, o, p)
  BY <1>1 DEF ShellOf
<1>5. PICK t : t = ShellOf(c, v, o, p)
  OBVIOUS
<1>6. t \in Shells /\ t.codes = c /\ t.revs = v /\ t.open = o /\ t.prep = p
  BY <1>1, <1>5, ShellFields
<1>7. Orderly(t)
  BY <1>2, <1>3, <1>6 DEF Orderly
<1> QED
  BY <1>4, <1>5, <1>6, <1>7, Zenon DEF c, v, p, IsCut

LEMMA CommandsCrashKept == ASSUME CommandsIInv, C!Crash PROVE CommandsIInv'
<1>1. /\ nodeExecs' = {} /\ downloads' = {} /\ nodeExcused' = nodeExcused \cup {"crash"}
      /\ UNCHANGED <<nodeKind, node, scripts, preps, output, artifact>>
  BY DEF C!Crash
<1>2. PICK kept \in SUBSET {id \in DOMAIN shells : shells[id].open /\ nodeKind # "market"} :
        shells' = [id \in DOMAIN shells |-> [shells[id] EXCEPT !.open = id \in kept]]
  BY DEF C!Crash
<1>3. shells \in Seq(Shells)
  BY DEF CommandsIInv, CommandsTyped
<1>4. ASSUME NEW id \in DOMAIN shells
      PROVE  /\ shells'[id] \in Shells /\ Orderly(shells'[id])
             /\ shells'[id].codes = shells[id].codes /\ shells'[id].revs = shells[id].revs
             /\ shells'[id].prep = shells[id].prep
             /\ shells'[id].open => shells[id].open
  <2>1. PICK s, o : s = shells[id] /\ o = (id \in kept)
    OBVIOUS
  <2>2. s \in Shells /\ Orderly(s)
    BY <1>3, <2>1, ShellAt DEF CommandsIInv, ShellsFit
  <2>a. id \in kept => shells[id].open
    OBVIOUS
  <2>b. o \in BOOLEAN
    BY <2>1
  <2>c. o => s.open
    BY <2>1, <2>a, Zenon
  <2>3. o \in BOOLEAN /\ (o => s.open)
    BY <2>b, <2>c
  <2>4. shells'[id] = [s EXCEPT !.open = o]
    BY <1>2, <2>1, Zenon
  <2>5. IsCut(s, o, shells'[id])
    BY <2>2, <2>3, <2>4, ShellCut, Zenon
  <2> QED
    BY <2>1, <2>3, <2>5 DEF IsCut
<1>5. DOMAIN shells' = DOMAIN shells
  BY <1>2, Zenon
<1>6. shells' \in Seq(Shells)
  <2>1. DOMAIN shells = 1..Len(shells) /\ Len(shells) \in Nat
    BY <1>3
  <2>2. PICK zz : zz = shells'
    OBVIOUS
  <2>3. zz = [i \in 1..Len(shells) |-> zz[i]]
    BY <1>2, <2>1, <2>2, Zenon
  <2>4. \A i \in 1..Len(shells) : zz[i] \in Shells
    BY <1>4, <2>1, <2>2
  <2>5. zz \in [1..Len(shells) -> Shells]
    BY <2>3, <2>4
  <2>6. zz \in Seq(Shells)
    BY <2>1, <2>5, IsASeq
  <2> QED
    BY <2>2, <2>6
<1>7. CommandsTyped'
  BY <1>1, <1>6 DEF CommandsIInv, CommandsTyped
<1>8. ShellsFit'
  BY <1>1, <1>4, <1>5 DEF CommandsIInv, ShellsFit
<1>9. Handlers' /\ OneAtWork'
  BY <1>1 DEF Handlers, OneAtWork, Calm
<1>10. RowFits'
  <2>1. \A codes : C!Succeeds(codes)' = C!Succeeds(codes)
    BY <1>1 DEF C!Succeeds
  <2>2. node.by # 0 => node.by \in DOMAIN shells
    BY DEF CommandsIInv, RowFits
  <2>3. node.by # 0 => /\ shells'[node.by].codes = shells[node.by].codes
                       /\ shells'[node.by].open => shells[node.by].open
    BY <1>4, <2>2
  <2> QED
    BY <1>1, <1>5, <2>1, <2>3 DEF CommandsIInv, RowFits, Ran
<1>11. RevsVerified'
  BY <1>1, <1>4, <1>5 DEF CommandsIInv, RevsVerified
<1>12. Downloads'
  <2>1. node.by # 0 => shells'[node.by].prep = shells[node.by].prep
    BY <1>4 DEF CommandsIInv, RowFits
  <2>2. nodeKind = "merge" /\ node.status = "succeeded" => node.by # 0
    BY DEF CommandsIInv, RowFits
  <2> QED
    BY <1>1, <2>1, <2>2 DEF CommandsIInv, Downloads, C!CaptureIsItsOwn
<1> QED
  BY <1>7, <1>8, <1>9, <1>10, <1>11, <1>12 DEF CommandsIInv

LEMMA CommandsStay == ASSUME CommandsIInv, UNCHANGED commandVars PROVE CommandsIInv'
<1>1. UNCHANGED <<nodeKind, node, nodeExecs, shells, scripts, preps, output, artifact, downloads,
                  nodeExcused>>
  BY DEF commandVars
<1>2. CommandsTyped' /\ ShellsFit' /\ RevsVerified'
  BY <1>1 DEF CommandsIInv, CommandsTyped, ShellsFit, RevsVerified
<1>3. Handlers'
  BY <1>1 DEF CommandsIInv, Handlers, HandlerFits, HandlerPlace, HandlerShell, HandlerScripts,
              C!Published, C!Commands
<1>4. RowFits'
  <2>1. \A codes : C!Succeeds(codes)' = C!Succeeds(codes)
    BY <1>1 DEF C!Succeeds
  <2> QED
    BY <1>1, <2>1 DEF CommandsIInv, RowFits
<1>5. OneAtWork'
  BY <1>1 DEF CommandsIInv, OneAtWork, Calm
<1>6. Downloads'
  BY <1>1, DownloadsKept
<1> QED
  BY <1>2, <1>3, <1>4, <1>5, <1>6 DEF CommandsIInv

\* Rows, handlers and shells keep fitting each other through every step of the node.
LEMMA CommandsKept == ASSUME CommandsIInv, [C!Next]_commandVars PROVE CommandsIInv'
<1>1. CASE UNCHANGED commandVars
  BY <1>1, CommandsStay
<1>2. CASE C!Begin
  BY <1>2, BeginCommandsKept
<1>3. CASE C!Retry \/ C!Cancel \/ C!Complete
  BY <1>3, RequestsKept
<1>4. CASE C!Convert
  BY <1>4, ConvertKept
<1>5. CASE C!Crash
  BY <1>5, CommandsCrashKept
<1>6. ASSUME NEW i \in C!Commands, C!EditScript(i) PROVE CommandsIInv'
  BY <1>6, EditScriptKept
<1>7. ASSUME NEW id \in DOMAIN shells, C!ShellRuns(id) PROVE CommandsIInv'
  BY <1>7, ShellRunsKept
<1>8. ASSUME NEW e \in nodeExecs, C!ReadScript(e) PROVE CommandsIInv'
  BY <1>8, ReadScriptKept
<1>9. ASSUME NEW e \in nodeExecs, C!ArchivePrevious(e) PROVE CommandsIInv'
  BY <1>9, ArchivePreviousKept
<1>10. ASSUME NEW e \in nodeExecs, C!OpenRem(e) \/ C!OpenSlnic(e) \/ C!OpenMarket(e)
       PROVE  CommandsIInv'
  BY <1>10, OpensKept
<1>11. ASSUME NEW e \in nodeExecs, C!MarketRuns(e) PROVE CommandsIInv'
  BY <1>11, MarketRunsKept
<1>12. ASSUME NEW e \in nodeExecs, C!Returns(e) PROVE CommandsIInv'
  BY <1>12, ReturnsKept
<1>13. ASSUME NEW e \in nodeExecs, C!Raises(e) PROVE CommandsIInv'
  BY <1>13, RaisesKept
<1>14. ASSUME NEW e \in nodeExecs, C!SaveReturned(e) \/ C!SaveRaised(e) PROVE CommandsIInv'
  BY <1>14, SavesKept
<1>15. ASSUME NEW r \in Completions, C!Download(r) PROVE CommandsIInv'
  BY <1>15, DownloadKept
<1>16. ASSUME NEW c \in downloads, C!ReplaceFile(c) PROVE CommandsIInv'
  BY <1>16, ReplaceFileKept
<1>17. ASSUME NEW c \in downloads, C!Register(c) \/ C!CompletionFails(c) PROVE CommandsIInv'
  BY <1>17, RegisterKept
<1> QED
  BY <1>1, <1>2, <1>3, <1>4, <1>5, <1>6, <1>7, <1>8, <1>9, <1>10, <1>11, <1>12, <1>13, <1>14,
     <1>15, <1>16, <1>17 DEF C!Next

LEMMA EndedRan == ASSUME CommandsIInv PROVE C!EndedRanAll
<1> SUFFICES ASSUME C!Ended
             PROVE  \/ shells[node.by].codes = [i \in C!Commands |-> "ok"]
                    \/ /\ nodeKind \in {"slnic", "merge"}
                       /\ shells[node.by].codes[Len(shells[node.by].codes)] = "left"
  BY DEF C!EndedRanAll
<1>1. PICK s : s = shells[node.by]
  OBVIOUS
<1>2. Ran(s) /\ C!Succeeds(s.codes) /\ Orderly(s) /\ s \in Shells
  <2>1. node.by \in DOMAIN shells /\ Ran(s) /\ C!Succeeds(s.codes)
    BY <1>1 DEF C!Ended, CommandsIInv, RowFits
  <2> QED
    BY <1>1, <2>1, ShellAt DEF CommandsIInv, CommandsTyped, ShellsFit
<1>3. PICK c : c = s.codes
  OBVIOUS
<1>4. c \in Seq(Codes)
  BY <1>2, <1>3, ShellIs
<1>5. CASE c[Len(c)] = "ok"
  <2>1. Len(c) = N /\ DOMAIN c = 1..Len(c) /\ c = [i \in DOMAIN c |-> c[i]]
    BY <1>2, <1>3, <1>4, <1>5 DEF Ran
  <2>2. \A i \in 1..N : c[i] = "ok"
    <3>1. \A i \in 1..N : i < N => c[i] = "ok"
      BY <1>2, <1>3, <2>1 DEF Orderly
    <3> QED
      BY <1>5, <2>1, <3>1, CommandsAssumption
  <2>3. c = [i \in 1..N |-> "ok"]
    BY <2>1, <2>2
  <2> QED
    BY <1>1, <1>3, <2>3 DEF C!Commands
<1>6. CASE c[Len(c)] # "ok"
  BY <1>1, <1>2, <1>3, <1>6 DEF C!Succeeds
<1> QED
  BY <1>5, <1>6

LEMMA ResultsTrue == ASSUME CommandsIInv PROVE C!ResultsAreItsOwn
<1> SUFFICES ASSUME nodeKind = "rem", node.by # 0, NEW i \in DOMAIN node.results
             PROVE  node.results[i] = 0 <=> shells[node.by].codes[i] = "ok"
  BY DEF C!ResultsAreItsOwn
<1>1. node.results # <<>>
  OBVIOUS
<1>2. node.results = C!Recorded(shells[node.by].codes)
  BY <1>1 DEF CommandsIInv, RowFits
<1> QED
  BY <1>2 DEF C!Recorded, C!ExitCode

\* The node's module brings its own copy of the library's Cardinality.
LEMMA SameCount == ASSUME NEW set PROVE C!Cardinality(set) = Cardinality(set)
BY Zenon DEF C!Cardinality, Cardinality

LEMMA ShellsTrue == ASSUME CommandsIInv PROVE C!ShellsAreVerified
<1>1. ASSUME Calm PROVE ~(Cardinality(C!OpenShells) > 1)
  <2>1. \A i, j \in C!OpenShells : i = j
    BY <1>1 DEF CommandsIInv, OneAtWork, C!OpenShells
  <2>2. CASE C!OpenShells = {}
    BY <2>2, FS_EmptySet
  <2>3. ASSUME NEW i \in C!OpenShells PROVE ~(Cardinality(C!OpenShells) > 1)
    <3>1. C!OpenShells = {i}
      BY <2>1
    <3>2. Cardinality({i}) = 1
      BY FS_Singleton
    <3> QED
      BY <3>1, <3>2
  <2> QED
    BY <2>2, <2>3
<1>2. "script" \notin nodeExcused =>
        \A id \in DOMAIN shells : \A i \in DOMAIN shells[id].revs : shells[id].revs[i] = 1
  BY DEF CommandsIInv, RevsVerified
<1>3. Cardinality(C!OpenShells) > 1 => nodeExcused \cap {"lost", "crash", "lapse"} # {}
  BY <1>1 DEF Calm
<1> QED
  BY <1>2, <1>3, SameCount DEF C!ShellsAreVerified

\* A step that waits or is completed ran all its commands with success in the execution
\* it names, REM's results are those of that execution, two shells are at work at once
\* only after a lapse, a loss or a crash, scripts run as they were verified, and the
\* capture of a merge was written after the preparation it completes (rem_execution.py,
\* market_execution.py, slnic_merge.py).
THEOREM CommandsRecorded == ExecutionSpec => []CommandsAsRecorded
<1>1. ExecutionInit => CommandsIInv
  BY CommandsStart DEF ExecutionInit
<1>2. CommandsIInv /\ [ExecutionNext]_executionVars => CommandsIInv'
  <2> SUFFICES ASSUME CommandsIInv, [ExecutionNext]_executionVars
               PROVE  CommandsIInv'
    OBVIOUS
  <2>1. [C!Next]_commandVars
    BY DEF ExecutionNext, RunTerminal, RunParser, RunStatistics, RunCommands, RunCaptures,
           executionVars
  <2> QED
    BY <2>1, CommandsKept
<1>3. CommandsIInv => CommandsAsRecorded
  <2> SUFFICES ASSUME CommandsIInv PROVE C!CommandsAsRecorded
    BY DEF CommandsAsRecorded
  <2>1. C!CaptureIsItsOwn
    BY DEF CommandsIInv, Downloads
  <2> QED
    BY <2>1, EndedRan, ResultsTrue, ShellsTrue DEF C!CommandsAsRecorded
<1> QED
  BY <1>1, <1>2, <1>3, PTL DEF ExecutionSpec

-----------------------------------------------------------------------------
(* The captures of a node: the snapshots of an execution are its own, one  *)
(* of each of its first targets, and finished but for the one it reads;    *)
(* the row names those of the execution that moved it, and a confirmation  *)
(* that may still save has seen the interfaces the step shows.             *)

Scopes == {"run", "preview"}
SnapOf(s, t, a, x, v) == [scope |-> s, target |-> t, attempt |-> a, status |-> x, rev |-> v]
Snaps == [scope : Scopes, target : {rem, order, Database}, attempt : Nat,
          status : {"running", "succeeded", "failed"}, rev : Nat]
CaptureOf(s, i, v, a, m) == [scope |-> s, id |-> i, version |-> v, at |-> a, mine |-> m]
IsCapture(e) ==
  /\ e = CaptureOf(e.scope, e.id, e.version, e.at, e.mine)
  /\ e.scope \in Scopes /\ e.version \in Nat /\ e.at \in Nat /\ e.mine \in Seq(Nat)
RunOf(c, w, v, b, k) ==
  [capture |-> c, wiring |-> w, version |-> v, by |-> b, confirmed |-> k]
IsRun(r) ==
  /\ r = RunOf(r.capture, r.wiring, r.version, r.by, r.confirmed)
  /\ r.version \in Nat /\ r.by \in Seq(Nat)

CapturesTyped ==
  /\ IsRun(run) /\ snaps \in Seq(Snaps) /\ interfaces \in Nat
  /\ \A e \in captures : IsCapture(e)
  /\ \A c \in confirming : c.version \in Nat /\ c.version <= run.version

\* The snapshots of an execution, in the order of its targets.
Mine(e) ==
  /\ Len(e.mine) <= Len(A!ToCapture)
  /\ \A i \in 1..Len(e.mine) :
       /\ e.mine[i] \in DOMAIN snaps
       /\ snaps[e.mine[i]].target = A!ToCapture[i] /\ snaps[e.mine[i]].scope = e.scope
Reading(e) ==
  /\ \A i \in 1..Len(e.mine) : snaps[e.mine[i]].status = "running" <=> e.mine[i] = e.at
  /\ e.at # 0 => \E i \in 1..Len(e.mine) : e.mine[i] = e.at
MayMove(e) ==
  e.scope = "run" =>
    e.version <= run.version /\ (e.version = run.version => run.capture = "running")
Apart(e, f) ==
  \A i \in 1..Len(e.mine) : \A j \in 1..Len(f.mine) : e.mine[i] # f.mine[j]
Working ==
  /\ \A e \in captures : Mine(e) /\ Reading(e) /\ MayMove(e)
  /\ \A e, f \in captures : e # f => Apart(e, f)

\* What a fresh confirmation will put down.
Confirms(c) ==
  c.version = run.version =>
    /\ A!Complete(c.seen) /\ (wiring = c.seen \/ wiring.by = "operator")
    /\ "crossed edit" \notin captureExcused => wiring = c.seen
\* A row that names snapshots and has not succeeded names some that failed.
RowNames ==
  /\ A!Named \subseteq DOMAIN snaps
  /\ run.capture # "succeeded" /\ run.by # <<>> =>
       \E i \in A!Named : snaps[i].status = "failed"
Confirming ==
  /\ \A c \in confirming : Confirms(c)
  /\ wiring.by = "capture" => run.capture = "succeeded"

Peers(ss, s, t) == {i \in DOMAIN ss : ss[i].scope = s /\ ss[i].target = t}
Numbered ==
  \A i \in DOMAIN snaps :
    snaps[i].attempt <= Cardinality(Peers(snaps, snaps[i].scope, snaps[i].target))

CapturesIInv ==
  /\ CapturesTyped /\ Working /\ RowNames /\ Confirming /\ Numbered /\ A!CapturesAsShown

Hosts == {rem, order, Database}
Ends == {"running", "succeeded", "failed"}

LEMMA SnapAt == ASSUME NEW ss \in Seq(Snaps), NEW i \in DOMAIN ss PROVE ss[i] \in Snaps
OBVIOUS

LEMMA SnapIs ==
  ASSUME NEW s \in Snaps
  PROVE  /\ s = SnapOf(s.scope, s.target, s.attempt, s.status, s.rev)
         /\ s.scope \in Scopes /\ s.target \in Hosts /\ s.attempt \in Nat /\ s.status \in Ends
         /\ s.rev \in Nat
BY DEF Snaps, SnapOf, Hosts, Ends

IsSnap(z, s, t, a, x, v) ==
  /\ z \in Snaps /\ z.scope = s /\ z.target = t /\ z.attempt = a /\ z.status = x /\ z.rev = v
LEMMA SnapFields ==
  ASSUME NEW s \in Scopes, NEW t \in Hosts, NEW a \in Nat, NEW x \in Ends, NEW v \in Nat
  PROVE  IsSnap(SnapOf(s, t, a, x, v), s, t, a, x, v)
BY DEF Snaps, SnapOf, Hosts, Ends, IsSnap

\* A snapshot whose reading ends.
ReadSnap(ss, i, x, v) == [ss EXCEPT ![i].status = x, ![i].rev = v]
Settled(ss, zz, i, x, v) ==
  /\ zz \in Seq(Snaps) /\ DOMAIN zz = DOMAIN ss
  /\ IsSnap(zz[i], ss[i].scope, ss[i].target, ss[i].attempt, x, v)
  /\ \A j \in DOMAIN ss : j # i => zz[j] = ss[j]

LEMMA SnapRewritten ==
  ASSUME NEW ss \in Seq(Snaps), NEW i \in DOMAIN ss, NEW sh \in Snaps
  PROVE  /\ [ss EXCEPT ![i] = sh] \in Seq(Snaps)
         /\ DOMAIN [ss EXCEPT ![i] = sh] = DOMAIN ss
         /\ [ss EXCEPT ![i] = sh][i] = sh
         /\ \A j \in DOMAIN ss : j # i => [ss EXCEPT ![i] = sh][j] = ss[j]
<1> DEFINE zz == [ss EXCEPT ![i] = sh]
<1>1. i \in 1..Len(ss) /\ DOMAIN ss = 1..Len(ss)
  OBVIOUS
<1>2. zz \in Seq(Snaps) /\ Len(zz) = Len(ss)
      /\ \A j \in 1..Len(ss) : zz[j] = IF j = i THEN sh ELSE ss[j]
  BY <1>1, ExceptSeq
<1> HIDE DEF zz
<1>3. DOMAIN zz = DOMAIN ss
  BY <1>1, <1>2
<1>4. zz \in Seq(Snaps) /\ DOMAIN zz = DOMAIN ss /\ zz[i] = sh
      /\ \A j \in DOMAIN ss : j # i => zz[j] = ss[j]
  BY <1>1, <1>2, <1>3
<1> QED
  BY <1>4 DEF zz

LEMMA ReadSnapIs ==
  ASSUME NEW ss \in Seq(Snaps), NEW i \in DOMAIN ss, NEW x \in Ends, NEW v \in Nat
  PROVE  Settled(ss, ReadSnap(ss, i, x, v), i, x, v)
<1>1. PICK s, t, a, y, w : /\ s = ss[i].scope /\ t = ss[i].target /\ a = ss[i].attempt
                           /\ y = ss[i].status /\ w = ss[i].rev
  OBVIOUS
<1>2. ss[i] = SnapOf(s, t, a, y, w) /\ s \in Scopes /\ t \in Hosts /\ a \in Nat /\ w \in Nat
      /\ y \in Ends
  BY <1>1, SnapAt, SnapIs
<1> DEFINE m == [ss EXCEPT ![i].status = x]  z == [m EXCEPT ![i].rev = v]
           mi == SnapOf(s, t, a, x, w)  zi == SnapOf(s, t, a, x, v)
<1>3. mi \in Snaps /\ zi \in Snaps
  BY <1>2, SnapFields DEF IsSnap
<1>4. [ss[i] EXCEPT !.status = x] = mi
  BY <1>2 DEF SnapOf
<1>5. m = [ss EXCEPT ![i] = mi]
  BY <1>4
<1>6. m \in Seq(Snaps) /\ DOMAIN m = DOMAIN ss /\ m[i] = mi
      /\ \A j \in DOMAIN ss : j # i => m[j] = ss[j]
  BY <1>3, <1>5, SnapRewritten
<1>7. [mi EXCEPT !.rev = v] = zi
  BY DEF SnapOf
<1> HIDE DEF m, mi, zi
<1>8. z = [m EXCEPT ![i] = zi]
  BY <1>6, <1>7
<1> DEFINE n == [m EXCEPT ![i] = zi]
<1>9. n \in Seq(Snaps) /\ DOMAIN n = DOMAIN ss /\ n[i] = zi
      /\ \A j \in DOMAIN ss : j # i => n[j] = ss[j]
  BY <1>3, <1>6, SnapRewritten
<1>10. IsSnap(zi, s, t, a, x, v)
  BY <1>2, SnapFields DEF zi
<1>11. ReadSnap(ss, i, x, v) = n
  BY <1>8, Zenon DEF ReadSnap, m
<1> HIDE DEF n
<1>12. Settled(ss, n, i, x, v)
  BY <1>1, <1>9, <1>10 DEF Settled
<1> QED
  BY <1>11, <1>12

\* Records of executions and of the run as the steps change them.
LEMMA CaptureFields ==
  ASSUME NEW s, NEW i, NEW v, NEW a, NEW m
  PROVE  LET e == CaptureOf(s, i, v, a, m)
         IN  e.scope = s /\ e.id = i /\ e.version = v /\ e.at = a /\ e.mine = m
BY DEF CaptureOf

Opened(e, a, m) == [e EXCEPT !.at = a, !.mine = m]
LEMMA CaptureMoves ==
  ASSUME NEW e, IsCapture(e)
  PROVE  /\ \A a : [e EXCEPT !.at = a] = CaptureOf(e.scope, e.id, e.version, a, e.mine)
         /\ \A a, m : Opened(e, a, m) = CaptureOf(e.scope, e.id, e.version, a, m)
<1> DEFINE s == e.scope  i == e.id  v == e.version  b == e.at  n == e.mine
<1>1. e = CaptureOf(s, i, v, b, n)
  BY DEF IsCapture
<1>0. \A a, m : Opened(e, a, m) = [[e EXCEPT !.at = a] EXCEPT !.mine = m]
  BY DEF Opened
<1> HIDE DEF s, i, v, b, n
<1>2. \A a : [e EXCEPT !.at = a] = CaptureOf(s, i, v, a, n)
  BY <1>1 DEF CaptureOf
<1>3. \A a, m : [CaptureOf(s, i, v, a, n) EXCEPT !.mine = m] = CaptureOf(s, i, v, a, m)
  BY DEF CaptureOf
<1>4. ASSUME NEW a, NEW m PROVE Opened(e, a, m) = CaptureOf(s, i, v, a, m)
  <2>1. Opened(e, a, m) = [[e EXCEPT !.at = a] EXCEPT !.mine = m]
    BY <1>0
  <2>2. [e EXCEPT !.at = a] = CaptureOf(s, i, v, a, n)
    BY <1>2
  <2>3. [CaptureOf(s, i, v, a, n) EXCEPT !.mine = m] = CaptureOf(s, i, v, a, m)
    BY <1>3
  <2> QED
    BY <2>1, <2>2, <2>3, Zenon
<1> QED
  BY <1>2, <1>4, Zenon DEF s, i, v, n

IsRunOf(r, c, w, v, b, k) ==
  r.capture = c /\ r.wiring = w /\ r.version = v /\ r.by = b /\ r.confirmed = k
LEMMA RunFields ==
  ASSUME NEW c, NEW w, NEW v \in Nat, NEW b \in Seq(Nat), NEW k
  PROVE  IsRun(RunOf(c, w, v, b, k)) /\ IsRunOf(RunOf(c, w, v, b, k), c, w, v, b, k)
BY DEF RunOf, IsRun, IsRunOf

HasMoved(r, c, w, v, b) ==
  [r EXCEPT !.capture = c, !.wiring = w, !.version = v, !.by = b]
HasConfirmed(r, w, v, k) == [r EXCEPT !.wiring = w, !.version = v, !.confirmed = k]
LEMMA RunMoves ==
  ASSUME NEW r, IsRun(r), NEW c, NEW w, NEW v, NEW b, NEW k
  PROVE  /\ HasMoved(r, c, w, v, b) = RunOf(c, w, v, b, r.confirmed)
         /\ HasConfirmed(r, w, v, k) = RunOf(r.capture, w, v, r.by, k)
<1> DEFINE c0 == r.capture  w0 == r.wiring  v0 == r.version  b0 == r.by  k0 == r.confirmed
<1>1. r = RunOf(c0, w0, v0, b0, k0)
  BY DEF IsRun
<1>2. HasMoved(r, c, w, v, b) =
        [[[[r EXCEPT !.capture = c] EXCEPT !.wiring = w] EXCEPT !.version = v] EXCEPT !.by = b]
  BY DEF HasMoved
<1>3. HasConfirmed(r, w, v, k) =
        [[[r EXCEPT !.wiring = w] EXCEPT !.version = v] EXCEPT !.confirmed = k]
  BY DEF HasConfirmed
<1> HIDE DEF c0, w0, v0, b0, k0
<1>4. [r EXCEPT !.capture = c] = RunOf(c, w0, v0, b0, k0)
  BY <1>1 DEF RunOf
<1>5. [RunOf(c, w0, v0, b0, k0) EXCEPT !.wiring = w] = RunOf(c, w, v0, b0, k0)
  BY DEF RunOf
<1>6. [RunOf(c, w, v0, b0, k0) EXCEPT !.version = v] = RunOf(c, w, v, b0, k0)
  BY DEF RunOf
<1>7. [RunOf(c, w, v, b0, k0) EXCEPT !.by = b] = RunOf(c, w, v, b, k0)
  BY DEF RunOf
<1>8. HasMoved(r, c, w, v, b) = RunOf(c, w, v, b, k0)
  BY <1>2, <1>4, <1>5, <1>6, <1>7, Zenon
<1>9. [r EXCEPT !.wiring = w] = RunOf(c0, w, v0, b0, k0)
  BY <1>1 DEF RunOf
<1>10. [RunOf(c0, w, v0, b0, k0) EXCEPT !.version = v] = RunOf(c0, w, v, b0, k0)
  BY DEF RunOf
<1>11. [RunOf(c0, w, v, b0, k0) EXCEPT !.confirmed = k] = RunOf(c0, w, v, b0, k)
  BY DEF RunOf
<1>12. HasConfirmed(r, w, v, k) = RunOf(c0, w, v, b0, k)
  BY <1>3, <1>9, <1>10, <1>11, Zenon
<1> QED
  BY <1>8, <1>12, Zenon DEF c0, b0, k0

LEMMA CapturesStart == A!Init => CapturesIInv
<1> SUFFICES ASSUME A!Init PROVE CapturesIInv
  OBVIOUS
<1>0. /\ run = RunOf("running", "pending", 1, <<>>, A!None) /\ wiring = A!None /\ snaps = <<>>
      /\ captures = {} /\ confirming = {} /\ interfaces = 1
  BY DEF A!Init, RunOf
<1>1. IsRun(run) /\ run.capture = "running" /\ run.wiring = "pending"
  <2>1. PICK k, b : k = A!None /\ b = <<>>
    OBVIOUS
  <2>2. b \in Seq(Nat) /\ 1 \in Nat
    BY <2>1
  <2>3. run = RunOf("running", "pending", 1, b, k)
    BY <1>0, <2>1, Zenon
  <2> QED
    BY <2>2, <2>3, RunFields DEF IsRunOf
<1>2. wiring.by = "nobody"
  BY <1>0 DEF A!None
<1>3. CapturesTyped /\ Working /\ RowNames /\ Confirming /\ Numbered
  <2>1. run.by = <<>> /\ A!Named = {}
    BY <1>0 DEF RunOf, A!Named
  <2> QED
    BY <1>0, <1>1, <1>2, <2>1 DEF CapturesTyped, Working, RowNames, Confirming, Numbered
<1>4. A!StepNamesItsOwn /\ A!WiringAsCaptured /\ A!SnapshotsSettle
  <2>0. run.by = <<>>
    BY <1>0 DEF RunOf
  <2>1. A!StepNamesItsOwn /\ A!WiringAsCaptured
    BY <1>1, <1>2, <2>0 DEF A!StepNamesItsOwn, A!WiringAsCaptured
  <2>2. A!SnapshotsSettle
    <3>1. DOMAIN snaps = {}
      BY <1>0
    <3> QED
      BY <3>1 DEF A!SnapshotsSettle
  <2> QED
    BY <2>1, <2>2
<1> QED
  BY <1>3, <1>4 DEF CapturesIInv, A!CapturesAsShown

LEMMA CapturesAre ==
  ASSUME CapturesIInv
  PROVE  /\ IsRun(run) /\ run.version \in Nat /\ run.by \in Seq(Nat)
         /\ snaps \in Seq(Snaps) /\ interfaces \in Nat
         /\ \A e \in captures : /\ IsCapture(e) /\ e.at \in Nat /\ e.version \in Nat
                                /\ e.mine \in Seq(Nat) /\ e.scope \in Scopes
                                /\ Mine(e) /\ Reading(e) /\ MayMove(e)
         /\ \A c \in confirming : c.version \in Nat /\ c.version <= run.version
BY DEF CapturesIInv, CapturesTyped, Working, IsRun, IsCapture

LEMMA NamedAre ==
  ASSUME CapturesIInv
  PROVE  /\ run.by = <<>> => A!Named = {}
         /\ \A i \in A!Named : /\ i \in DOMAIN snaps /\ snaps[i].status # "running"
                                /\ snaps[i].scope = "run"
<1>1. run.by = <<>> => A!Named = {}
  BY DEF A!Named
<1> QED
  BY <1>1 DEF CapturesIInv, RowNames, A!CapturesAsShown, A!StepNamesItsOwn

\* The row moves, or an execution that reads nothing goes: the snapshots stay.
LEMMA RowGoesOn ==
  ASSUME CapturesIInv, IsRun(run'), run'.version = run.version + 1, captures' \subseteq captures,
         \A e \in captures \ captures' : e.at = 0,
         UNCHANGED <<capture, interfaces, snaps>>, confirming' \subseteq confirming,
         captureExcused \subseteq captureExcused',
         wiring'.by = "capture" => run'.capture = "succeeded",
         A!StepNamesItsOwn', A!WiringAsCaptured', RowNames'
  PROVE  CapturesIInv'
<1>0. /\ run.version \in Nat /\ snaps \in Seq(Snaps) /\ interfaces \in Nat
      /\ \A e \in captures : /\ IsCapture(e) /\ e.version \in Nat
                             /\ Mine(e) /\ Reading(e) /\ MayMove(e)
      /\ \A c \in confirming : c.version \in Nat /\ c.version <= run.version
  BY CapturesAre
<1>1. CapturesTyped'
  <2>1. \A c \in confirming' : c.version \in Nat /\ c.version <= run'.version
    BY <1>0
  <2>2. IsRun(run') /\ snaps' \in Seq(Snaps) /\ interfaces' \in Nat
    BY <1>0
  <2>3. \A e \in captures' : IsCapture(e)
    BY <1>0
  <2> QED
    BY <2>1, <2>2, <2>3 DEF CapturesTyped
<1>2. Working'
  <2>1. ASSUME NEW e \in captures' PROVE Mine(e)' /\ Reading(e)' /\ MayMove(e)'
    <3>1. Mine(e) /\ Reading(e) /\ MayMove(e) /\ e.version \in Nat
      BY <1>0
    <3>2. Mine(e)'
      BY <3>1 DEF Mine, A!ToCapture
    <3>3. Reading(e)'
      BY <3>1 DEF Reading
    <3>4. MayMove(e)'
      BY <1>0, <3>1 DEF MayMove
    <3> QED
      BY <3>2, <3>3, <3>4
  <2>2. \A e, f \in captures' : e # f => Apart(e, f)
    BY DEF CapturesIInv, Working
  <2> QED
    BY <2>1, <2>2 DEF Working, Apart
<1>3. Confirming'
  <2>1. ASSUME NEW c \in confirming' PROVE c.version # run'.version
    BY <1>0
  <2> QED
    BY <2>1 DEF Confirming, Confirms
<1>4. Numbered'
  BY DEF CapturesIInv, Numbered
<1>5. A!SnapshotsSettle'
  <2>1. A!SnapshotsSettle /\ \A i \in DOMAIN snaps : i # 0
    BY <1>0 DEF CapturesIInv, A!CapturesAsShown
  <2> QED
    BY <2>1 DEF A!SnapshotsSettle
<1> QED
  BY <1>1, <1>2, <1>3, <1>4, <1>5 DEF CapturesIInv, A!CapturesAsShown

\* An execution goes without a trace, but for the snapshot it was reading.
LEMMA CaptureLeaves ==
  ASSUME CapturesIInv, NEW e \in captures, captures' = captures \ {e},
         UNCHANGED <<capture, interfaces, run, wiring, snaps, confirming>>,
         captureExcused \subseteq captureExcused', e.at = 0 \/ "refused" \in captureExcused'
  PROVE  CapturesIInv'
<1>1. CapturesTyped' /\ Numbered'
  BY DEF CapturesIInv, CapturesTyped, Numbered
<1>2. Working'
  BY DEF CapturesIInv, Working, Mine, Reading, MayMove, Apart, A!ToCapture
<1>3. Confirming' /\ RowNames'
  BY DEF CapturesIInv, Confirming, Confirms, A!Complete, RowNames, A!Named
<1>4. A!StepNamesItsOwn' /\ A!WiringAsCaptured'
  BY DEF CapturesIInv, A!CapturesAsShown, A!StepNamesItsOwn, A!WiringAsCaptured, A!Named,
         A!ToCapture
<1>5. A!SnapshotsSettle'
  <2>1. A!SnapshotsSettle /\ \A i \in DOMAIN snaps : i # 0
    BY CapturesAre DEF CapturesIInv, A!CapturesAsShown
  <2> QED
    BY <2>1 DEF A!SnapshotsSettle
<1> QED
  BY <1>1, <1>2, <1>3, <1>4, <1>5 DEF CapturesIInv, A!CapturesAsShown

\* The interfaces an execution of the server's node finds are of a snapshot it names.
LEMMA FoundIs ==
  ASSUME CapturesIInv, NEW e \in captures, capture = "server", A!Done(e)
  PROVE  \E i \in 1..Len(e.mine) : /\ snaps[e.mine[i]].target = rem
                                   /\ snaps[e.mine[i]].rev = A!Found(e)
<1> DEFINE rems == {i \in DOMAIN e.mine : snaps[e.mine[i]].target = rem}
<1>1. Mine(e) /\ e.mine \in Seq(Nat)
  BY CapturesAre
<1>2. A!ToCapture = <<rem, order>>
  BY DEF A!ToCapture
<1>3. 1 \in rems
  BY <1>1, <1>2 DEF A!Done, Mine
<1>4. PICK k : k = CHOOSE i \in rems : TRUE
  OBVIOUS
<1>5. k \in rems
  BY <1>3, <1>4
<1>6. A!Found(e) = snaps[e.mine[k]].rev
  BY <1>3, <1>4 DEF A!Found
<1>7. k \in 1..Len(e.mine) /\ snaps[e.mine[k]].target = rem
  BY <1>1, <1>5
<1> QED
  BY <1>6, <1>7

\* An execution that has read all its targets moves the row to its snapshots.
LEMMA NamesItsOwn ==
  ASSUME CapturesIInv, NEW e \in captures, e.scope = "run", A!Done(e),
         run'.by = e.mine, UNCHANGED <<capture, snaps>>,
         run'.capture = IF A!Failed(e) THEN "failed" ELSE "succeeded"
  PROVE  A!StepNamesItsOwn' /\ RowNames'
<1>1. e.mine \in Seq(Nat) /\ Mine(e) /\ Reading(e)
  BY CapturesAre
<1>2. e.at = 0 /\ Len(e.mine) = Len(A!ToCapture)
  BY DEF A!Done
<1>3. A!Named' = {e.mine[i] : i \in 1..Len(e.mine)}
  BY <1>1 DEF A!Named
<1>4. \A i \in 1..Len(e.mine) : /\ e.mine[i] # 0 /\ e.mine[i] \in DOMAIN snaps
                                /\ snaps[e.mine[i]].target = A!ToCapture[i]
                                /\ snaps[e.mine[i]].scope = "run"
                                /\ snaps[e.mine[i]].status # "running"
  <2>1. \A i \in DOMAIN snaps : i # 0
    BY CapturesAre
  <2> QED
    BY <1>1, <1>2, <2>1 DEF Mine, Reading
<1>5. [i \in DOMAIN run'.by |-> snaps'[run'.by[i]].target] = A!ToCapture'
  <2>0. A!ToCapture' = A!ToCapture
    BY DEF A!ToCapture
  <2>1. A!ToCapture \in Seq(Hosts) /\ A!ToCapture' = A!ToCapture
    <3>1. <<rem, order>> \in Seq(Hosts) /\ <<Database>> \in Seq(Hosts)
      BY DEF Hosts
    <3> QED
      BY <2>0, <3>1 DEF A!ToCapture
  <2>2. DOMAIN e.mine = 1..Len(A!ToCapture) /\ DOMAIN A!ToCapture = 1..Len(A!ToCapture)
    BY <1>1, <1>2, <2>1
  <2>3. A!ToCapture = [i \in 1..Len(A!ToCapture) |-> A!ToCapture[i]]
    BY <2>1
  <2>4. [i \in DOMAIN e.mine |-> snaps[e.mine[i]].target] = A!ToCapture
    BY <1>2, <1>4, <2>2, <2>3
  <2> QED
    BY <2>1, <2>4
<1>6. \A i \in A!Named' : snaps[i].status # "running" /\ snaps[i].scope = "run"
  BY <1>3, <1>4
<1>7. A!Failed(e) <=> \E i \in A!Named' : snaps[i].status = "failed"
  BY <1>1, <1>3 DEF A!Failed
<1>8. RowNames'
  BY <1>3, <1>4, <1>7 DEF RowNames
<1>9. run'.by # <<>>
  <2>1. Len(A!ToCapture) # 0
    BY DEF A!ToCapture
  <2> QED
    BY <1>1, <1>2, <2>1
<1>10. ~A!Failed(e) => \A i \in A!Named' : snaps[i].status = "succeeded"
  <2>1. \A i \in A!Named' : snaps[i].status \in Ends
    BY <1>3, <1>4, CapturesAre, SnapAt, SnapIs
  <2> QED
    BY <1>6, <1>7, <2>1 DEF Ends
<1> QED
  BY <1>5, <1>6, <1>7, <1>8, <1>9, <1>10 DEF A!StepNamesItsOwn

LEMMA RowMovesTo ==
  ASSUME CapturesIInv, NEW c, NEW w, NEW b \in Seq(Nat), A!Moves(c, w, b)
  PROVE  IsRun(run') /\ IsRunOf(run', c, w, run.version + 1, b, run.confirmed)
<1>1. PICK v : v = run.version + 1
  OBVIOUS
<1>2. IsRun(run) /\ v \in Nat
  BY <1>1, CapturesAre
<1>3. run' = HasMoved(run, c, w, v, b)
  BY <1>1, Zenon DEF A!Moves, HasMoved
<1>4. run' = RunOf(c, w, v, b, run.confirmed)
  BY <1>2, <1>3, RunMoves, Zenon
<1> QED
  BY <1>1, <1>2, <1>4, RunFields

LEMMA CaptureSucceedsKept ==
  ASSUME CapturesIInv, NEW e \in captures, A!CaptureSucceeds(e)
  PROVE  CapturesIInv'
<1>1. /\ e.scope = "run" /\ A!Done(e) /\ ~A!Failed(e) /\ e.at = 0 /\ captures' = captures \ {e}
      /\ UNCHANGED <<capture, interfaces, snaps, edits, confirming, captureExcused, faults>>
  BY DEF A!CaptureSucceeds, A!Done
<1>2. CASE e.version # run.version
  BY <1>1, <1>2, CaptureLeaves DEF A!CaptureSucceeds
<1>3. CASE e.version = run.version
  <2>1. A!Moves("succeeded", "waiting", e.mine)
        /\ wiring' = IF capture = "server" THEN [by |-> "capture", rev |-> A!Found(e)] ELSE wiring
    BY <1>3 DEF A!CaptureSucceeds
  <2>2. IsRun(run') /\ run'.capture = "succeeded" /\ run'.wiring = "waiting"
        /\ run'.version = run.version + 1 /\ run'.by = e.mine
    BY <2>1, CapturesAre, RowMovesTo DEF IsRunOf
  <2>3. A!StepNamesItsOwn' /\ RowNames'
    BY <1>1, <2>2, NamesItsOwn
  <2>4. A!WiringAsCaptured'
    <3>1. CASE capture = "server"
      <4>1. wiring'.rev = A!Found(e)
        BY <2>1, <3>1
      <4>2. PICK i \in 1..Len(e.mine) : /\ snaps[e.mine[i]].target = rem
                                        /\ snaps[e.mine[i]].rev = A!Found(e)
        BY <1>1, <3>1, FoundIs
      <4>3. e.mine[i] \in A!Named'
        BY <2>2, CapturesAre DEF A!Named
      <4> QED
        BY <1>1, <2>2, <4>1, <4>2, <4>3 DEF A!WiringAsCaptured
    <3>2. CASE capture # "server"
      <4>1. run.capture = "running"
        BY <1>1, <1>3, CapturesAre DEF MayMove
      <4>2. wiring'.by # "capture"
        BY <2>1, <3>2, <4>1 DEF CapturesIInv, Confirming
      <4> QED
        BY <2>2, <4>2 DEF A!WiringAsCaptured
    <3> QED
      BY <3>1, <3>2
  <2> QED
    BY <1>1, <2>2, <2>3, <2>4, RowGoesOn
<1> QED
  BY <1>2, <1>3

LEMMA CaptureFailsKept ==
  ASSUME CapturesIInv, NEW e \in captures, A!CaptureFails(e)
  PROVE  CapturesIInv'
<1>1. /\ e.scope = "run" /\ A!Done(e) /\ A!Failed(e) /\ e.at = 0 /\ captures' = captures \ {e}
      /\ UNCHANGED <<capture, interfaces, wiring, snaps, edits, confirming, captureExcused, faults>>
  BY DEF A!CaptureFails, A!Done
<1>2. CASE e.version # run.version
  BY <1>1, <1>2, CaptureLeaves DEF A!CaptureFails
<1>3. CASE e.version = run.version
  <2>1. A!Moves("failed", run.wiring, e.mine)
    BY <1>3 DEF A!CaptureFails
  <2>2. /\ IsRun(run') /\ run'.capture = "failed" /\ run'.wiring = run.wiring
        /\ run'.version = run.version + 1 /\ run'.by = e.mine /\ run'.confirmed = run.confirmed
    BY <2>1, CapturesAre, RowMovesTo DEF IsRunOf
  <2>3. A!StepNamesItsOwn' /\ RowNames'
    BY <1>1, <2>2, NamesItsOwn
  <2>4. wiring.by # "capture"
    BY <1>1, <1>3, CapturesAre DEF MayMove, CapturesIInv, Confirming
  <2>5. A!WiringAsCaptured'
    BY <1>1, <2>2, <2>4 DEF CapturesIInv, A!CapturesAsShown, A!WiringAsCaptured
  <2> QED
    BY <1>1, <2>2, <2>3, <2>4, <2>5, RowGoesOn
<1> QED
  BY <1>2, <1>3

\* A target or a commit fails: what the step named before, it names still.
LEMMA CaptureRaisesKept ==
  ASSUME CapturesIInv, NEW e \in captures, A!CaptureRaises(e)
  PROVE  CapturesIInv'
<1>1. /\ e.at = 0 /\ captures' = captures \ {e} /\ captureExcused' = captureExcused \cup {"error"}
      /\ UNCHANGED <<capture, interfaces, wiring, snaps, edits, confirming>>
  BY DEF A!CaptureRaises
<1>2. CASE ~(e.scope = "run" /\ e.version = run.version)
  <2>1. run' = run
    BY <1>2 DEF A!CaptureRaises
  <2> QED
    BY <1>1, <2>1, CaptureLeaves
<1>3. CASE e.scope = "run" /\ e.version = run.version
  <2>1. A!Moves("failed", run.wiring, run.by)
    BY <1>3 DEF A!CaptureRaises
  <2>2. /\ IsRun(run') /\ run'.capture = "failed" /\ run'.wiring = run.wiring
        /\ run'.version = run.version + 1 /\ run'.by = run.by /\ run'.confirmed = run.confirmed
    BY <2>1, CapturesAre, RowMovesTo DEF IsRunOf
  <2>3. run.capture = "running"
    BY <1>3, CapturesAre DEF MayMove
  <2>4. A!Named' = A!Named /\ A!ToCapture' = A!ToCapture
    BY <1>1, <2>2 DEF A!Named, A!ToCapture
  <2>5. RowNames'
    BY <1>1, <2>2, <2>3, <2>4 DEF CapturesIInv, RowNames
  <2>6. A!StepNamesItsOwn'
    BY <1>1, <2>2, <2>4, <2>5 DEF CapturesIInv, A!CapturesAsShown, A!StepNamesItsOwn, RowNames
  <2>7. wiring.by # "capture"
    BY <2>3 DEF CapturesIInv, Confirming
  <2>8. A!WiringAsCaptured'
    BY <1>1, <2>2, <2>7 DEF CapturesIInv, A!CapturesAsShown, A!WiringAsCaptured
  <2> QED
    BY <1>1, <2>2, <2>5, <2>6, <2>7, <2>8, RowGoesOn
<1> QED
  BY <1>2, <1>3

LEMMA SaveRefusedKept ==
  ASSUME CapturesIInv, NEW e \in captures, A!SaveRefused(e)
  PROVE  CapturesIInv'
<1>1. /\ captures' = captures \ {e} /\ captureExcused \subseteq captureExcused'
      /\ e.at = 0 \/ "refused" \in captureExcused'
      /\ UNCHANGED <<capture, interfaces, run, wiring, snaps, confirming>>
  BY DEF A!SaveRefused
<1> QED
  BY <1>1, CaptureLeaves

LEMMA CaptureRequestsKept == ASSUME CapturesIInv, A!Retry \/ A!Cancel PROVE CapturesIInv'
<1>1. PICK c, w : /\ A!Moves(c, w, run.by)
                  /\ c = run.capture \/ c \in {"running", "cancelled"}
                  /\ c # run.capture => run.capture # "succeeded"
                  /\ w = run.wiring \/ w = "cancelled"
  <2>1. CASE A!Retry
    BY <2>1 DEF A!Retry
  <2>2. CASE A!Cancel
    <3>1. PICK c : c = IF run.capture = "running" THEN "cancelled" ELSE run.capture
      OBVIOUS
    <3>2. A!Moves(c, "cancelled", run.by)
      BY <2>2, <3>1 DEF A!Cancel
    <3> QED
      BY <3>1, <3>2
  <2> QED
    BY <2>1, <2>2
<1>2. UNCHANGED <<capture, interfaces, wiring, snaps, captures, confirming, captureExcused>>
  BY DEF A!Retry, A!Cancel
<1>3. /\ IsRun(run') /\ run'.capture = c /\ run'.wiring = w /\ run'.version = run.version + 1
      /\ run'.by = run.by /\ run'.confirmed = run.confirmed
  BY <1>1, CapturesAre, RowMovesTo DEF IsRunOf
<1>4. wiring.by = "capture" => run.capture = "succeeded"
  BY DEF CapturesIInv, Confirming
<1>5. A!StepNamesItsOwn' /\ A!WiringAsCaptured' /\ RowNames'
  <2>1. A!Named' = A!Named /\ A!ToCapture' = A!ToCapture
    BY <1>2, <1>3 DEF A!Named, A!ToCapture
  <2>2. A!StepNamesItsOwn'
    BY <1>1, <1>2, <1>3, <2>1 DEF CapturesIInv, A!CapturesAsShown, A!StepNamesItsOwn
  <2>3. A!WiringAsCaptured'
    BY <1>1, <1>2, <1>3, <2>1 DEF CapturesIInv, A!CapturesAsShown, A!WiringAsCaptured
  <2>4. RowNames'
    BY <1>1, <1>2, <1>3, <2>1 DEF CapturesIInv, RowNames
  <2> QED
    BY <2>2, <2>3, <2>4
<1> QED
  BY <1>1, <1>2, <1>3, <1>4, <1>5, RowGoesOn

LEMMA ShownStays ==
  ASSUME CapturesIInv, UNCHANGED <<capture, run, wiring, snaps, captureExcused>>,
         captures \subseteq captures'
  PROVE  A!CapturesAsShown'
<1>1. A!Named' = A!Named /\ A!ToCapture' = A!ToCapture
  BY DEF A!Named, A!ToCapture
<1>2. A!StepNamesItsOwn'
  BY <1>1 DEF CapturesIInv, A!CapturesAsShown, A!StepNamesItsOwn
<1>3. A!WiringAsCaptured'
  BY <1>1 DEF CapturesIInv, A!CapturesAsShown, A!WiringAsCaptured
<1>4. A!SnapshotsSettle'
  BY DEF CapturesIInv, A!CapturesAsShown, A!SnapshotsSettle
<1> QED
  BY <1>2, <1>3, <1>4 DEF A!CapturesAsShown

LEMMA ConfirmEndsKept ==
  ASSUME CapturesIInv, NEW c \in confirming, A!ConfirmEnds(c)
  PROVE  CapturesIInv'
<1>1. /\ confirming' = {}
      /\ UNCHANGED <<capture, interfaces, wiring, snaps, captures, edits, captureExcused, faults>>
  BY DEF A!ConfirmEnds
<1>2. CASE c.version # run.version
  <2>1. run' = run
    BY <1>2 DEF A!ConfirmEnds
  <2>2. CapturesTyped' /\ Numbered' /\ RowNames'
    BY <1>1, <2>1 DEF CapturesIInv, CapturesTyped, Numbered, RowNames, A!Named
  <2>3. Working'
    BY <1>1, <2>1 DEF CapturesIInv, Working, Mine, Reading, MayMove, Apart, A!ToCapture
  <2>4. Confirming'
    BY <1>1, <2>1 DEF CapturesIInv, Confirming
  <2>5. A!CapturesAsShown'
    BY <1>1, <2>1, ShownStays
  <2> QED
    BY <2>2, <2>3, <2>4, <2>5 DEF CapturesIInv
<1>3. CASE c.version = run.version
  <2>0. PICK v : v = run.version + 1
    OBVIOUS
  <2>1. run' = HasConfirmed(run, "succeeded", v, c.seen)
    BY <1>3, <2>0, Zenon DEF A!ConfirmEnds, HasConfirmed
  <2>2. run' = RunOf(run.capture, "succeeded", v, run.by, c.seen)
    <3>1. IsRun(run)
      BY CapturesAre
    <3> QED
      BY <2>1, <3>1, RunMoves, ZenonT(60)
  <2>3. /\ IsRun(run') /\ run'.capture = run.capture /\ run'.wiring = "succeeded"
        /\ run'.version = run.version + 1 /\ run'.by = run.by /\ run'.confirmed = c.seen
    BY <2>0, <2>2, CapturesAre, RunFields DEF IsRunOf
  <2>4. /\ A!Complete(c.seen) /\ (wiring = c.seen \/ wiring.by = "operator")
        /\ "crossed edit" \notin captureExcused => wiring = c.seen
    BY <1>3 DEF CapturesIInv, Confirming, Confirms
  <2>5. A!Named' = A!Named /\ A!ToCapture' = A!ToCapture
    BY <1>1, <2>3 DEF A!Named, A!ToCapture
  <2>6. A!StepNamesItsOwn' /\ RowNames'
    BY <1>1, <2>3, <2>5 DEF CapturesIInv, A!CapturesAsShown, A!StepNamesItsOwn, RowNames
  <2>7. A!WiringAsCaptured'
    BY <1>1, <2>3, <2>4, <2>5 DEF CapturesIInv, A!CapturesAsShown, A!WiringAsCaptured, A!Complete
  <2>8. wiring.by = "capture" => run.capture = "succeeded"
    BY DEF CapturesIInv, Confirming
  <2> QED
    BY <1>1, <2>3, <2>6, <2>7, <2>8, RowGoesOn
<1> QED
  BY <1>2, <1>3

\* Steps that touch neither the row, the snapshots nor the executions.
LEMMA SnapshotsStay ==
  ASSUME CapturesIInv, UNCHANGED <<capture, run, snaps, captures>>, interfaces' \in Nat,
         captureExcused \subseteq captureExcused',
         \A c \in confirming' : c.version \in Nat /\ c.version <= run.version,
         Confirming', A!WiringAsCaptured'
  PROVE  CapturesIInv'
<1>1. CapturesTyped' /\ Numbered' /\ RowNames'
  BY DEF CapturesIInv, CapturesTyped, Numbered, RowNames, A!Named
<1>2. Working'
  BY DEF CapturesIInv, Working, Mine, Reading, MayMove, Apart, A!ToCapture
<1>3. A!StepNamesItsOwn' /\ A!SnapshotsSettle'
  BY DEF CapturesIInv, A!CapturesAsShown, A!StepNamesItsOwn, A!SnapshotsSettle, A!Named,
         A!ToCapture
<1> QED
  BY <1>1, <1>2, <1>3 DEF CapturesIInv, A!CapturesAsShown

LEMMA EditsKept ==
  ASSUME CapturesIInv,
         A!InterfacesChange \/ \E r \in Editors : A!EditBegins(r) \/ A!EditSaves(r)
  PROVE  CapturesIInv'
<1>1. /\ UNCHANGED <<capture, run, snaps, captures, confirming>>
      /\ interfaces' = interfaces \/ interfaces' = interfaces + 1
      /\ \/ UNCHANGED <<wiring, captureExcused>>
         \/ /\ wiring'.by = "operator"
            /\ captureExcused' = IF confirming # {} \/ run.wiring # "waiting"
                                   THEN captureExcused \cup {"crossed edit"} ELSE captureExcused
  <2>1. CASE A!InterfacesChange
    BY <2>1 DEF A!InterfacesChange
  <2>2. ASSUME NEW r \in Editors, A!EditBegins(r)
        PROVE  UNCHANGED <<capture, interfaces, run, snaps, captures, confirming, wiring,
                           captureExcused>>
    BY <2>2 DEF A!EditBegins
  <2>3. ASSUME NEW r \in Editors, A!EditSaves(r)
        PROVE  /\ UNCHANGED <<capture, interfaces, run, snaps, captures, confirming>>
               /\ wiring'.by = "operator"
               /\ captureExcused' = IF confirming # {} \/ run.wiring # "waiting"
                                      THEN captureExcused \cup {"crossed edit"} ELSE captureExcused
    BY <2>3 DEF A!EditSaves
  <2> QED
    BY <2>1, <2>2, <2>3
<1>2. interfaces' \in Nat
  <2>1. interfaces \in Nat
    BY CapturesAre
  <2>2. interfaces' = interfaces \/ interfaces' = interfaces + 1
    BY <1>1, Zenon
  <2> QED
    BY <2>1, <2>2
<1>3. Confirming'
  <2>1. CASE UNCHANGED <<wiring, captureExcused>>
    BY <1>1, <2>1 DEF CapturesIInv, Confirming, Confirms, A!Complete
  <2>2. CASE wiring'.by = "operator" /\ (confirming # {} => "crossed edit" \in captureExcused')
    BY <1>1, <2>2 DEF CapturesIInv, Confirming, Confirms, A!Complete
  <2> QED
    BY <1>1, <2>1, <2>2
<1>4. A!WiringAsCaptured'
  <2>1. A!Named' = A!Named
    BY <1>1 DEF A!Named
  <2>2. CASE UNCHANGED <<wiring, captureExcused>>
    BY <1>1, <2>1, <2>2 DEF CapturesIInv, A!CapturesAsShown, A!WiringAsCaptured
  <2>3. CASE /\ wiring'.by = "operator"
             /\ run.wiring # "waiting" => "crossed edit" \in captureExcused'
    BY <1>1, <2>3 DEF A!WiringAsCaptured
  <2> QED
    BY <1>1, <2>2, <2>3
<1>5. captureExcused \subseteq captureExcused'
  BY <1>1
<1> QED
  BY <1>1, <1>2, <1>3, <1>4, <1>5, CapturesAre, SnapshotsStay

LEMMA ConfirmBeginsKept == ASSUME CapturesIInv, A!ConfirmBegins PROVE CapturesIInv'
<1>1. PICK c : c = [version |-> run.version, seen |-> wiring]
  OBVIOUS
<1>2. c.version = run.version /\ c.seen = wiring
  BY <1>1
<1>3. /\ confirming' = {c} /\ A!Complete(wiring)
      /\ UNCHANGED <<capture, interfaces, run, wiring, snaps, captures, edits, captureExcused, faults>>
  BY <1>1 DEF A!ConfirmBegins
<1>4. Confirming'
  BY <1>2, <1>3 DEF CapturesIInv, Confirming, Confirms, A!Complete
<1>5. A!WiringAsCaptured'
  BY <1>3 DEF CapturesIInv, A!CapturesAsShown, A!WiringAsCaptured, A!Named
<1>6. interfaces' \in Nat /\ \A d \in confirming' : d.version \in Nat /\ d.version <= run.version
  BY <1>2, <1>3, CapturesAre
<1> QED
  BY <1>3, <1>4, <1>5, <1>6, SnapshotsStay

LEMMA CapturesCrashKept == ASSUME CapturesIInv, A!Crash PROVE CapturesIInv'
<1>1. /\ captures' = {} /\ confirming' = {} /\ captureExcused' = captureExcused \cup {"crash"}
      /\ UNCHANGED <<capture, interfaces, run, wiring, snaps>>
  BY DEF A!Crash
<1>2. CapturesTyped' /\ Numbered' /\ RowNames'
  BY <1>1 DEF CapturesIInv, CapturesTyped, Numbered, RowNames, A!Named
<1>3. Working' /\ Confirming'
  BY <1>1 DEF CapturesIInv, Working, Confirming
<1>4. A!StepNamesItsOwn' /\ A!WiringAsCaptured'
  BY <1>1 DEF CapturesIInv, A!CapturesAsShown, A!StepNamesItsOwn, A!WiringAsCaptured, A!Named,
              A!ToCapture
<1>5. A!SnapshotsSettle'
  BY <1>1 DEF CapturesIInv, A!CapturesAsShown, A!SnapshotsSettle
<1> QED
  BY <1>2, <1>3, <1>4, <1>5 DEF CapturesIInv, A!CapturesAsShown

\* An execution that joins has no snapshot yet and the version of the row.
LEMMA JoinsKept ==
  ASSUME CapturesIInv, NEW scope \in Scopes, NEW id, NEW version \in Nat,
         A!Joins(scope, id, version),
         scope = "run" => version = run.version /\ run.capture = "running"
  PROVE  CapturesIInv'
<1>1. PICK f : f = CaptureOf(scope, id, version, 0, <<>>)
  OBVIOUS
<1>2. /\ captures' = captures \cup {f}
      /\ UNCHANGED <<capture, interfaces, run, wiring, snaps, edits, confirming, captureExcused>>
  BY <1>1 DEF A!Joins, CaptureOf
<1>3. f.scope = scope /\ f.id = id /\ f.version = version /\ f.at = 0 /\ f.mine = <<>>
  BY <1>1, CaptureFields
<1>4. IsCapture(f)
  <2>1. f = CaptureOf(f.scope, f.id, f.version, f.at, f.mine)
    BY <1>1, <1>3, Zenon
  <2>2. f.scope \in Scopes /\ f.version \in Nat /\ f.at \in Nat /\ f.mine \in Seq(Nat)
    BY <1>3
  <2> QED
    BY <2>1, <2>2, Zenon DEF IsCapture
<1>5. CapturesTyped' /\ Numbered' /\ RowNames'
  BY <1>2, <1>4 DEF CapturesIInv, CapturesTyped, Numbered, RowNames, A!Named
<1>6. Working'
  <2>0. run.version \in Nat
    BY CapturesAre
  <2>1. Mine(f)' /\ Reading(f)' /\ MayMove(f)'
    <3>1. Len(f.mine) = 0 /\ 1..Len(f.mine) = {}
      BY <1>3
    <3>2. Len(A!ToCapture') >= 0
      BY DEF A!ToCapture
    <3>3. Mine(f)'
      BY <3>1, <3>2 DEF Mine
    <3> QED
      BY <1>2, <1>3, <2>0, <3>1, <3>3 DEF Reading, MayMove
  <2>2. ASSUME NEW e \in captures PROVE Mine(e)' /\ Reading(e)' /\ MayMove(e)'
    BY <1>2 DEF CapturesIInv, Working, Mine, Reading, MayMove, A!ToCapture
  <2>3. ASSUME NEW e \in captures PROVE Apart(e, f) /\ Apart(f, e)
    BY <1>3 DEF Apart
  <2>4. ASSUME NEW e \in captures', NEW g \in captures', e # g PROVE Apart(e, g)
    BY <1>2, <2>3, <2>4 DEF CapturesIInv, Working
  <2> QED
    BY <1>2, <2>1, <2>2, <2>4 DEF Working, Apart
<1>7. Confirming'
  BY <1>2 DEF CapturesIInv, Confirming, Confirms, A!Complete
<1>8. A!CapturesAsShown'
  BY <1>2, ShownStays
<1> QED
  BY <1>5, <1>6, <1>7, <1>8 DEF CapturesIInv

\* The instance brings its own copy of the library's Cardinality.
LEMMA SameCaptureCount == ASSUME NEW set PROVE A!Cardinality(set) = Cardinality(set)
BY Zenon DEF A!Cardinality, Cardinality

LEMMA PeersFinite ==
  ASSUME NEW ss \in Seq(Snaps), NEW s, NEW t
  PROVE  IsFiniteSet(Peers(ss, s, t)) /\ Cardinality(Peers(ss, s, t)) \in Nat
<1>1. DOMAIN ss = 1..Len(ss) /\ Len(ss) \in Nat
  OBVIOUS
<1>2. IsFiniteSet(1..Len(ss))
  BY <1>1, FS_Interval
<1>3. Peers(ss, s, t) \subseteq 1..Len(ss)
  BY <1>1 DEF Peers
<1>4. IsFiniteSet(Peers(ss, s, t))
  BY <1>2, <1>3, FS_Subset
<1> QED
  BY <1>4, FS_CardinalityType

\* A snapshot takes the number after those of its scope and host.
LEMMA PeersGrow ==
  ASSUME NEW ss \in Seq(Snaps), NEW sn \in Snaps, NEW s, NEW t
  PROVE  LET zz == Append(ss, sn)
         IN  /\ Cardinality(Peers(ss, s, t)) <= Cardinality(Peers(zz, s, t))
             /\ sn.scope = s /\ sn.target = t =>
                  Cardinality(Peers(zz, s, t)) = Cardinality(Peers(ss, s, t)) + 1
<1> DEFINE zz == Append(ss, sn)  n == Len(ss) + 1  old == Peers(ss, s, t)  new == Peers(zz, s, t)
<1>1. /\ zz \in Seq(Snaps) /\ DOMAIN ss = 1..Len(ss) /\ DOMAIN zz = 1..n /\ Len(ss) \in Nat
      /\ zz[n] = sn /\ \A i \in 1..Len(ss) : zz[i] = ss[i]
  BY AppendProperties
<1>2. IsFiniteSet(old) /\ Cardinality(old) \in Nat /\ IsFiniteSet(new) /\ Cardinality(new) \in Nat
  BY <1>1, PeersFinite
<1> HIDE DEF zz
<1>3. old \subseteq new /\ n \notin old
  BY <1>1 DEF Peers
<1>4. sn.scope = s /\ sn.target = t => new = old \cup {n}
  BY <1>1 DEF Peers
<1> HIDE DEF old, new, n
<1>5. Cardinality(old) <= Cardinality(new)
  BY <1>2, <1>3, FS_Subset
<1>6. Cardinality(old \cup {n}) = Cardinality(old) + 1
  BY <1>2, <1>3, FS_AddElement
<1> QED
  BY <1>4, <1>5, <1>6, Zenon DEF old, new, zz

\* Executions whose own snapshots a step leaves alone keep them.
LEMMA MineKept ==
  ASSUME CapturesIInv, NEW f \in captures, UNCHANGED <<capture, run>>,
         \A i \in 1..Len(f.mine) :
           f.mine[i] \in DOMAIN snaps' /\ snaps'[f.mine[i]] = snaps[f.mine[i]]
  PROVE  Mine(f)' /\ Reading(f)' /\ MayMove(f)'
<1>1. Mine(f) /\ Reading(f) /\ MayMove(f)
  BY CapturesAre
<1>2. MayMove(f)'
  BY <1>1 DEF MayMove
<1>3. A!ToCapture' = A!ToCapture
  BY DEF A!ToCapture
<1>4. Mine(f)'
  BY <1>1, <1>3 DEF Mine
<1>5. Reading(f)'
  BY <1>1 DEF Reading
<1> QED
  BY <1>2, <1>4, <1>5

\* What a step shows is of snapshots that the step in question leaves alone.
LEMMA NamedKept ==
  ASSUME CapturesIInv, UNCHANGED <<capture, run, wiring, captureExcused>>,
         \A i \in DOMAIN snaps :
           i \in DOMAIN snaps' /\ (snaps[i].status # "running" => snaps'[i] = snaps[i])
  PROVE  A!StepNamesItsOwn' /\ A!WiringAsCaptured' /\ RowNames'
<1>1. A!Named' = A!Named /\ A!ToCapture' = A!ToCapture
  BY DEF A!Named, A!ToCapture
<1>2. \A i \in A!Named : i \in DOMAIN snaps' /\ snaps'[i] = snaps[i]
  BY NamedAre
<1>3. RowNames'
  BY <1>1, <1>2 DEF CapturesIInv, RowNames
<1>4. A!WiringAsCaptured'
  BY <1>1, <1>2 DEF CapturesIInv, A!CapturesAsShown, A!WiringAsCaptured
<1>5. A!StepNamesItsOwn'
  <2>1. \A i \in DOMAIN run.by : snaps'[run.by[i]] = snaps[run.by[i]]
    BY <1>2 DEF A!Named
  <2>2. [i \in DOMAIN run.by |-> snaps'[run.by[i]].target]
          = [i \in DOMAIN run.by |-> snaps[run.by[i]].target]
    BY <2>1
  <2>3. A!StepNamesItsOwn
    BY DEF CapturesIInv, A!CapturesAsShown
  <2>4. run.by # <<>> => [i \in DOMAIN run'.by |-> snaps'[run'.by[i]].target] = A!ToCapture'
    BY <1>1, <2>2, <2>3, Zenon DEF A!StepNamesItsOwn
  <2> QED
    BY <1>1, <1>2, <2>3, <2>4 DEF A!StepNamesItsOwn
<1> QED
  BY <1>3, <1>4, <1>5

\* An execution becomes f; the snapshots of the others and those that are finished stay.
Others(e) ==
  /\ \A g \in captures \ {e} : \A i \in 1..Len(g.mine) :
       g.mine[i] \in DOMAIN snaps' /\ snaps'[g.mine[i]] = snaps[g.mine[i]]
  /\ \A i \in DOMAIN snaps :
       i \in DOMAIN snaps' /\ (snaps[i].status # "running" => snaps'[i] = snaps[i])
Becomes(e, f) ==
  /\ IsCapture(f) /\ f.scope = e.scope /\ f.version = e.version
  /\ captures' = (captures \ {e}) \cup {f} /\ snaps' \in Seq(Snaps)
  /\ Mine(f)' /\ Reading(f)'
  /\ \A g \in captures \ {e} : Apart(g, f) /\ Apart(f, g)
LEMMA CaptureGoesOn ==
  ASSUME CapturesIInv, NEW e \in captures, NEW f, Becomes(e, f), Others(e),
         UNCHANGED <<capture, interfaces, run, wiring, confirming, captureExcused>>,
         Numbered', A!SnapshotsSettle'
  PROVE  CapturesIInv'
<1>1. A!StepNamesItsOwn' /\ A!WiringAsCaptured' /\ RowNames'
  BY NamedKept DEF Others
<1>2. CapturesTyped'
  BY DEF CapturesIInv, CapturesTyped, Becomes
<1>3. Working'
  <2>1. ASSUME NEW g \in captures \ {e} PROVE Mine(g)' /\ Reading(g)' /\ MayMove(g)'
    BY MineKept DEF Others
  <2>2. MayMove(f)'
    BY CapturesAre DEF Becomes, MayMove
  <2>3. ASSUME NEW g \in captures', NEW h \in captures', g # h PROVE Apart(g, h)
    BY <2>3 DEF CapturesIInv, Working, Becomes
  <2> QED
    BY <2>1, <2>2, <2>3 DEF Working, Becomes, Apart
<1>4. Confirming'
  BY DEF CapturesIInv, Confirming, Confirms, A!Complete
<1> QED
  BY <1>1, <1>2, <1>3, <1>4 DEF CapturesIInv, A!CapturesAsShown

LEMMA OpenKept ==
  ASSUME CapturesIInv, NEW e \in captures, A!Open(e)
  PROVE  CapturesIInv'
<1>1. PICK t, n, k : t = A!ToCapture[Len(e.mine) + 1] /\ n = A!Attempt(e, t) /\ k = Len(snaps) + 1
  OBVIOUS
<1>2. PICK sn, m : sn = SnapOf(e.scope, t, n, "running", 0) /\ m = Append(e.mine, k)
  OBVIOUS
<1>3. PICK f : f = CaptureOf(e.scope, e.id, e.version, k, m)
  OBVIOUS
<1>4. /\ IsCapture(e) /\ e.mine \in Seq(Nat) /\ e.scope \in Scopes /\ e.version \in Nat
      /\ Mine(e) /\ Reading(e) /\ snaps \in Seq(Snaps)
  BY CapturesAre
<1>5. /\ e.at = 0 /\ Len(e.mine) < Len(A!ToCapture)
      /\ UNCHANGED <<capture, interfaces, run, wiring, edits, confirming, captureExcused, faults>>
  BY DEF A!Open
<1>6. snaps' = Append(snaps, sn)
  BY <1>1, <1>2 DEF A!Open, SnapOf
<1>7. captures' = (captures \ {e}) \cup {f}
  <2>1. captures' = (captures \ {e}) \cup {Opened(e, k, m)}
    BY <1>1, <1>2, Zenon DEF A!Open, A!Goes, Opened
  <2>2. Opened(e, k, m) = f
    BY <1>3, <1>4, CaptureMoves, Zenon
  <2> QED
    BY <2>1, <2>2, Zenon
<1>8. /\ m \in Seq(Nat) /\ Len(m) = Len(e.mine) + 1 /\ m[Len(e.mine) + 1] = k
      /\ Len(e.mine) \in Nat /\ \A i \in 1..Len(e.mine) : m[i] = e.mine[i]
      /\ k \in Nat /\ k # 0 /\ \A i \in DOMAIN snaps : i # k
  BY <1>1, <1>2, <1>4, AppendProperties
<1>9. f.scope = e.scope /\ f.version = e.version /\ f.at = k /\ f.mine = m /\ IsCapture(f)
  <2>1. f.scope = e.scope /\ f.id = e.id /\ f.version = e.version /\ f.at = k /\ f.mine = m
    BY <1>3, CaptureFields
  <2>2. f = CaptureOf(f.scope, f.id, f.version, f.at, f.mine)
    BY <1>3, <2>1, Zenon
  <2>3. f.scope \in Scopes /\ f.version \in Nat /\ f.at \in Nat /\ f.mine \in Seq(Nat)
    BY <1>4, <1>8, <2>1
  <2> QED
    BY <2>1, <2>2, <2>3, Zenon DEF IsCapture
<1>10. t \in Hosts
  <2>1. A!ToCapture = <<rem, order>> \/ A!ToCapture = <<Database>>
    BY DEF A!ToCapture
  <2> QED
    BY <1>1, <1>5, <1>8, <2>1 DEF Hosts
<1>11. n = Cardinality(Peers(snaps, e.scope, t)) + 1 /\ n \in Nat
  <2>1. n = Cardinality(Peers(snaps, e.scope, t)) + 1
    BY <1>1, SameCaptureCount DEF A!Attempt, Peers
  <2> QED
    BY <1>4, <2>1, PeersFinite
<1>12. sn \in Snaps /\ sn.scope = e.scope /\ sn.target = t /\ sn.attempt = n
       /\ sn.status = "running"
  BY <1>2, <1>4, <1>10, <1>11, SnapFields DEF IsSnap, Ends
<1>13. /\ snaps' \in Seq(Snaps) /\ DOMAIN snaps' = 1..k /\ snaps'[k] = sn
       /\ DOMAIN snaps = 1..Len(snaps) /\ \A i \in DOMAIN snaps : snaps'[i] = snaps[i]
       /\ \A i \in DOMAIN snaps' : i = k \/ i \in DOMAIN snaps
  BY <1>1, <1>4, <1>6, <1>12, AppendProperties
<1>14. Others(e)
  <2>1. \A i \in DOMAIN snaps : i \in DOMAIN snaps' /\ snaps'[i] = snaps[i]
    BY <1>1, <1>4, <1>13
  <2> QED
    BY <2>1, CapturesAre DEF Others, Mine
<1>15. Becomes(e, f)
  <2>1. A!ToCapture' = A!ToCapture
    BY <1>5 DEF A!ToCapture
  <2>2. Mine(f)'
    <3> SUFFICES ASSUME NEW i \in 1..Len(m)
                 PROVE  /\ m[i] \in DOMAIN snaps' /\ snaps'[m[i]].target = A!ToCapture[i]
                        /\ snaps'[m[i]].scope = e.scope
      <4>1. Len(m) <= Len(A!ToCapture)
        BY <1>4, <1>5, <1>8 DEF Mine
      <4> QED
        BY <1>9, <2>1, <4>1 DEF Mine
    <3>1. CASE i = Len(e.mine) + 1
      BY <1>1, <1>8, <1>12, <1>13, <3>1
    <3>2. CASE i # Len(e.mine) + 1
      <4>1. i \in 1..Len(e.mine) /\ m[i] = e.mine[i]
        BY <1>8, <3>2
      <4>2. /\ m[i] \in DOMAIN snaps /\ snaps[m[i]].target = A!ToCapture[i]
            /\ snaps[m[i]].scope = e.scope
        BY <1>4, <4>1 DEF Mine
      <4> QED
        BY <1>13, <1>14, <4>2 DEF Others
    <3> QED
      BY <3>1, <3>2
  <2>3. Reading(f)'
    <3>1. \A i \in 1..Len(e.mine) : e.mine[i] \in DOMAIN snaps /\ e.mine[i] # 0
      <4>1. \A i \in DOMAIN snaps : i # 0
        BY <1>4
      <4> QED
        BY <1>4, <4>1 DEF Mine
    <3>2. \A i \in 1..Len(e.mine) : snaps'[m[i]].status # "running" /\ m[i] # k
      BY <1>4, <1>5, <1>8, <1>13, <3>1 DEF Reading
    <3>3. \A i \in 1..Len(m) : i \in 1..Len(e.mine) \/ i = Len(e.mine) + 1
      BY <1>8
    <3>4. snaps'[m[Len(e.mine) + 1]].status = "running" /\ m[Len(e.mine) + 1] = k
          /\ Len(e.mine) + 1 \in 1..Len(m)
      BY <1>8, <1>12, <1>13
    <3> QED
      BY <1>9, <3>2, <3>3, <3>4 DEF Reading
  <2>4. ASSUME NEW g \in captures \ {e} PROVE Apart(g, f) /\ Apart(f, g)
    <3>1. Apart(g, e) /\ Mine(g)
      BY CapturesAre DEF CapturesIInv, Working
    <3>2. \A i \in 1..Len(g.mine) : g.mine[i] # k
      BY <1>8, <3>1 DEF Mine
    <3>3. \A j \in 1..Len(m) : m[j] = k \/ \E i \in 1..Len(e.mine) : m[j] = e.mine[i]
      BY <1>8
    <3> QED
      BY <1>9, <3>1, <3>2, <3>3 DEF Apart
  <2> QED
    BY <1>7, <1>9, <1>13, <2>2, <2>3, <2>4 DEF Becomes
<1>16. Numbered'
  <2>0. \A s, u : /\ Cardinality(Peers(snaps, s, u)) <= Cardinality(Peers(snaps', s, u))
                  /\ Cardinality(Peers(snaps, s, u)) \in Nat
                  /\ Cardinality(Peers(snaps', s, u)) \in Nat
    BY <1>4, <1>6, <1>12, <1>13, PeersGrow, PeersFinite
  <2>1. ASSUME NEW i \in DOMAIN snaps
        PROVE  snaps[i].attempt <= Cardinality(Peers(snaps', snaps[i].scope, snaps[i].target))
    <3>1. snaps[i].attempt <= Cardinality(Peers(snaps, snaps[i].scope, snaps[i].target))
      BY DEF CapturesIInv, Numbered
    <3>2. snaps[i].attempt \in Nat
      BY <1>4, SnapAt, SnapIs
    <3> QED
      BY <2>0, <3>1, <3>2, Upto
  <2>2. n = Cardinality(Peers(snaps', e.scope, t))
    BY <1>4, <1>6, <1>11, <1>12, PeersGrow
  <2>3. n <= Cardinality(Peers(snaps', e.scope, t))
    BY <1>11, <2>2
  <2> QED
    BY <1>12, <1>13, <2>1, <2>3 DEF Numbered
<1>17. A!SnapshotsSettle'
  <2>1. \A i \in DOMAIN snaps :
          snaps[i].scope = e.scope /\ snaps[i].target = t => snaps[i].attempt # n
    <3> SUFFICES ASSUME NEW i \in DOMAIN snaps, snaps[i].scope = e.scope, snaps[i].target = t
                 PROVE  snaps[i].attempt # n
      OBVIOUS
    <3>1. snaps[i].attempt <= Cardinality(Peers(snaps, e.scope, t))
      BY DEF CapturesIInv, Numbered
    <3>2. snaps[i].attempt \in Nat /\ Cardinality(Peers(snaps, e.scope, t)) \in Nat
      BY <1>4, SnapAt, SnapIs, PeersFinite
    <3> QED
      BY <1>11, <3>1, <3>2
  <2>2. ASSUME NEW i \in DOMAIN snaps', NEW j \in DOMAIN snaps', i # j,
               snaps'[i].scope = snaps'[j].scope, snaps'[i].target = snaps'[j].target
        PROVE  snaps'[i].attempt # snaps'[j].attempt
    <3>1. CASE i = k
      BY <1>12, <1>13, <2>1, <2>2, <3>1
    <3>2. CASE j = k
      BY <1>12, <1>13, <2>1, <2>2, <3>2
    <3>3. CASE i # k /\ j # k
      BY <1>13, <2>2, <3>3 DEF CapturesIInv, A!CapturesAsShown, A!SnapshotsSettle
    <3> QED
      BY <3>1, <3>2, <3>3
  <2>3. ASSUME NEW i \in DOMAIN snaps', snaps'[i].status = "running",
               captureExcused \cap {"crash", "refused"} = {}
        PROVE  \E g \in captures' : g.at = i
    <3>1. CASE i = k
      BY <1>7, <1>9, <3>1
    <3>2. CASE i # k
      <4>1. i \in DOMAIN snaps /\ snaps[i].status = "running" /\ i # 0
        BY <1>13, <2>3, <3>2, <1>4
      <4>2. PICK g \in captures : g.at = i
        BY <2>3, <4>1 DEF CapturesIInv, A!CapturesAsShown, A!SnapshotsSettle
      <4> QED
        BY <1>5, <1>7, <4>1, <4>2
    <3> QED
      BY <3>1, <3>2
  <2> QED
    BY <1>5, <2>2, <2>3 DEF A!SnapshotsSettle
<1> QED
  BY <1>5, <1>14, <1>15, <1>16, <1>17, CaptureGoesOn

LEMMA ReadKept ==
  ASSUME CapturesIInv, NEW e \in captures, A!Read(e)
  PROVE  CapturesIInv'
<1>1. PICK k, x, v : /\ k = e.at /\ x \in {"succeeded", "failed"}
                     /\ v = IF snaps[e.at].target = rem THEN interfaces ELSE 0
                     /\ snaps' = ReadSnap(snaps, k, x, v)
  <2>1. PICK x \in {"succeeded", "failed"} :
          snaps' = [snaps EXCEPT ![e.at].status = x,
                                 ![e.at].rev = IF snaps[e.at].target = rem THEN interfaces ELSE 0]
    BY DEF A!Read
  <2>2. PICK v : v = IF snaps[e.at].target = rem THEN interfaces ELSE 0
    OBVIOUS
  <2>3. snaps' = ReadSnap(snaps, e.at, x, v)
    BY <2>1, <2>2, Zenon DEF ReadSnap
  <2> QED
    BY <2>2, <2>3
<1>2. PICK f : f = CaptureOf(e.scope, e.id, e.version, 0, e.mine)
  OBVIOUS
<1>3. /\ IsCapture(e) /\ e.mine \in Seq(Nat) /\ e.scope \in Scopes /\ e.version \in Nat
      /\ Mine(e) /\ Reading(e) /\ snaps \in Seq(Snaps) /\ interfaces \in Nat
  BY CapturesAre
<1>4. /\ k # 0
      /\ UNCHANGED <<capture, interfaces, run, wiring, edits, confirming, captureExcused, faults>>
  BY <1>1 DEF A!Read
<1>5. captures' = (captures \ {e}) \cup {f}
  <2>1. captures' = (captures \ {e}) \cup {[e EXCEPT !.at = 0]}
    BY Zenon DEF A!Read, A!Goes
  <2>2. [e EXCEPT !.at = 0] = f
    BY <1>2, <1>3, CaptureMoves, Zenon
  <2> QED
    BY <2>1, <2>2, Zenon
<1>6. f.scope = e.scope /\ f.version = e.version /\ f.at = 0 /\ f.mine = e.mine /\ IsCapture(f)
  <2>1. f.scope = e.scope /\ f.id = e.id /\ f.version = e.version /\ f.at = 0 /\ f.mine = e.mine
    BY <1>2, CaptureFields
  <2>2. f = CaptureOf(f.scope, f.id, f.version, f.at, f.mine)
    BY <1>2, <2>1, Zenon
  <2>3. f.scope \in Scopes /\ f.version \in Nat /\ f.at \in Nat /\ f.mine \in Seq(Nat)
    BY <1>3, <2>1
  <2> QED
    BY <2>1, <2>2, <2>3, Zenon DEF IsCapture
<1>7. k \in DOMAIN snaps /\ snaps[k].status = "running" /\ \E i \in 1..Len(e.mine) : e.mine[i] = k
  BY <1>1, <1>3, <1>4 DEF Mine, Reading
<1>8. Settled(snaps, snaps', k, x, v)
  <2>1. x \in Ends /\ v \in Nat
    BY <1>1, <1>3 DEF Ends
  <2> QED
    BY <1>1, <1>3, <1>7, <2>1, ReadSnapIs
<1>9. /\ snaps' \in Seq(Snaps) /\ DOMAIN snaps' = DOMAIN snaps
      /\ \A i \in DOMAIN snaps : i # k => snaps'[i] = snaps[i]
      /\ snaps'[k].status # "running"
      /\ \A i \in DOMAIN snaps : /\ snaps'[i].scope = snaps[i].scope
                                 /\ snaps'[i].target = snaps[i].target
                                 /\ snaps'[i].attempt = snaps[i].attempt
  BY <1>1, <1>8 DEF Settled, IsSnap
<1>10. Others(e)
  <2>1. ASSUME NEW g \in captures \ {e}, NEW i \in 1..Len(g.mine)
        PROVE  g.mine[i] \in DOMAIN snaps' /\ snaps'[g.mine[i]] = snaps[g.mine[i]]
    <3>1. Mine(g) /\ Apart(g, e)
      BY CapturesAre DEF CapturesIInv, Working
    <3>2. g.mine[i] # k /\ g.mine[i] \in DOMAIN snaps
      BY <1>7, <3>1 DEF Mine, Apart
    <3> QED
      BY <1>9, <3>2
  <2>2. \A i \in DOMAIN snaps :
          i \in DOMAIN snaps' /\ (snaps[i].status # "running" => snaps'[i] = snaps[i])
    BY <1>7, <1>9
  <2> QED
    BY <2>1, <2>2 DEF Others
<1>11. Becomes(e, f)
  <2>1. A!ToCapture' = A!ToCapture
    BY <1>4 DEF A!ToCapture
  <2>2. Mine(f)'
    <3>1. \A i \in 1..Len(e.mine) :
            /\ e.mine[i] \in DOMAIN snaps' /\ snaps'[e.mine[i]].target = A!ToCapture[i]
            /\ snaps'[e.mine[i]].scope = e.scope
      BY <1>3, <1>9 DEF Mine
    <3>2. Len(e.mine) <= Len(A!ToCapture)
      BY <1>3 DEF Mine
    <3> QED
      BY <1>6, <2>1, <3>1, <3>2, Zenon DEF Mine
  <2>3. Reading(f)'
    <3>1. ASSUME NEW i \in 1..Len(e.mine)
          PROVE  snaps'[e.mine[i]].status # "running" /\ e.mine[i] # 0
      <4>1. e.mine[i] \in DOMAIN snaps /\ (snaps[e.mine[i]].status = "running" <=> e.mine[i] = k)
        BY <1>1, <1>3 DEF Mine, Reading
      <4>2. e.mine[i] # 0
        BY <1>3, <4>1
      <4>3. CASE e.mine[i] = k
        BY <1>9, <4>2, <4>3
      <4>4. CASE e.mine[i] # k
        BY <1>9, <4>1, <4>2, <4>4
      <4> QED
        BY <4>3, <4>4
    <3> QED
      BY <1>6, <3>1 DEF Reading
  <2>4. \A g \in captures \ {e} : Apart(g, f) /\ Apart(f, g)
    BY <1>6 DEF CapturesIInv, Working, Apart
  <2> QED
    BY <1>5, <1>6, <1>9, <2>2, <2>3, <2>4 DEF Becomes
<1>12. Numbered'
  <2>1. \A s, t : Peers(snaps', s, t) = Peers(snaps, s, t)
    BY <1>9 DEF Peers
  <2> QED
    BY <1>9, <2>1 DEF CapturesIInv, Numbered
<1>13. A!SnapshotsSettle'
  <2>1. ASSUME NEW i \in DOMAIN snaps', NEW j \in DOMAIN snaps', i # j,
               snaps'[i].scope = snaps'[j].scope, snaps'[i].target = snaps'[j].target
        PROVE  snaps'[i].attempt # snaps'[j].attempt
    BY <1>9, <2>1 DEF CapturesIInv, A!CapturesAsShown, A!SnapshotsSettle
  <2>2. ASSUME NEW i \in DOMAIN snaps', snaps'[i].status = "running",
               captureExcused \cap {"crash", "refused"} = {}
        PROVE  \E g \in captures' : g.at = i
    <3>1. i # k /\ i \in DOMAIN snaps /\ snaps[i].status = "running"
      BY <1>9, <2>2
    <3>2. PICK g \in captures : g.at = i
      BY <2>2, <3>1 DEF CapturesIInv, A!CapturesAsShown, A!SnapshotsSettle
    <3> QED
      BY <1>1, <1>5, <3>1, <3>2
  <2> QED
    BY <1>4, <2>1, <2>2 DEF A!SnapshotsSettle
<1> QED
  BY <1>4, <1>10, <1>11, <1>12, <1>13, CaptureGoesOn

\* Rows, snapshots and executions keep fitting each other through every step of a capture.
LEMMA CapturesKept == ASSUME CapturesIInv, [A!Next]_captureVars PROVE CapturesIInv'
<1>1. CASE UNCHANGED captureVars
  <2>1. UNCHANGED <<capture, interfaces, run, wiring, snaps, captures, confirming, captureExcused>>
    BY <1>1 DEF captureVars
  <2>2. Confirming'
    BY <2>1 DEF CapturesIInv, Confirming, Confirms, A!Complete
  <2>3. A!WiringAsCaptured'
    BY <2>1, ShownStays DEF A!CapturesAsShown
  <2>4. interfaces \in Nat /\ \A c \in confirming : c.version \in Nat /\ c.version <= run.version
    BY CapturesAre
  <2> QED
    BY <2>1, <2>2, <2>3, <2>4, SnapshotsStay
<1>2. CASE A!InterfacesChange \/ \E r \in Editors : A!EditBegins(r) \/ A!EditSaves(r)
  BY <1>2, EditsKept
<1>3. CASE A!BeginCapture
  <2>1. PICK id \in {1, 2} : A!Joins("run", id, run.version)
    BY <1>3 DEF A!BeginCapture
  <2>2. run.capture = "running" /\ run.version \in Nat /\ "run" \in Scopes
    BY <1>3, CapturesAre DEF A!BeginCapture, Scopes
  <2> QED
    BY <2>1, <2>2, JoinsKept
<1>4. ASSUME NEW p \in Previewers, A!BeginPreview(p) PROVE CapturesIInv'
  <2>1. A!Joins("preview", p, 0) /\ "preview" \in Scopes /\ 0 \in Nat
    BY <1>4 DEF A!BeginPreview, Scopes
  <2> QED
    BY <2>1, JoinsKept
<1>5. CASE A!Retry \/ A!Cancel
  BY <1>5, CaptureRequestsKept
<1>6. CASE A!ConfirmBegins
  BY <1>6, ConfirmBeginsKept
<1>7. CASE A!Crash
  BY <1>7, CapturesCrashKept
<1>8. ASSUME NEW e \in captures, A!OpenServer(e) \/ A!OpenDatabase(e) PROVE CapturesIInv'
  BY <1>8, OpenKept DEF A!OpenServer, A!OpenDatabase
<1>9. ASSUME NEW e \in captures, A!Read(e) PROVE CapturesIInv'
  BY <1>9, ReadKept
<1>10. ASSUME NEW e \in captures, A!PreviewEnds(e) PROVE CapturesIInv'
  BY <1>10, CaptureLeaves DEF A!PreviewEnds, A!Done
<1>11. ASSUME NEW e \in captures, A!CaptureSucceeds(e) PROVE CapturesIInv'
  BY <1>11, CaptureSucceedsKept
<1>12. ASSUME NEW e \in captures, A!CaptureFails(e) PROVE CapturesIInv'
  BY <1>12, CaptureFailsKept
<1>13. ASSUME NEW c \in confirming, A!ConfirmEnds(c) PROVE CapturesIInv'
  BY <1>13, ConfirmEndsKept
<1>14. ASSUME NEW e \in captures, A!CaptureRaises(e) \/ A!SaveRefused(e) PROVE CapturesIInv'
  BY <1>14, CaptureRaisesKept, SaveRefusedKept
<1> QED
  BY <1>1, <1>2, <1>3, <1>4, <1>5, <1>6, <1>7, <1>8, <1>9, <1>10, <1>11, <1>12, <1>13, <1>14
     DEF A!Next

\* What a capture step names are finished snapshots of its own, one of each target: all
\* succeeded if it did, some failed if it failed, unless an error ended its executions
\* before they had read every target; wiring that no operator touched is what they show
\* of the REM, a confirmed wiring is complete and what the confirmation saw; attempts are
\* numbered once and a snapshot stays running only where its process was ended or a commit
\* refused (workflow_capture.py, workflow_handlers/capture.py, wiring_profiles.py).
THEOREM CapturesShown == ExecutionSpec => []CapturesAsShown
<1>1. ExecutionInit => CapturesIInv
  BY CapturesStart DEF ExecutionInit
<1>2. CapturesIInv /\ [ExecutionNext]_executionVars => CapturesIInv'
  <2> SUFFICES ASSUME CapturesIInv, [ExecutionNext]_executionVars
               PROVE  CapturesIInv'
    OBVIOUS
  <2>1. [A!Next]_captureVars
    BY DEF ExecutionNext, RunTerminal, RunParser, RunStatistics, RunCommands, RunCaptures,
           executionVars
  <2> QED
    BY <2>1, CapturesKept
<1>3. CapturesIInv => CapturesAsShown
  BY DEF CapturesIInv, CapturesAsShown
<1> QED
  BY <1>1, <1>2, <1>3, PTL DEF ExecutionSpec
-----------------------------------------------------------------------------
(* Types.  What TypeOK adds to the invariants above are bounds on what is  *)
(* in flight.  For the parser: a request has one export or completion.     *)

ParserRevs == 0..MaxParserRev
PrepSteps == {"idle", "inputs", "uploads"}
ParserSteps == {"ready", "waiting", "succeeded"}
Disturbances == {"export in preparation", "late export", "confirmed", "conflict", "crash"}

OneEach(set, ids) ==
  /\ \A c \in set : c.id \in ids
  /\ \A c, d \in set : c.id = d.id => c = d

ParserBounds ==
  /\ data \in 1..MaxParserRev /\ remote \in ParserRevs
  /\ \A t \in Tables : {inputFile[t], inputRow[t], prep.row[t]} \subseteq ParserRevs
  /\ prep.at \in PrepSteps /\ prep.todo \subseteq Tables /\ parserStep \in ParserSteps
  /\ outFile \in ParserRevs /\ outRow \in ParserRevs
  /\ OneEach(exporting, Exporters)
  /\ OneEach(collecting, Completions) /\ \A c \in collecting : c.rev \in ParserRevs
  /\ parserExcused \subseteq Disturbances

LEMMA AsFewAsIds ==
  ASSUME NEW set, NEW ids, IsFiniteSet(ids), OneEach(set, ids)
  PROVE  Cardinality(set) <= Cardinality(ids)
<1> DEFINE f == [c \in set |-> c.id]
<1>1. f \in Injection(set, ids)
  BY DEF OneEach, Injection, IsInjective
<1> HIDE DEF f
<1> QED
  BY <1>1, FS_Injection

LEMMA SameParserCount == ASSUME NEW set PROVE P!Cardinality(set) = Cardinality(set)
BY Zenon DEF P!Cardinality, Cardinality

LEMMA ParserTypes == ParserIInv /\ ParserBounds => P!TypeOK
<1> SUFFICES ASSUME ParserIInv, ParserBounds PROVE P!TypeOK
  OBVIOUS
<1>1. /\ P!Cardinality(exporting) <= P!Cardinality(Exporters)
      /\ P!Cardinality(collecting) <= P!Cardinality(Completions)
  BY AsFewAsIds, SameParserCount, ParserAssumption DEF ParserBounds
<1>2. inputFile \in [Tables -> ParserRevs] /\ inputRow \in [Tables -> ParserRevs]
  BY DEF ParserIInv, ParserTyped, Tabled, ParserBounds
<1> QED
  BY <1>1, <1>2 DEF ParserBounds, ParserRevs, PrepSteps, ParserSteps, Disturbances, P!TypeOK

LEMMA ParserStartsWithin == P!Init => ParserBounds
<1> SUFFICES ASSUME P!Init PROVE ParserBounds
  OBVIOUS
<1>1. 0 \in ParserRevs /\ 1 \in 1..MaxParserRev
  BY ParserAssumption DEF ParserRevs
<1>2. P!Idle.at = "idle" /\ P!Idle.todo = {} /\ P!Idle.row = P!None
  BY DEF P!Idle
<1> QED
  BY <1>1, <1>2 DEF P!Init, P!None, ParserBounds, OneEach, PrepSteps, ParserSteps

LEMMA IdleWithin ==
  P!Idle.at = "idle" /\ P!Idle.todo = {} /\ \A t \in Tables : P!Idle.row[t] = 0
BY DEF P!Idle, P!None

\* One more request, one less, and those that are known to be late.
LEMMA OneMore ==
  ASSUME NEW set, NEW ids, OneEach(set, ids), NEW c, c.id \in ids, \A d \in set : d.id # c.id
  PROVE  OneEach(set \cup {c}, ids)
BY DEF OneEach

LEMMA StaleOnes ==
  ASSUME NEW set, OneEach(set, Completions),
         \A c \in set : IsCollection(c) /\ c.rev \in ParserRevs
  PROVE  OneEach(P!Stale(set), Completions) /\ \A c \in P!Stale(set) : c.rev \in ParserRevs
<1> DEFINE Late(c) == [c EXCEPT !.fresh = FALSE]
<1>1. ASSUME NEW c, IsCollection(c)
      PROVE  Late(c).id = c.id /\ Late(c).rev = c.rev
  <2> DEFINE i == c.id  r == c.rev  f == c.fresh  no == FALSE
  <2>1. c = CollectionOf(i, r, f)
    BY <1>1 DEF IsCollection
  <2>2. Late(c) = [c EXCEPT !.fresh = no]
    BY Zenon
  <2> HIDE DEF Late, i, r, f, no
  <2>3. Late(c) = CollectionOf(i, r, no)
    BY <2>1, <2>2 DEF CollectionOf
  <2> QED
    BY <2>3 DEF CollectionOf, i, r
<1>2. P!Stale(set) = {Late(c) : c \in set}
  BY Zenon DEF P!Stale
<1> HIDE DEF Late
<1> QED
  BY <1>1, <1>2 DEF OneEach

\* A step of the preparation.
LEMMA PreparationWithin ==
  ASSUME ParserBounds, prep'.at \in PrepSteps, prep'.todo \subseteq Tables,
         \A t \in Tables : inputFile'[t] \in ParserRevs /\ prep'.row[t] \in ParserRevs,
         \A t \in Tables : inputRow'[t] \in ParserRevs, parserStep' \in ParserSteps,
         UNCHANGED <<data, remote, outFile, outRow, exporting, collecting, parserExcused>>
  PROVE  ParserBounds'
BY DEF ParserBounds

LEMMA PreparesWithin ==
  ASSUME ParserIInv, ParserBounds,
         \/ P!PrepBegins \/ P!PrepSums \/ P!PrepCommits \/ P!PrepFails \/ P!PrepCancelled
         \/ \E t \in Tables : P!PrepReuses(t) \/ P!PrepExports(t) \/ P!PrepUploads(t)
  PROVE  ParserBounds'
<1>0. /\ data \in ParserRevs /\ {"inputs", "uploads", "idle"} \subseteq PrepSteps
      /\ 0 \in ParserRevs /\ "waiting" \in ParserSteps
      /\ \A t \in Tables : {inputFile[t], inputRow[t], prep.row[t]} \subseteq ParserRevs
      /\ prep.at \in PrepSteps /\ prep.todo \subseteq Tables /\ parserStep \in ParserSteps
  BY ParserAssumption DEF ParserBounds, ParserRevs, PrepSteps, ParserSteps
<1>1. CASE P!PrepBegins
  <2>1. PICK v : v = HasBegun(P!Idle, Tables, inputRow, prepared.exports)
    OBVIOUS
  <2>2. /\ prep' = v
        /\ UNCHANGED <<data, remote, inputFile, inputRow, parserStep, outFile, outRow, exporting,
                       collecting, parserExcused>>
    BY <1>1, <2>1 DEF P!PrepBegins, P!outVars, HasBegun
  <2>3. v.at = "inputs" /\ v.todo = Tables /\ v.row = inputRow
    BY <2>1, IdlePrep, HasBegunIs, PrepFields
  <2> QED
    BY <1>0, <2>2, <2>3, PreparationWithin
<1>2. CASE P!PrepSums
  <2>1. PICK v : v = HasSums(prep, Tables, inputFile, remote)
    OBVIOUS
  <2>2. /\ prep' = v
        /\ UNCHANGED <<data, remote, inputFile, inputRow, parserStep, outFile, outRow, exporting,
                       collecting, parserExcused>>
    BY <1>2, <2>1 DEF P!PrepSums, P!outVars, HasSums
  <2>3. v.at = "uploads" /\ v.todo = Tables /\ v.row = prep.row
    BY <2>1, PrepIs, HasSumsIs, PrepFields
  <2> QED
    BY <1>0, <2>2, <2>3, PreparationWithin
<1>3. CASE P!PrepCommits \/ P!PrepFails \/ P!PrepCancelled
  <2>1. /\ prep' = P!Idle /\ inputRow' \in {prep.row, inputRow}
        /\ parserStep' \in {parserStep, "waiting"}
        /\ UNCHANGED <<data, remote, inputFile, outFile, outRow, exporting, collecting,
                       parserExcused>>
    BY <1>3 DEF P!PrepCommits, P!PrepFails, P!PrepCancelled, P!outVars
  <2> QED
    BY <1>0, <2>1, IdleWithin, PreparationWithin
<1>4. ASSUME NEW t \in Tables, P!PrepReuses(t) PROVE ParserBounds'
  <2>0. PICK left : left = prep.todo \ {t}
    OBVIOUS
  <2>1. PICK v : v = [prep EXCEPT !.todo = left]
    OBVIOUS
  <2>2. /\ prep' = v
        /\ UNCHANGED <<data, remote, inputFile, inputRow, parserStep, outFile, outRow, exporting,
                       collecting, parserExcused>>
    BY <1>4, <2>0, <2>1 DEF P!PrepReuses, P!outVars
  <2>3. v.at = prep.at /\ v.todo = left /\ v.row = prep.row
    <3> DEFINE a == prep.at  k == prep.todo  r == prep.row  e == prep.exports  s == prep.sums
               u == prep.uploads  b == prep.before
    <3>1. prep = PrepOf(a, k, r, e, s, u, b)
      BY PrepIs DEF IsPrep
    <3> HIDE DEF a, k, r, e, s, u, b
    <3>2. v = PrepOf(a, left, r, e, s, u, b)
      BY <2>1, <3>1 DEF PrepOf
    <3>3. v.at = a /\ v.todo = left /\ v.row = r
      BY <3>2, PrepFields
    <3> QED
      BY <3>3 DEF a, r
  <2> QED
    BY <1>0, <2>0, <2>2, <2>3, PreparationWithin
<1>5. ASSUME NEW t \in Tables, P!PrepExports(t) PROVE ParserBounds'
  <2>1. PICK r, e : r = [prep.row EXCEPT ![t] = data] /\ e = [prep.exports EXCEPT ![t] = data]
    OBVIOUS
  <2>2. PICK left : left = prep.todo \ {t}
    OBVIOUS
  <2>3. PICK v : v = HasExported(prep, left, r, e)
    OBVIOUS
  <2>4. prep' = v
    BY <1>5, <2>1, <2>2, <2>3 DEF P!PrepExports, HasExported
  <2>5. /\ inputFile' = [inputFile EXCEPT ![t] = data]
        /\ UNCHANGED <<data, remote, inputRow, parserStep, outFile, outRow, exporting,
                       collecting, parserExcused>>
    BY <1>5, Zenon DEF P!PrepExports, P!outVars
  <2>6. v.at = prep.at /\ v.todo = left /\ v.row = r
    BY <2>3, PrepIs, HasExportedIs, PrepFields
  <2>7. \A x \in Tables : r[x] \in {data, prep.row[x]} /\ inputFile'[x] \in {data, inputFile[x]}
    <3>1. PICK d : d = data
      OBVIOUS
    <3>2. \A x \in Tables : [inputFile EXCEPT ![t] = d][x] \in {d, inputFile[x]}
      BY PrepIs, TabledSet
    <3>3. \A x \in Tables : [prep.row EXCEPT ![t] = d][x] \in {d, prep.row[x]}
      BY PrepIs, TabledSet
    <3> QED
      BY <2>1, <2>5, <3>1, <3>2, <3>3
  <2> QED
    BY <1>0, <2>2, <2>4, <2>5, <2>6, <2>7, PreparationWithin
<1>6. ASSUME NEW t \in Tables, P!PrepUploads(t) PROVE ParserBounds'
  <2>1. PICK u : u = [prep.uploads EXCEPT ![t] = inputFile[t]]
    OBVIOUS
  <2>2. PICK left : left = prep.todo \ {t}
    OBVIOUS
  <2>3. PICK v : v = HasUploaded(prep, left, u)
    OBVIOUS
  <2>4. /\ prep' = v
        /\ UNCHANGED <<data, remote, inputFile, inputRow, parserStep, outFile, outRow, exporting,
                       collecting, parserExcused>>
    BY <1>6, <2>1, <2>2, <2>3 DEF P!PrepUploads, P!outVars, HasUploaded
  <2>5. v.at = prep.at /\ v.todo = left /\ v.row = prep.row
    BY <2>3, PrepIs, HasUploadedIs, PrepFields
  <2> QED
    BY <1>0, <2>2, <2>4, <2>5, PreparationWithin
<1> QED
  BY <1>1, <1>2, <1>3, <1>4, <1>5, <1>6

LEMMA ExportsWithin ==
  ASSUME ParserIInv, ParserBounds,
         \/ \E r \in Exporters, t \in Tables : P!ExportBegins(r, t)
         \/ \E e \in exporting : P!ExportReturns(e) \/ P!ExportFails(e)
  PROVE  ParserBounds'
<1>0. data \in ParserRevs
  BY ParserAssumption DEF ParserBounds, ParserRevs
<1>1. ASSUME NEW r \in Exporters, NEW t \in Tables, P!ExportBegins(r, t)
      PROVE  ParserBounds'
  <2>1. PICK e : e = [id |-> r, table |-> t, seen |-> prepared]
    OBVIOUS
  <2>2. /\ exporting' = exporting \cup {e} /\ \A x \in exporting : x.id # r
        /\ UNCHANGED <<data, remote, inputFile, inputRow, prep, parserStep, outFile, outRow,
                       collecting, parserExcused>>
    BY <1>1, <2>1 DEF P!ExportBegins, P!outVars
  <2>3. e.id = r
    BY <2>1
  <2>4. OneEach(exporting', Exporters)
    BY <2>2, <2>3, OneMore DEF ParserBounds
  <2> QED
    BY <2>2, <2>4 DEF ParserBounds
<1>2. ASSUME NEW e \in exporting, P!ExportFails(e) PROVE ParserBounds'
  BY <1>2 DEF P!ExportFails, P!outVars, ParserBounds, OneEach
<1>3. ASSUME NEW e \in exporting, P!ExportReturns(e) PROVE ParserBounds'
  <2>1. e.table \in Tables
    BY DEF ParserIInv, ParserTyped
  <2>2. /\ exporting' \subseteq exporting
        /\ inputFile' = [inputFile EXCEPT ![e.table] = data]
        /\ inputRow' = inputRow \/ inputRow' = [inputRow EXCEPT ![e.table] = data]
        /\ UNCHANGED <<data, remote, prep, parserStep, outFile, outRow, collecting>>
    BY <1>3 DEF P!ExportReturns, P!outVars
  <2>3. parserExcused' \subseteq parserExcused \cup {"export in preparation", "late export"}
    BY <1>3 DEF P!ExportReturns
  <2>4. \A x \in Tables : /\ inputFile'[x] \in {data, inputFile[x]}
                          /\ inputRow'[x] \in {data, inputRow[x]}
    <3>1. PICK d : d = data
      OBVIOUS
    <3>2. \A x \in Tables : [inputFile EXCEPT ![e.table] = d][x] \in {d, inputFile[x]}
      BY <2>1, PrepIs, TabledSet
    <3>3. \A x \in Tables : [inputRow EXCEPT ![e.table] = d][x] \in {d, inputRow[x]}
      BY <2>1, PrepIs, TabledSet
    <3> QED
      BY <2>2, <3>1, <3>2, <3>3
  <2>5. parserExcused' \subseteq Disturbances
    BY <2>3 DEF ParserBounds, Disturbances
  <2>6. OneEach(exporting', Exporters)
    BY <2>2 DEF ParserBounds, OneEach
  <2>7. \A x \in Tables : {inputFile'[x], inputRow'[x], prep'.row[x]} \subseteq ParserRevs
    BY <1>0, <2>2, <2>4 DEF ParserBounds
  <2> QED
    BY <2>2, <2>5, <2>6, <2>7 DEF ParserBounds
<1> QED
  BY <1>1, <1>2, <1>3

LEMMA CollectsWithin ==
  ASSUME ParserIInv, ParserBounds,
         \/ \E r \in Completions : P!CollectBegins(r)
         \/ \E c \in collecting : P!CollectSaves(c) \/ P!CollectUndone(c) \/ P!CollectConflicts(c)
         \/ P!Disconnect \/ P!Confirm \/ P!RunChanges
  PROVE  ParserBounds'
<1>0. \A c \in collecting : IsCollection(c) /\ c.rev \in ParserRevs
  BY DEF ParserIInv, ParserTyped, ParserBounds
<1>1. ASSUME NEW r \in Completions, P!CollectBegins(r) PROVE ParserBounds'
  <2>1. PICK c : c = [id |-> r, rev |-> remote, fresh |-> TRUE]
    OBVIOUS
  <2>2. /\ collecting' = collecting \cup {c} /\ \A x \in collecting : x.id # r
        /\ UNCHANGED <<data, remote, inputFile, inputRow, prep, parserStep, outFile, outRow,
                       exporting, parserExcused>>
    BY <1>1, <2>1 DEF P!CollectBegins, P!inVars
  <2>3. c.id = r /\ c.rev = remote
    BY <2>1
  <2>4. OneEach(collecting', Completions)
    BY <2>2, <2>3, OneMore DEF ParserBounds
  <2>5. \A x \in collecting' : x.rev \in ParserRevs
    BY <2>2, <2>3 DEF ParserBounds
  <2> QED
    BY <2>2, <2>4, <2>5 DEF ParserBounds
<1>2. ASSUME NEW c \in collecting, P!CollectSaves(c) PROVE ParserBounds'
  <2>1. /\ outFile' = c.rev /\ outRow' = c.rev /\ parserStep' = "succeeded"
        /\ collecting' = P!Stale(collecting \ {c})
        /\ UNCHANGED <<data, remote, inputFile, inputRow, prep, exporting, parserExcused>>
    BY <1>2 DEF P!CollectSaves, P!Registered, P!inVars
  <2>2. OneEach(collecting \ {c}, Completions)
    BY DEF ParserBounds, OneEach
  <2>3. OneEach(collecting', Completions) /\ \A x \in collecting' : x.rev \in ParserRevs
    BY <1>0, <2>1, <2>2, StaleOnes
  <2>4. "succeeded" \in ParserSteps
    BY DEF ParserSteps
  <2> QED
    BY <1>0, <2>1, <2>3, <2>4 DEF ParserBounds
<1>3. ASSUME NEW c \in collecting, P!CollectUndone(c) \/ P!CollectConflicts(c)
      PROVE  ParserBounds'
  <2>1. /\ collecting' \subseteq collecting /\ outFile' \in {outFile, c.rev}
        /\ parserExcused' \subseteq parserExcused \cup {"conflict"}
        /\ UNCHANGED <<data, remote, inputFile, inputRow, prep, exporting, parserStep, outRow>>
    BY <1>3 DEF P!CollectUndone, P!CollectConflicts, P!inVars
  <2>2. OneEach(collecting', Completions) /\ parserExcused' \subseteq Disturbances
    BY <2>1 DEF ParserBounds, OneEach, Disturbances
  <2> QED
    BY <1>0, <2>1, <2>2 DEF ParserBounds
<1>4. CASE P!Disconnect \/ P!Confirm \/ P!RunChanges
  <2>1. /\ collecting' = P!Stale(collecting)
        /\ parserStep' \in {parserStep, "ready", "succeeded"}
        /\ parserExcused' \subseteq parserExcused \cup {"confirmed"}
        /\ UNCHANGED <<data, remote, inputFile, inputRow, prep, exporting, outFile, outRow>>
    BY <1>4 DEF P!Disconnect, P!Confirm, P!RunChanges, P!inVars
  <2>2. OneEach(collecting', Completions) /\ \A x \in collecting' : x.rev \in ParserRevs
    BY <1>0, <2>1, StaleOnes DEF ParserBounds
  <2>3. parserStep' \in ParserSteps /\ parserExcused' \subseteq Disturbances
    BY <2>1 DEF ParserBounds, ParserSteps, Disturbances
  <2> QED
    BY <2>1, <2>2, <2>3 DEF ParserBounds
<1> QED
  BY <1>1, <1>2, <1>3, <1>4

LEMMA ParserCrashWithin == ASSUME ParserIInv, ParserBounds, P!Crash PROVE ParserBounds'
<1>1. /\ exporting' = {} /\ prep' = P!Idle /\ collecting' = {}
      /\ parserExcused' \subseteq parserExcused \cup {"crash"}
      /\ UNCHANGED <<data, inputRow, parserStep, remote, outRow>>
  BY DEF P!Crash
<1>2. \/ UNCHANGED <<inputFile, outFile>>
      \/ \E e \in exporting :
           inputFile' = [inputFile EXCEPT ![e.table] = data] /\ UNCHANGED outFile
      \/ \E c \in collecting : outFile' = c.rev /\ UNCHANGED inputFile
  BY DEF P!Crash
<1>3. data \in ParserRevs /\ 0 \in ParserRevs
  BY ParserAssumption DEF ParserBounds, ParserRevs
<1>4. outFile' \in ParserRevs /\ \A x \in Tables : inputFile'[x] \in ParserRevs
  <2>1. CASE UNCHANGED <<inputFile, outFile>>
    BY <2>1 DEF ParserBounds
  <2>2. ASSUME NEW e \in exporting, inputFile' = [inputFile EXCEPT ![e.table] = data]
        PROVE  \A x \in Tables : inputFile'[x] \in ParserRevs
    <3>1. e.table \in Tables
      BY DEF ParserIInv, ParserTyped
    <3>2. PICK d : d = data
      OBVIOUS
    <3>3. \A x \in Tables : [inputFile EXCEPT ![e.table] = d][x] \in {d, inputFile[x]}
      BY <3>1, PrepIs, TabledSet
    <3> QED
      BY <1>3, <2>2, <3>2, <3>3 DEF ParserBounds
  <2> QED
    BY <1>2, <2>1, <2>2 DEF ParserBounds
<1>5. parserExcused' \subseteq Disturbances /\ P!Idle.at \in PrepSteps
  BY <1>1, IdleWithin DEF ParserBounds, Disturbances, PrepSteps
<1> QED
  BY <1>1, <1>3, <1>4, <1>5, IdleWithin DEF ParserBounds, OneEach

LEMMA ParserWithin ==
  ASSUME ParserIInv, ParserBounds, [P!Next]_parserVars
  PROVE  ParserBounds'
<1>1. CASE UNCHANGED parserVars
  BY <1>1 DEF parserVars, ParserBounds
<1>2. CASE P!DataChanges \/ P!ParserWrites
  <2>1. /\ data' = data \/ (data < MaxParserRev /\ data' = data + 1)
        /\ remote' = remote \/ (remote < MaxParserRev /\ remote' = remote + 1)
        /\ UNCHANGED <<inputFile, inputRow, prep, parserStep, outFile, outRow, exporting,
                       collecting, parserExcused>>
    BY <1>2 DEF P!DataChanges, P!ParserWrites, P!inVars, P!outVars
  <2>2. data' \in 1..MaxParserRev /\ remote' \in ParserRevs
    BY <2>1, ParserAssumption DEF ParserBounds, ParserRevs
  <2> QED
    BY <2>1, <2>2 DEF ParserBounds
<1> QED
  BY <1>1, <1>2, PreparesWithin, ExportsWithin, CollectsWithin, ParserCrashWithin DEF P!Next

\* The revisions and the metrics stay within the bounds.
Revs == 0..MaxRev
StatBounds ==
  summary.rev \in Revs /\ exec.summary.rev \in Revs /\ metrics \in {0} \cup S!Numbers

LEMMA StatTypes == ASSUME StatIInv, StatBounds PROVE S!TypeOK
<1>1. StatTyped
  BY DEF StatIInv
<1>2. /\ step \in S!Statuses /\ summary \in Summaries /\ limit \in Bounds
      /\ saving \subseteq Saves /\ file \in [S!Numbers -> Payloads] /\ late \in BOOLEAN
  BY <1>1 DEF StatTyped
<1>3. summary.config \in Configs \cup {Unset} /\ summary.latest \in {0} \cup S!Numbers
  BY <1>2 DEF Summaries, Choices
<1>4. \A h \in summary.history : h.no \in S!Numbers
  BY <1>2 DEF Summaries, Records
<1>5. \A s \in saving : s.id \in Requests /\ s.inputs \in Configs /\ s.to \in Limits \cup {Unset}
  BY <1>2 DEF Saves, Bounds
<1>6. \A n \in S!Numbers : file[n].status \in {"none", "succeeded", "failed"}
  BY <1>2 DEF Payloads
<1> QED
  BY <1>2, <1>3, <1>4, <1>5, <1>6 DEF S!TypeOK, StatBounds, Revs, Bounds

LEMMA NobodyWithin == S!Nobody.summary.rev \in Revs
BY StatisticsAssumption DEF S!Nobody, S!Empty, Revs

LEMMA StatStartsWithin == ASSUME S!Init PROVE StatBounds
<1>1. summary = S!Empty /\ exec = S!Nobody /\ metrics = 0
  BY DEF S!Init
<1>2. S!Empty.rev = 0
  BY DEF S!Empty
<1> QED
  BY <1>1, <1>2, NobodyWithin, StatisticsAssumption DEF StatBounds, Revs

LEMMA SavesWithin ==
  ASSUME StatIInv, StatBounds, NEW s \in saving, S!SaveEnds(s) \/ S!Analyze(s) \/ S!SaveFails(s)
  PROVE  StatBounds'
<1>1. s \in Saves /\ limit \in Bounds /\ exec' = exec /\ metrics' = metrics
  BY DEF StatIInv, StatTyped, S!SaveEnds, S!Analyze, S!SaveFails
<1>2. S!Revised(s) \in Summaries
  BY <1>1, RevisedIs
<1>3. S!Revised(s).rev <= MaxRev => S!Revised(s).rev \in Revs
  BY <1>2, StatisticsAssumption DEF Summaries, Revs
<1>4. summary' = summary \/ summary'.rev \in Revs
  <2>1. CASE S!SaveEnds(s) \/ S!SaveFails(s)
    BY <1>3, <2>1 DEF S!SaveEnds, S!SaveFails
  <2>2. CASE S!Analyze(s) /\ s.fresh /\ s.from = step
    <3>1. /\ S!Revised(s).rev <= MaxRev /\ S!NextNo(S!Revised(s)) \in S!Numbers
          /\ summary' = S!Reserved(S!Revised(s), S!RevisedLimit(s))
      BY <2>2 DEF S!Analyze, S!MayBegin
    <3>2. S!RevisedLimit(s) \in Bounds
      BY <1>1, RevisedSays
    <3>3. summary'.rev = S!Revised(s).rev
      BY <1>2, <3>1, <3>2, ReservedDoes
    <3> QED
      BY <1>3, <3>1, <3>3
  <2>3. CASE S!Analyze(s) /\ ~(s.fresh /\ s.from = step)
    BY <2>3 DEF S!Analyze
  <2> QED
    BY <2>1, <2>2, <2>3
<1> QED
  BY <1>1, <1>4 DEF StatBounds

LEMMA StartsWithin ==
  ASSUME StatIInv, StatBounds, S!BeginStep \/ S!Load
  PROVE  StatBounds'
<1>1. summary \in Summaries /\ limit \in Bounds
  BY DEF StatIInv, StatTyped
<1>2. S!NextNo(summary) \in S!Numbers => S!Reserved(summary, limit).rev = summary.rev
  BY <1>1, ReservedDoes
<1>3. CASE S!BeginStep
  <2>1. /\ S!NextNo(summary) \in S!Numbers /\ summary' = S!Reserved(summary, limit)
        /\ UNCHANGED <<exec, metrics>>
    BY <1>3 DEF S!BeginStep, S!MayBegin
  <2> QED
    BY <1>2, <2>1 DEF StatBounds
<1>4. CASE S!Load
  <2> DEFINE again == S!Reserved(summary, limit)
             z == IF S!Active(summary).status = "running" THEN summary ELSE again
  <2>1. /\ z.active \in S!Numbers /\ exec' = [on |-> TRUE, summary |-> z, seen |-> summary]
        /\ UNCHANGED <<summary, metrics>>
    BY <1>4 DEF S!Load
  <2>2. exec'.summary = z
    BY <2>1
  <2>3. z = summary \/ (z = again /\ S!NextNo(summary) \in S!Numbers)
    <3>1. again.active = S!NextNo(summary)
      <4>1. again = SumOf(summary.config, summary.rev,
                          summary.history \cup {Reservation(summary, limit)},
                          S!NextNo(summary), summary.latest, summary.latestRev)
        BY <1>1, ReservedIs
      <4> HIDE DEF again
      <4> QED
        BY <4>1, SumFields
    <3> QED
      BY <2>1, <3>1
  <2> HIDE DEF z
  <2> QED
    BY <1>2, <2>1, <2>2, <2>3 DEF StatBounds
<1> QED
  BY <1>3, <1>4

LEMMA EndsWithin ==
  ASSUME StatIInv, StatBounds, NEW status \in {"succeeded", "failed"},
         S!ExecEnds(status) \/ S!ExecUnsaved(status) \/ S!ExecConflicts(status)
  PROVE  StatBounds'
<1>1. exec' = S!Nobody /\ exec'.summary.rev \in Revs
  BY NobodyWithin DEF S!ExecEnds, S!ExecUnsaved, S!ExecConflicts
<1>2. CASE S!ExecEnds(status)
  <2>1. /\ exec.on /\ summary' = S!Finished(status)
        /\ metrics' \in {metrics, exec.summary.active}
    BY <1>2 DEF S!ExecEnds, S!Save, S!Results
  <2>2. S!Active(exec.summary) \in Records /\ exec.summary.active \in S!Numbers
    BY <2>1, ItsOutcome
  <2>3. exec \in Executions
    BY DEF StatIInv, StatTyped
  <2>4. summary'.rev = exec.summary.rev
    BY <2>1, <2>2, <2>3, FinishedIs
  <2> QED
    BY <1>1, <2>1, <2>2, <2>4 DEF StatBounds
<1>3. CASE S!ExecUnsaved(status) \/ S!ExecConflicts(status)
  <2>1. UNCHANGED <<summary, metrics>>
    BY <1>3 DEF S!ExecUnsaved, S!ExecConflicts
  <2> QED
    BY <1>1, <2>1 DEF StatBounds
<1> QED
  BY <1>2, <1>3

LEMMA StatWithin ==
  ASSUME StatIInv, StatBounds, [S!Next]_statisticsVars
  PROVE  StatBounds'
<1>1. CASE UNCHANGED <<summary, exec, metrics>>
  BY <1>1 DEF StatBounds
<1>2. CASE S!Crash
  BY <1>2, NobodyWithin DEF S!Crash, StatBounds
<1>3. \/ UNCHANGED <<summary, exec, metrics>> \/ S!Crash \/ S!BeginStep \/ S!Load
      \/ \E s \in saving : S!SaveEnds(s) \/ S!Analyze(s) \/ S!SaveFails(s)
      \/ \E status \in {"succeeded", "failed"} :
           S!ExecEnds(status) \/ S!ExecUnsaved(status) \/ S!ExecConflicts(status)
  <2>1. CASE UNCHANGED statisticsVars
    BY <2>1 DEF statisticsVars
  <2>2. ASSUME NEW r \in Requests, NEW c \in Configs,
               \/ S!SelectBegins(r, c)
               \/ \E l \in Limits, analyze \in BOOLEAN : S!SaveBegins(r, c, l, analyze)
        PROVE  UNCHANGED <<summary, exec, metrics>>
    BY <2>2 DEF S!SelectBegins, S!SaveBegins, S!Begins
  <2>3. CASE S!Complete
    BY <2>3 DEF S!Complete
  <2> QED
    BY <2>1, <2>2, <2>3 DEF S!Next
<1> QED
  BY <1>1, <1>2, <1>3, SavesWithin, StartsWithin, EndsWithin

\* The row's status and results, and what was collected, stay within the bounds.
NodeStatuses == {"running", "waiting", "failed", "succeeded", "cancelled"}
ArtifactWithin == artifact.file <= preps /\ artifact.row <= preps /\ \A c \in downloads : c.got <= preps
CommandBounds ==
  /\ nodeKind \in NodeKinds /\ node.status \in NodeStatuses /\ Len(node.results) <= N
  /\ ArtifactWithin

LEMMA CommandTypes == ASSUME CommandsIInv, CommandBounds PROVE C!TypeOK
<1>1. /\ shells \in Seq(Shells) /\ preps \in Nat /\ output \in {0, preps}
      /\ artifact \in [file : Nat, row : Nat]
      /\ node.by \in {0} \cup DOMAIN shells
  BY DEF CommandsIInv, CommandsTyped, RowFits
<1>2. DOMAIN shells = 1..Len(shells) /\ Len(shells) \in Nat
  BY <1>1
<1>3. node.by \in 0..Len(shells)
  BY <1>1, <1>2
<1>4. \A e \in nodeExecs : e.id \in DOMAIN shells /\ e.version <= node.version
  BY DEF CommandsIInv, Handlers, HandlerFits, HandlerPlace
<1>5. \A id \in DOMAIN shells : shells[id].open => Len(shells[id].codes) < N
  BY DEF CommandsIInv, ShellsFit, Orderly
<1>6. output \in 0..preps /\ artifact \in [file : 0..preps, row : 0..preps]
  <2>1. artifact.file \in Nat /\ artifact.row \in Nat
    BY <1>1
  <2>2. artifact.file \in 0..preps /\ artifact.row \in 0..preps /\ output \in 0..preps
    BY <1>1, <2>1 DEF CommandBounds, ArtifactWithin
  <2> QED
    BY <1>1, <2>2
<1> QED
  BY <1>3, <1>4, <1>5, <1>6 DEF C!TypeOK, CommandBounds, NodeStatuses

LEMMA CommandsStartWithin == ASSUME C!Init PROVE CommandBounds
<1>1. /\ node = NodeOf("running", 1, 0, <<>>) /\ nodeKind \in NodeKinds
      /\ artifact = [file |-> 0, row |-> 0] /\ downloads = {} /\ preps = 0
  BY DEF C!Init, NodeOf
<1>2. node.status = "running" /\ node.results = <<>>
  BY <1>1, NodeFields
<1> QED
  BY <1>1, <1>2, CommandsAssumption DEF CommandBounds, NodeStatuses, ArtifactWithin

\* The results that are recorded are as many as the codes.
LEMMA RecordedLength ==
  ASSUME NEW codes \in Seq(Codes)
  PROVE  Len(C!Recorded(codes)) = Len(codes)
<1>1. DOMAIN codes = 1..Len(codes) /\ Len(codes) \in Nat
  OBVIOUS
<1>2. C!Recorded(codes) = [i \in 1..Len(codes) |-> C!ExitCode(codes[i])]
  BY <1>1 DEF C!Recorded
<1>3. \A code : C!ExitCode(code) \in {0, 1}
  BY DEF C!ExitCode
<1>4. C!Recorded(codes) \in Seq({0, 1})
  BY <1>1, <1>2, <1>3
<1>5. DOMAIN C!Recorded(codes) = 1..Len(codes)
  BY <1>2
<1> HIDE DEF C!Recorded
<1> QED
  BY <1>1, <1>4, <1>5

LEMMA SaveWithin ==
  ASSUME CommandsIInv, CommandBounds, NEW e \in nodeExecs, C!SaveReturned(e) \/ C!SaveRaised(e)
  PROVE  CommandBounds'
<1>1. /\ HandlerFits(e) /\ IsHandler(e) /\ shells \in Seq(Shells) /\ ShellsFit
  BY CommandsIs DEF CommandsIInv, CommandsTyped
<1>2. /\ e.id \in DOMAIN shells /\ shells[e.id] \in Shells /\ Len(shells[e.id].codes) <= N
  BY <1>1 DEF HandlerFits, HandlerPlace, ShellsFit, Orderly
<1>3. Len(C!Recorded(shells[e.id].codes)) <= N
  <2>1. shells[e.id].codes \in Seq(Codes)
    BY <1>2 DEF Shells
  <2> QED
    BY <1>2, <2>1, RecordedLength
<1>4. PICK ok, results :
        /\ C!Saved(e, ok, results)
        /\ results = <<>> \/ results = C!Recorded(shells[e.id].codes)
  BY Zenon DEF C!SaveReturned, C!SaveRaised
<1>5. Len(results) <= N
  BY <1>3, <1>4, CommandsAssumption
<1>6. UNCHANGED <<nodeKind, preps, artifact, downloads>>
  BY <1>4 DEF C!Saved
<1>7. node'.status \in NodeStatuses /\ Len(node'.results) <= N
  <2>1. CASE node' = node
    BY <2>1 DEF CommandBounds
  <2>2. CASE node' # node
    <3>1. PICK s, v, r : s \in NodeStatuses /\ node' = NodeOf(s, v, e.id, r)
                         /\ r \in {results, node.results}
      BY <1>4, <2>2 DEF C!Saved, NodeOf, NodeStatuses
    <3>2. node'.status = s /\ node'.results = r
      BY <3>1, NodeFields
    <3> QED
      BY <1>5, <3>1, <3>2 DEF CommandBounds
  <2> QED
    BY <2>1, <2>2
<1> QED
  BY <1>6, <1>7 DEF CommandBounds, ArtifactWithin

LEMMA RequestWithin ==
  ASSUME CommandsIInv, CommandBounds, C!Retry \/ C!Cancel \/ C!Complete
  PROVE  CommandBounds'
<1>1. PICK s \in NodeStatuses :
        /\ node' = HasStatus(node, s, node.version + 1)
        /\ UNCHANGED <<nodeKind, preps, artifact, downloads>>
  BY Zenon DEF C!Retry, C!Cancel, C!Complete, HasStatus, NodeStatuses
<1>2. node' = NodeOf(s, node.version + 1, node.by, node.results)
  BY <1>1, HasStatusIs, CommandsIs
<1>3. node'.status = s /\ node'.results = node.results
  BY <1>2, NodeFields
<1> QED
  BY <1>1, <1>3 DEF CommandBounds, ArtifactWithin

LEMMA DownloadWithin ==
  ASSUME CommandsIInv, CommandBounds, NEW r \in Completions, C!Download(r)
  PROVE  CommandBounds'
<1>0. preps \in Nat /\ output \in {0, preps}
  BY CommandsIs
<1>1. PICK v, no, d :
        d = DownloadOf(r, v, output, no) /\ downloads' = downloads \cup {d}
  BY Zenon DEF C!Download, DownloadOf
<1>2. d.got = output
  BY <1>1 DEF DownloadOf
<1>3. UNCHANGED <<nodeKind, node, preps, artifact>>
  BY DEF C!Download
<1> QED
  BY <1>0, <1>1, <1>2, <1>3 DEF CommandBounds, ArtifactWithin

LEMMA ReplaceWithin ==
  ASSUME CommandsIInv, CommandBounds, NEW c \in downloads, C!ReplaceFile(c)
  PROVE  CommandBounds'
<1>0. IsDownload(c) /\ artifact \in [file : Nat, row : Nat]
  BY CommandsIs
<1>1. PICK yes, d, g : /\ d = DownloadOf(c.id, c.version, c.got, yes) /\ g = c.got
                       /\ downloads' = (downloads \ {c}) \cup {d}
                       /\ artifact' = [artifact EXCEPT !.file = g]
  BY <1>0, DownloadReplaced, Zenon DEF C!ReplaceFile
<1>2. d.got = c.got
  BY <1>1 DEF DownloadOf
<1>3. UNCHANGED <<nodeKind, node, preps>>
  BY DEF C!ReplaceFile
<1>4. artifact'.file = g /\ artifact'.row = artifact.row
  BY <1>0, <1>1
<1> QED
  BY <1>1, <1>2, <1>3, <1>4 DEF CommandBounds, ArtifactWithin

LEMMA RegisterWithin ==
  ASSUME CommandsIInv, CommandBounds, NEW c \in downloads, C!Register(c) \/ C!CompletionFails(c)
  PROVE  CommandBounds'
<1>0. IsNode(node) /\ artifact \in [file : Nat, row : Nat]
  BY CommandsIs
<1>1. downloads' = downloads \ {c} /\ UNCHANGED <<nodeKind, preps>>
  BY DEF C!Register, C!CompletionFails
<1>2. CASE UNCHANGED <<node, artifact>>
  BY <1>1, <1>2 DEF CommandBounds, ArtifactWithin
<1>3. CASE ~UNCHANGED <<node, artifact>>
  <2>1. /\ node' = HasStatus(node, "succeeded", node.version + 1)
        /\ artifact' = [artifact EXCEPT !.row = artifact.file]
    BY <1>3, Zenon DEF C!Register, C!CompletionFails, HasStatus
  <2>2. node' = NodeOf("succeeded", node.version + 1, node.by, node.results)
    BY <1>0, <2>1, HasStatusIs
  <2>3. node'.status = "succeeded" /\ node'.results = node.results
    BY <2>2, NodeFields
  <2>4. artifact'.row = artifact.file /\ artifact'.file = artifact.file
    BY <1>0, <2>1
  <2> QED
    BY <1>1, <2>3, <2>4 DEF CommandBounds, ArtifactWithin, NodeStatuses
<1> QED
  BY <1>2, <1>3

LEMMA CommandsWithin ==
  ASSUME CommandsIInv, CommandBounds, [C!Next]_commandVars
  PROVE  CommandBounds'
<1>1. CASE UNCHANGED <<nodeKind, node, preps, artifact>> /\ downloads' \subseteq downloads
  BY <1>1 DEF CommandBounds, ArtifactWithin
<1>2. ASSUME NEW e \in nodeExecs, C!ArchivePrevious(e) PROVE CommandBounds'
  <2>1. preps \in Nat /\ preps' = preps + 1 /\ UNCHANGED <<nodeKind, node, artifact, downloads>>
    BY <1>2, CommandsIs DEF C!ArchivePrevious
  <2>2. artifact \in [file : Nat, row : Nat] /\ \A c \in downloads : IsDownload(c)
    BY CommandsIs
  <2>3. /\ artifact.file \in Nat /\ artifact.row \in Nat
        /\ \A c \in downloads : c.got \in Nat
    BY <2>2 DEF IsDownload
  <2>4. ArtifactWithin'
    BY <2>1, <2>3 DEF CommandBounds, ArtifactWithin
  <2> QED
    BY <2>1, <2>4 DEF CommandBounds
<1>3. \/ UNCHANGED <<nodeKind, node, preps, artifact>> /\ downloads' \subseteq downloads
      \/ C!Retry \/ C!Cancel \/ C!Complete
      \/ \E e \in nodeExecs : C!ArchivePrevious(e) \/ C!SaveReturned(e) \/ C!SaveRaised(e)
      \/ \E r \in Completions : C!Download(r)
      \/ \E c \in downloads : C!ReplaceFile(c) \/ C!Register(c) \/ C!CompletionFails(c)
  <2>1. CASE UNCHANGED commandVars
    BY <2>1 DEF commandVars
  <2>2. CASE C!Begin \/ C!Convert \/ C!Crash
    BY <2>2 DEF C!Begin, C!Convert, C!Crash
  <2>3. ASSUME \/ \E i \in C!Commands : C!EditScript(i)
               \/ \E id \in DOMAIN shells : C!ShellRuns(id)
        PROVE  UNCHANGED <<nodeKind, node, preps, artifact>> /\ downloads' \subseteq downloads
    BY <2>3 DEF C!EditScript, C!ShellRuns
  <2>4. ASSUME NEW e \in nodeExecs,
               \/ C!ReadScript(e) \/ C!OpenRem(e) \/ C!OpenSlnic(e) \/ C!OpenMarket(e)
               \/ C!MarketRuns(e) \/ C!Returns(e) \/ C!Raises(e)
        PROVE  UNCHANGED <<nodeKind, node, preps, artifact>> /\ downloads' \subseteq downloads
    BY <2>4 DEF C!ReadScript, C!OpenRem, C!OpenSlnic, C!OpenMarket, C!Opens, C!MarketRuns,
       C!Returns, C!Raises
  <2> QED
    BY <2>1, <2>2, <2>3, <2>4 DEF C!Next
<1> QED
  BY <1>1, <1>2, <1>3, SaveWithin, RequestWithin, DownloadWithin, ReplaceWithin, RegisterWithin

\* The steps' status and what the requests have in hand stay of their kinds.
CaptureSteps == {"running", "failed", "succeeded", "cancelled"}
WiringSteps == {"pending", "waiting", "succeeded", "cancelled"}
Excuses == {"crossed edit", "error", "refused", "crash"}
CaptureBounds ==
  /\ interfaces \in 1..MaxRev
  /\ run.capture \in CaptureSteps /\ run.wiring \in WiringSteps
  /\ wiring.by \in {"nobody", "capture", "operator"}
  /\ edits \subseteq Editors /\ \A c, d \in confirming : c = d
  /\ captureExcused \subseteq Excuses

LEMMA CaptureTypes == ASSUME CapturesIInv, CaptureBounds PROVE A!TypeOK
<1>1. /\ run.version \in Nat /\ snaps \in Seq(Snaps)
      /\ \A e \in captures : e.at \in Nat /\ e.mine \in Seq(Nat) /\ Mine(e) /\ Reading(e)
  BY CapturesAre
<1>2. ASSUME NEW e \in captures
      PROVE  /\ e.at \in 0..Len(snaps) /\ Len(e.mine) <= Len(A!ToCapture)
             /\ e.at # 0 => snaps[e.at].status = "running"
  <2>1. Len(e.mine) <= Len(A!ToCapture)
    BY <1>1 DEF Mine
  <2>2. ASSUME e.at # 0
        PROVE  e.at \in 1..Len(snaps) /\ snaps[e.at].status = "running"
    <3>1. PICK i \in 1..Len(e.mine) : e.mine[i] = e.at
      BY <1>1, <2>2 DEF Reading
    <3>2. e.mine[i] \in DOMAIN snaps /\ snaps[e.mine[i]].status = "running"
      BY <1>1, <3>1 DEF Mine, Reading
    <3> QED
      BY <1>1, <3>1, <3>2
  <2> QED
    BY <1>1, <2>1, <2>2
<1>3. A!Cardinality(confirming) <= 1
  <2>1. confirming = {} \/ \E c \in confirming : confirming = {c}
    BY DEF CaptureBounds
  <2>2. Cardinality(confirming) <= 1
    BY <2>1, FS_EmptySet, FS_Singleton
  <2> QED
    BY <2>2, SameCaptureCount
<1> QED
  BY <1>1, <1>2, <1>3 DEF A!TypeOK, CaptureBounds, CaptureSteps, WiringSteps, Excuses

LEMMA CapturesStartWithin == ASSUME A!Init PROVE CaptureBounds
<1>1. PICK b, k : run = RunOf("running", "pending", 1, b, k)
  BY Zenon DEF A!Init, RunOf
<1>2. run.capture = "running" /\ run.wiring = "pending"
  BY <1>1 DEF RunOf
<1>3. /\ interfaces = 1 /\ wiring.by = "nobody" /\ edits = {} /\ confirming = {}
      /\ captureExcused = {}
  BY DEF A!Init, A!None
<1> QED
  BY <1>2, <1>3, StatisticsAssumption, CapturesAssumption
  DEF CaptureBounds, CaptureSteps, WiringSteps

LEMMA CaptureEndsWithin ==
  ASSUME CapturesIInv, CaptureBounds, NEW e \in captures,
         A!CaptureSucceeds(e) \/ A!CaptureFails(e) \/ A!CaptureRaises(e) \/ A!SaveRefused(e)
  PROVE  CaptureBounds'
<1>0. e.mine \in Seq(Nat) /\ run.by \in Seq(Nat)
  BY CapturesAre
<1>1. UNCHANGED <<interfaces, edits, confirming>>
  BY DEF A!CaptureSucceeds, A!CaptureFails, A!CaptureRaises, A!SaveRefused
<1>2. wiring' = wiring \/ wiring'.by = "capture"
  BY DEF A!CaptureSucceeds, A!CaptureFails, A!CaptureRaises, A!SaveRefused
<1>3. \/ run' = run
      \/ A!Moves("succeeded", "waiting", e.mine)
      \/ \E b \in {e.mine, run.by} : A!Moves("failed", run.wiring, b)
  BY DEF A!CaptureSucceeds, A!CaptureFails, A!CaptureRaises, A!SaveRefused
<1>4. run'.capture \in CaptureSteps /\ run'.wiring \in WiringSteps
  <2>1. CASE run' = run
    BY <2>1 DEF CaptureBounds
  <2>2. CASE A!Moves("succeeded", "waiting", e.mine)
    <3>1. run'.capture = "succeeded" /\ run'.wiring = "waiting"
      BY <1>0, <2>2, RowMovesTo DEF IsRunOf
    <3> QED
      BY <3>1 DEF CaptureSteps, WiringSteps
  <2>3. ASSUME NEW b \in {e.mine, run.by}, A!Moves("failed", run.wiring, b)
        PROVE  run'.capture \in CaptureSteps /\ run'.wiring \in WiringSteps
    <3>1. run'.capture = "failed" /\ run'.wiring = run.wiring
      BY <1>0, <2>3, RowMovesTo DEF IsRunOf
    <3> QED
      BY <3>1 DEF CaptureSteps, CaptureBounds
  <2> QED
    BY <1>3, <2>1, <2>2, <2>3
<1>5. captureExcused' \subseteq captureExcused \cup {"error", "refused"}
  BY DEF A!CaptureSucceeds, A!CaptureFails, A!CaptureRaises, A!SaveRefused
<1> QED
  BY <1>1, <1>2, <1>4, <1>5 DEF CaptureBounds, Excuses

LEMMA CaptureRequestsWithin ==
  ASSUME CapturesIInv, CaptureBounds, A!Retry \/ A!Cancel
  PROVE  CaptureBounds'
<1>0. run.by \in Seq(Nat)
  BY CapturesAre
<1>1. UNCHANGED <<interfaces, wiring, edits, confirming, captureExcused>>
  BY DEF A!Retry, A!Cancel
<1>2. PICK c, w : A!Moves(c, w, run.by) /\ c \in CaptureSteps /\ w \in WiringSteps
  <2>1. CASE A!Retry
    BY <2>1 DEF A!Retry, CaptureBounds, CaptureSteps
  <2>2. CASE A!Cancel
    <3>1. PICK c : c = IF run.capture = "running" THEN "cancelled" ELSE run.capture
      OBVIOUS
    <3>2. A!Moves(c, "cancelled", run.by)
      BY <2>2, <3>1 DEF A!Cancel
    <3>3. c \in CaptureSteps /\ "cancelled" \in WiringSteps
      BY <3>1 DEF CaptureBounds, CaptureSteps, WiringSteps
    <3> QED
      BY <3>2, <3>3
  <2> QED
    BY <2>1, <2>2
<1>3. run'.capture = c /\ run'.wiring = w
  BY <1>0, <1>2, RowMovesTo DEF IsRunOf
<1> QED
  BY <1>1, <1>2, <1>3 DEF CaptureBounds

LEMMA WiringWithin ==
  ASSUME CapturesIInv, CaptureBounds,
         \/ A!ConfirmBegins \/ \E c \in confirming : A!ConfirmEnds(c)
         \/ \E r \in Editors : A!EditBegins(r) \/ A!EditSaves(r)
  PROVE  CaptureBounds'
<1>1. CASE A!ConfirmBegins
  <2>1. /\ \A c, d \in confirming' : c = d
        /\ UNCHANGED <<interfaces, run, wiring, edits, captureExcused>>
    BY <1>1 DEF A!ConfirmBegins
  <2> QED
    BY <2>1 DEF CaptureBounds
<1>2. ASSUME NEW c \in confirming, A!ConfirmEnds(c) PROVE CaptureBounds'
  <2>0. IsRun(run)
    BY CapturesAre
  <2>1. confirming' = {} /\ UNCHANGED <<interfaces, wiring, edits, captureExcused>>
    BY <1>2 DEF A!ConfirmEnds
  <2>2. PICK v, k : run' = run \/ run' = HasConfirmed(run, "succeeded", v, k)
    BY <1>2, Zenon DEF A!ConfirmEnds, HasConfirmed
  <2>3. run'.capture = run.capture /\ run'.wiring \in {run.wiring, "succeeded"}
    <3>1. CASE run' = run
      BY <3>1
    <3>2. CASE run' = HasConfirmed(run, "succeeded", v, k)
      <4>1. run' = RunOf(run.capture, "succeeded", v, run.by, k)
        BY <2>0, <3>2, RunMoves, ZenonT(60)
      <4> QED
        BY <4>1 DEF RunOf
    <3> QED
      BY <2>2, <3>1, <3>2
  <2> QED
    BY <2>1, <2>3 DEF CaptureBounds, WiringSteps
<1>3. ASSUME NEW r \in Editors, A!EditBegins(r) \/ A!EditSaves(r) PROVE CaptureBounds'
  <2>1. /\ edits' \subseteq edits \cup {r}
        /\ wiring' = wiring \/ wiring'.by = "operator"
        /\ captureExcused' \subseteq captureExcused \cup {"crossed edit"}
        /\ UNCHANGED <<interfaces, run, confirming>>
    <3>1. CASE A!EditBegins(r)
      BY <3>1 DEF A!EditBegins
    <3>2. CASE A!EditSaves(r)
      BY <3>2 DEF A!EditSaves
    <3> QED
      BY <1>3, <3>1, <3>2
  <2> QED
    BY <2>1 DEF CaptureBounds, Excuses
<1> QED
  BY <1>1, <1>2, <1>3

LEMMA CapturesWithin ==
  ASSUME CapturesIInv, CaptureBounds, [A!Next]_captureVars
  PROVE  CaptureBounds'
<1>1. CASE UNCHANGED <<interfaces, run, wiring, edits, confirming, captureExcused>>
  BY <1>1 DEF CaptureBounds
<1>2. CASE A!InterfacesChange
  <2>1. /\ interfaces < MaxRev /\ interfaces' = interfaces + 1
        /\ UNCHANGED <<run, wiring, edits, confirming, captureExcused>>
    BY <1>2 DEF A!InterfacesChange
  <2> QED
    BY <2>1, StatisticsAssumption DEF CaptureBounds
<1>3. CASE A!Crash
  BY <1>3 DEF A!Crash, CaptureBounds, Excuses
<1>4. \/ UNCHANGED <<interfaces, run, wiring, edits, confirming, captureExcused>>
      \/ A!InterfacesChange \/ A!Crash \/ A!Retry \/ A!Cancel \/ A!ConfirmBegins
      \/ \E e \in captures :
           A!CaptureSucceeds(e) \/ A!CaptureFails(e) \/ A!CaptureRaises(e) \/ A!SaveRefused(e)
      \/ \E c \in confirming : A!ConfirmEnds(c)
      \/ \E r \in Editors : A!EditBegins(r) \/ A!EditSaves(r)
  <2>1. CASE UNCHANGED captureVars
    BY <2>1 DEF captureVars
  <2>2. CASE A!BeginCapture \/ \E p \in Previewers : A!BeginPreview(p)
    BY <2>2 DEF A!BeginCapture, A!BeginPreview, A!Joins
  <2>3. ASSUME NEW e \in captures,
               A!OpenServer(e) \/ A!OpenDatabase(e) \/ A!Read(e) \/ A!PreviewEnds(e)
        PROVE  UNCHANGED <<interfaces, run, wiring, edits, confirming, captureExcused>>
    BY <2>3 DEF A!OpenServer, A!OpenDatabase, A!Open, A!Read, A!PreviewEnds
  <2> QED
    BY <2>1, <2>2, <2>3 DEF A!Next
<1> QED
  BY <1>1, <1>2, <1>3, <1>4, CaptureEndsWithin, CaptureRequestsWithin, WiringWithin

-----------------------------------------------------------------------------
(* The types: each part keeps its invariant and its bounds, and the others *)
(* stay as they begin.                                                     *)

ExecutionIInv ==
  /\ part \in Parts /\ IInv
  /\ ParserIInv /\ ParserBounds /\ StatIInv /\ StatBounds
  /\ CommandsIInv /\ CommandBounds /\ CapturesIInv /\ CaptureBounds

LEMMA ExecutionStarts == ExecutionInit => ExecutionIInv
<1> SUFFICES ASSUME ExecutionInit PROVE ExecutionIInv
  OBVIOUS
<1>1. part \in Parts /\ Init /\ P!Init /\ S!Init /\ C!Init /\ A!Init
  BY DEF ExecutionInit
<1>2. IInv /\ ParserIInv /\ StatIInv /\ CommandsIInv /\ CapturesIInv
  BY <1>1, StartsRight, ParserStarts, StatStarts, CommandsStart, CapturesStart
<1>3. ParserBounds /\ StatBounds /\ CommandBounds /\ CaptureBounds
  BY <1>1, ParserStartsWithin, StatStartsWithin, CommandsStartWithin, CapturesStartWithin
<1> QED
  BY <1>1, <1>2, <1>3 DEF ExecutionIInv

LEMMA ExecutionSteps ==
  ASSUME ExecutionIInv, [ExecutionNext]_executionVars
  PROVE  ExecutionIInv'
<1>1. part' = part
  BY DEF ExecutionNext, executionVars, RunTerminal, RunParser, RunStatistics, RunCommands,
     RunCaptures
<1>2. /\ [Next]_vars /\ [P!Next]_parserVars /\ [S!Next]_statisticsVars
      /\ [C!Next]_commandVars /\ [A!Next]_captureVars
  BY Zenon DEF ExecutionNext, executionVars, RunTerminal, RunParser, RunStatistics, RunCommands,
     RunCaptures
<1>3. IInv'
  BY <1>2, StepKeeps DEF ExecutionIInv
<1>4. ParserIInv' /\ ParserBounds'
  BY <1>2, ParserKept, ParserWithin DEF ExecutionIInv
<1>5. StatIInv'
  BY ExecutionKept DEF ExecutionIInv
<1>6. StatBounds'
  BY <1>2, StatWithin DEF ExecutionIInv
<1>7. CommandsIInv' /\ CommandBounds'
  BY <1>2, CommandsKept, CommandsWithin DEF ExecutionIInv
<1>8. CapturesIInv' /\ CaptureBounds'
  BY <1>2, CapturesKept, CapturesWithin DEF ExecutionIInv
<1> QED
  BY <1>1, <1>3, <1>4, <1>5, <1>6, <1>7, <1>8 DEF ExecutionIInv

\* Rows, files, records and requests of every machine that executes a step keep their
\* types and bounds: a step's status is one the code sets, numbers and revisions are in
\* their ranges, a reading has its snapshot and an open shell has commands left to run.
THEOREM ExecutionTyped == ExecutionSpec => []TypesOK
<1>1. ExecutionInit => ExecutionIInv
  BY ExecutionStarts
<1>2. ExecutionIInv /\ [ExecutionNext]_executionVars => ExecutionIInv'
  BY ExecutionSteps
<1>3. ExecutionIInv => TypesOK
  <2> SUFFICES ASSUME ExecutionIInv PROVE TypesOK
    OBVIOUS
  <2>1. TypeOK
    BY DEF ExecutionIInv, IInv
  <2>2. P!TypeOK /\ S!TypeOK
    BY ParserTypes, StatTypes DEF ExecutionIInv
  <2>3. C!TypeOK /\ A!TypeOK
    BY CommandTypes, CaptureTypes DEF ExecutionIInv
  <2> QED
    BY <2>1, <2>2, <2>3, PartsAssumption DEF TypesOK, ExecutionIInv
<1> QED
  BY <1>1, <1>2, <1>3, PTL DEF ExecutionSpec
=============================================================================
