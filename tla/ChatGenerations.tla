--------------------------- MODULE ChatGenerations ---------------------------
(***************************************************************************)
(* The answers of the assistant (backend/app/services/chat.py and the      *)
(* routes chat.py).  A message is stored as running before its generation  *)
(* starts; the generation is a task of the event loop, kept in a           *)
(* process-local table until its done callback has stored the outcome.     *)
(* It ends by answering, failing, timing out or being cancelled, by the    *)
(* user or because the stream's client went away.                          *)
(***************************************************************************)
EXTENDS Naturals, Sequences, FiniteSets

CONSTANTS
  Conversations,  \* conversations that may be opened, each once
  Owner,          \* the user of each
  Capacity,       \* chat_max_concurrent
  MaxMessages     \* bound on the answers of a conversation

VARIABLES
  open,           \* conversations that exist
  answers,        \* status of each conversation's assistant messages, in order
  active,         \* active_generations: each conversation's job
  listening,      \* conversations whose stream has a client
  context,        \* answers a job was given as history
  unsaved         \* answers whose outcome could not be stored

vars == <<open, answers, active, listening, context, unsaved>>

Ended == {"completed", "failed", "cancelled"}
NoJob == [state |-> "none", message |-> 0]
Busy == {c \in Conversations : active[c] # NoJob}

CreateConversation(c) ==
  /\ c \notin open /\ answers[c] = <<>>
  /\ open' = open \cup {c}
  /\ UNCHANGED <<answers, active, listening, context, unsaved>>

\* conversation_context: only pairs whose answer is complete
Context(c) == {i \in DOMAIN answers[c] : answers[c][i] = "completed"}

\* send_message: admission, both messages and the job in one step of the loop
Admitted(c) ==
  /\ \A d \in Busy : Owner[d] # Owner[c]
  /\ Cardinality(Busy) < Capacity
SendMessage(c) ==
  /\ c \in open /\ Admitted(c) /\ Len(answers[c]) < MaxMessages
  /\ answers' = [answers EXCEPT ![c] = Append(@, "running")]
  /\ active' = [active EXCEPT ![c] = [state |-> "running", message |-> Len(answers[c]) + 1]]
  /\ context' = [context EXCEPT ![c] = Context(c)]
  /\ listening' = listening \cup {c}
  /\ UNCHANGED <<open, unsaved>>

\* The task ends: _generate returned, raised or ran out of time, or was cancelled
\* at its next await; it may still return if the cancellation comes too late.
TaskEnds(c) ==
  /\ active[c].state \in {"running", "cancelling"}
  /\ \E outcome \in Ended :
       /\ outcome = "cancelled" => active[c].state = "cancelling"
       /\ active' = [active EXCEPT ![c].state = outcome]
  /\ UNCHANGED <<open, answers, listening, context, unsaved>>

\* _finished, the done callback: stores the outcome, and always leaves the table.
Store(c) ==
  /\ active[c].state \in Ended
  /\ \/ /\ answers' = [answers EXCEPT ![c][active[c].message] = active[c].state]
        /\ UNCHANGED unsaved
     \/ /\ unsaved' = unsaved \cup {<<c, active[c].message>>}
        /\ UNCHANGED answers
  /\ active' = [active EXCEPT ![c] = NoJob]
  /\ listening' = listening \ {c}
  /\ UNCHANGED <<open, context>>

Cancelled(c) == IF active[c].state = "running" THEN [active EXCEPT ![c].state = "cancelling"]
                ELSE active
CancelGeneration(c) ==
  /\ c \in open /\ active[c].state = "running"
  /\ active' = Cancelled(c)
  /\ UNCHANGED <<open, answers, listening, context, unsaved>>

\* The client of the stream goes away: the generator's finally cancels the task, unless
\* the response had not started.
Disconnect(c) ==
  /\ c \in listening
  /\ listening' = listening \ {c}
  /\ active' \in {active, Cancelled(c)}
  /\ UNCHANGED <<open, answers, context, unsaved>>

\* delete_conversation: refused while a job is in the table.
Deletable(c) == active[c] = NoJob
DeleteConversation(c) ==
  /\ c \in open /\ Deletable(c)
  /\ open' = open \ {c}
  /\ UNCHANGED <<answers, active, listening, context, unsaved>>

\* stop_all_chats: an orderly stop cancels every task; the callbacks still run.
StopAll ==
  /\ \E c \in Conversations : active[c].state = "running"
  /\ active' = [c \in Conversations |->
                  IF active[c].state = "running" THEN Cancelled(c)[c] ELSE active[c]]
  /\ UNCHANGED <<open, answers, listening, context, unsaved>>

\* The process dies; recover_interrupted_chats ends what it left running.
Recovered_Kept(c, i) == answers[c][i]   \* Mutant: left as they are
Recovered(c, i) == IF answers[c][i] = "running" THEN "cancelled" ELSE answers[c][i]
Restart ==
  /\ Busy # {} \/ unsaved # {}
  /\ active' = [c \in Conversations |-> NoJob] /\ listening' = {}
  /\ answers' = [c \in Conversations |-> [i \in DOMAIN answers[c] |-> Recovered(c, i)]]
  /\ context' = [c \in Conversations |-> {}]
  /\ unsaved' = {}
  /\ UNCHANGED open

Init ==
  /\ open = {} /\ answers = [c \in Conversations |-> <<>>]
  /\ active = [c \in Conversations |-> NoJob]
  /\ listening = {} /\ context = [c \in Conversations |-> {}] /\ unsaved = {}

Next ==
  \/ \E c \in Conversations :
       \/ CreateConversation(c) \/ SendMessage(c) \/ TaskEnds(c) \/ Store(c)
       \/ CancelGeneration(c) \/ Disconnect(c) \/ DeleteConversation(c)
  \/ StopAll \/ Restart

Spec == Init /\ [][Next]_vars

-----------------------------------------------------------------------------
(* Properties *)

\* The tables hold what the program may write.
TypeOK ==
  /\ open \subseteq Conversations /\ listening \subseteq Busy
  /\ \A c \in Conversations : \A i \in DOMAIN answers[c] : answers[c][i] \in Ended \cup {"running"}
  /\ \A c \in Busy : active[c].message \in DOMAIN answers[c]

\* A stored message says running exactly while a job of its conversation will store its
\* outcome, the failed saves apart; that job's conversation has not been deleted, its
\* user has no other job, and the history it was given is still complete.
AnswersAreCarried ==
  /\ \A c \in Conversations : \A i \in DOMAIN answers[c] :
       answers[c][i] = "running" =>
         active[c].message = i \/ <<c, i>> \in unsaved
  /\ \A c \in Busy :
       /\ c \in open /\ answers[c][active[c].message] = "running"
       /\ \A d \in Busy : Owner[d] = Owner[c] => d = c
       /\ \A i \in context[c] : answers[c][i] = "completed"
=============================================================================
