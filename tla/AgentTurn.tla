------------------------------ MODULE AgentTurn ------------------------------
(* A conversation and its turns, rust/agent/conversation: the window of messages *)
(* the model is sent, beside what replay_entries would rebuild from the ledger,  *)
(* through steps, failed model calls, corrections, tools, compactions, rewinds,  *)
(* children and resumes.  A conversation belongs to one thread; it may stop      *)
(* anywhere, and the next process opens it from its ledger.                      *)
EXTENDS Naturals, FiniteSets, SequencesExt, FiniteSetsExt

CONSTANTS MaxSteps,       \* the operator's step budget, maxSteps
          Promotions,     \* how many other routes a context overflow may move to
          Cause,          \* what a cut-off call may say of itself
          Answer,         \* contents an unreadable answer may have
          MaxTools,       \* bound: tools of one action
          MaxTurns,       \* bound: turns, and with them what a conversation holds
          MaxWindow,      \* bound: messages in a window a turn or a checkpoint begins with
          MaxContexts,    \* bound: start contexts in one window
          MaxSaved        \* bound: checkpoints of one lineage

ASSUME BudgetAssumption == MaxSteps \in Nat /\ Promotions \in Nat
ASSUME BoundAssumption ==
  MaxTools \in Nat \ {0} /\ MaxTurns \in Nat /\ MaxWindow \in Nat /\ MaxContexts \in Nat /\ MaxSaved \in Nat
ASSUME CauseAssumption == IsFiniteSet(Cause) /\ IsFiniteSet(Answer)

\* Messages by what they are.  The base system prompt and the completion authority
\* are stated anew at every opening and step and are left out.
Task == {"task", "continue"}
Result == {"result", "evident", "cut"}   \* plain, with its evidence, or pruned
Told == {"correction", "follow_on", "withheld"}
User == Task \cup Result \cup Told
Assistant == {"raw", "answer"}
System == {"summary", "context"}
Message == User \cup Assistant \cup System

VARIABLES
  messages,   \* the live window
  replayed,   \* what replay_entries makes of the active lineage
  saved,      \* the windows of the lineage's checkpoints
  awaited,    \* results the recorder still joins into one message, or 0
  pending,    \* session_context_pending: the start context is yet to be restored
  reconcile,  \* reconcile_completion: retained work is inspected first
  turns,      \* turns begun so far
  pc,         \* where the turn is
  step,       \* the number of the step under way
  routes,     \* context promotions not tried yet
  repairs,    \* failures of answers seen in this turn
  left, ran,  \* tools of the action still to run; whether one of them ran
  answers,    \* answers read in this turn
  apart       \* a failure left the window and its ledger apart

window == <<messages, replayed, saved, awaited, pending, reconcile, apart>>
loop == <<step, routes, repairs, left, ran, answers>>
vars == <<window, loop, turns, pc>>

Init ==
  /\ messages = <<>> /\ replayed = <<>> /\ saved = {} /\ awaited = 0
  /\ pending = TRUE /\ reconcile = FALSE /\ apart = FALSE
  /\ turns = 0 /\ pc = "idle"
  /\ step = 1 /\ routes = 0 /\ repairs = {}
  /\ left = 0 /\ ran = FALSE /\ answers = 0

-----------------------------------------------------------------------------
(* The window and its ledger.                                                   *)

Say(m) == messages' = messages \o m
Recorded(m) == replayed' = replayed \o m
Both(m) == Say(m) /\ Recorded(m)

\* "final" and "assistant_message" put the answer in place of the raw one, in the
\* window and in replay_entries alike.
Answered(w) == IF w # <<>> /\ Last(w) \in Assistant
               THEN Append(Front(w), "answer") ELSE Append(w, "answer")

\* A context snapshot, or a checkpoint: the replay starts from this window.
Snapshot(w) == messages' = w /\ replayed' = w /\ apart' = FALSE

\* The SessionStart hook may have something to say, or not.
Context ==
  {<<>>} \cup {<<m>> : m \in IF Len(SelectSeq(messages, LAMBDA x : x = "context")) < MaxContexts
                           THEN {"context"} ELSE {}}

Spoken(w) == SelectSeq(w, LAMBDA m : m \notin System)
HasHistory == Len(Spoken(messages)) > 1
EmptyTurn == Spoken(messages) = <<>>

\* restore_session_context.
Restored(c) == IF pending THEN Snapshot(messages \o c)
               ELSE c = <<>> /\ UNCHANGED <<messages, replayed, apart>>

\* The window becomes its summary, followed by more; its context is restored.
CompactedPending(c, more) ==
  /\ Snapshot(<<"summary">> \o c \o more)
  /\ pending' = TRUE
Compacted(c, more) ==
  /\ Snapshot(<<"summary">> \o c \o more)
  /\ pending' = FALSE

\* compact fails before it changes more than the start context, or after it recorded
\* the compaction: the system prompt cannot be built, the context not restored.
CompactFails ==
  \/ UNCHANGED <<messages, replayed, pending, apart>>
  \/ \E c \in Context : pending /\ Restored(c) /\ pending' = FALSE
  \/ /\ replayed' = <<"summary">> /\ apart' = TRUE
     /\ UNCHANGED <<messages, pending>>
  \/ Snapshot(<<"summary">>) /\ pending' = TRUE

\* Tool results before the latest may lose their output.
Pruned(w) ==
  LET Outputs == {i \in DOMAIN w : w[i] \in Result}
      Earlier == {i \in Outputs : \E j \in Outputs : j > i}
  IN  {[i \in DOMAIN w |-> IF i \in cuts THEN "cut" ELSE w[i]] : cuts \in SUBSET Earlier}

-----------------------------------------------------------------------------
(* Between turns.                                                               *)

Idle == pc = "idle"

\* A turn's own variables, at its start and, at rest, after its end.
Loop(promotions) ==
  /\ step' = 1 /\ routes' = promotions /\ repairs' = {}
  /\ left' = 0 /\ ran' = FALSE /\ answers' = 0
End == pc' = "idle" /\ Loop(0)
Stay == UNCHANGED <<loop, turns, pc>>

\* A child session goes on with this window, seeded into its own ledger.
Child(w) ==
  /\ Snapshot(w) /\ saved' = {} /\ awaited' = 0
  /\ pending' = TRUE /\ reconcile' = TRUE

Checkpoint ==
  /\ Idle /\ Len(messages) <= MaxWindow
  /\ Snapshot(messages) /\ saved' = saved \cup {messages} /\ Cardinality(saved') <= MaxSaved
  /\ UNCHANGED <<awaited, pending, reconcile>> /\ Stay

Rewind(w) ==
  /\ Idle /\ w \in saved
  /\ Snapshot(w) /\ awaited' = 0 /\ pending' = TRUE
  /\ UNCHANGED <<saved, reconcile>> /\ Stay

Fork == Idle /\ Child(messages) /\ Stay
Reset == Idle /\ Child(<<>>) /\ Stay

\* The brief of a handoff is seeded after the child's start context, which may fail;
\* what fails before it leaves this session, and perhaps its restored context.
Handoff ==
  /\ Idle /\ ~EmptyTurn
  /\ \/ /\ \/ \E c \in Context : Snapshot(<<"summary">> \o c) /\ pending' = FALSE
           \/ messages' = <<"summary">> /\ replayed' = <<>> /\ pending' = TRUE /\ apart' = TRUE
        /\ saved' = {} /\ awaited' = 0 /\ reconcile' = TRUE
     \/ /\ \E c \in Context : Restored(c) /\ pending' = FALSE
        /\ UNCHANGED <<saved, awaited, reconcile>>
  /\ Stay

\* /compact.
CompactNow ==
  /\ Idle /\ ~EmptyTurn
  /\ \/ \E c \in Context : Compacted(c, <<>>)
     \/ CompactFails
  /\ UNCHANGED <<saved, awaited, reconcile>> /\ Stay

\* The process stops, wherever it is, and another opens the conversation: in its own
\* ledger, or in a child seeded with its history.
Resume ==
  /\ Snapshot(replayed) /\ awaited' = 0
  /\ saved' \in {saved, {}}
  /\ pending' = TRUE /\ reconcile' = TRUE
  /\ End /\ UNCHANGED turns

-----------------------------------------------------------------------------
(* A turn begins.                                                               *)

Go(place) == pc' = place

\* The request is captured and the start context restored; a hook may refuse it.
StartTurn(continuing, c) ==
  /\ Idle /\ turns < MaxTurns /\ turns' = turns + 1
  /\ Len(messages) <= MaxWindow /\ Len(replayed) <= MaxWindow
  /\ reconcile' = (reconcile \/ continuing)
  /\ Restored(c) /\ pending' = FALSE
  /\ \/ End
     \/ Go("record") /\ Loop(Promotions)
  /\ UNCHANGED <<saved, awaited>>

\* The start context cannot be restored: it stays pending.
StartFails ==
  /\ Idle /\ pending /\ turns < MaxTurns /\ turns' = turns + 1
  /\ reconcile' \in {reconcile, TRUE}
  /\ UNCHANGED <<messages, replayed, saved, awaited, pending, apart, loop, pc>>

RecordTask ==
  /\ pc = "record" /\ Recorded(<<"task">>) /\ Go("plan")
  /\ UNCHANGED <<messages, saved, awaited, pending, reconcile, apart, loop, turns>>

\* The request is planned, work of an earlier process inspected; only then does the
\* window get the request, behind what the inspection withheld.
Plan ==
  /\ pc = "plan" /\ reconcile' = FALSE
  /\ \E said \in (IF reconcile THEN {<<>>, <<"withheld">>} ELSE {<<>>}) : Say(said \o <<"task">>)
  /\ Go("step")
  /\ UNCHANGED <<replayed, saved, awaited, pending, apart, loop, turns>>

PlanFails ==
  /\ pc = "plan" /\ apart' = TRUE /\ End
  /\ reconcile' \in {reconcile, FALSE}
  /\ UNCHANGED <<messages, replayed, saved, awaited, pending, turns>>

-----------------------------------------------------------------------------
(* A step: the loop's head and the model call.                                  *)

Began == step <= MaxSteps

Exhausted ==
  /\ pc = "step" /\ ~Began
  /\ End /\ UNCHANGED <<window, turns>>

\* The retained work is paused or blocked, the turn is cancelled, or compaction fails.
StepRefused ==
  /\ pc = "step" /\ Began
  /\ \/ UNCHANGED <<messages, replayed, pending, apart>>
     \/ step > 1 /\ ~EmptyTurn /\ CompactFails
     \/ step > 1 /\ messages' \in Pruned(messages) /\ UNCHANGED <<replayed, pending, apart>>
  /\ End /\ UNCHANGED <<saved, awaited, reconcile, turns>>

\* The window is sent as it is, pruned, or compacted and told to go on.
Ready ==
  /\ pc = "step" /\ Began /\ Go("call")
  /\ \/ UNCHANGED <<messages, replayed, pending, apart>>
     \/ step > 1 /\ messages' \in Pruned(messages) /\ UNCHANGED <<replayed, pending, apart>>
     \/ step > 1 /\ ~EmptyTurn /\ \E c \in Context : Compacted(c, <<"continue">>)
  /\ UNCHANGED <<saved, awaited, reconcile, loop, turns>>

\* The answer is read and recorded; only now does the budget pay for it.
Reply ==
  /\ pc = "call" /\ Go("reply")
  /\ Recorded(<<"raw">>) /\ answers' = answers + 1
  /\ UNCHANGED <<messages, saved, awaited, pending, reconcile, apart,
                 step, routes, repairs, left, ran, turns>>

-----------------------------------------------------------------------------
(* A model call that failed, after none, some or all of an answer.              *)

\* The turn goes on, at the cost of a step or of none.
RetrySpends == Go("step") /\ step' = step + 1
Retry == Go("step") /\ step' = step

\* Another route takes the overflowing context.
Promote ==
  /\ pc = "call" /\ routes > 0 /\ routes' \in 0..(routes - 1)
  /\ Retry
  /\ UNCHANGED <<window, repairs, left, ran, answers, turns>>

\* An overflow without a route left, or a cut-off answer: the history is compacted.
CompactAndContinue ==
  /\ pc = "call" /\ HasHistory
  /\ \/ /\ Retry /\ routes' \in {routes, 0}
        /\ \E c \in Context : Compacted(c, <<"continue">>)
        /\ UNCHANGED <<repairs, left, ran, answers>>
     \/ End /\ CompactFails
  /\ UNCHANGED <<saved, awaited, reconcile, turns>>

\* The correction an unusable answer is given, once for each different failure and
\* while a further step is left.
UnseenAlways(failure) == step < MaxSteps
Unseen(failure) == failure \notin repairs /\ step < MaxSteps

\* A cut-off answer with no history to compact.
CutOff(cause) ==
  /\ pc = "call" /\ ~HasHistory
  /\ IF Unseen(<<"cut", cause>>)
     THEN /\ Retry /\ repairs' = repairs \cup {<<"cut", cause>>}
          /\ Both(<<"correction">>)
          /\ UNCHANGED <<routes, left, ran, answers>>
     ELSE End /\ UNCHANGED <<messages, replayed>>
  /\ UNCHANGED <<saved, awaited, pending, reconcile, apart, turns>>

\* Any other failure, and one after output that was shown.
CallFails ==
  /\ pc = "call" /\ End /\ UNCHANGED <<window, turns>>

-----------------------------------------------------------------------------
(* What the answer says, with the raw answer joining the window first.           *)

\* Recording an action tells the recorder how many results to join into the one
\* message that answers several tools.
AwaitedKept(n) == IF n > 0 THEN n ELSE awaited
Awaited(n) == n
Acted == awaited' = Awaited(0)

\* On to the next step, told something; replay sees it when it was recorded.
NextStep == step + 1
Continue(m) ==
  /\ Go("step") /\ step' = NextStep
  /\ Say(<<"raw", m>>)
  /\ UNCHANGED <<saved, pending, reconcile, apart,
                 routes, left, ran, answers, turns>>

Unreadable(a) ==
  /\ pc = "reply"
  /\ IF Unseen(<<"bad", a>>)
     THEN /\ Continue("correction") /\ Recorded(<<"correction">>)
          /\ repairs' = repairs \cup {<<"bad", a>>}
     ELSE /\ End /\ Say(<<"raw">>)
          /\ UNCHANGED <<replayed, saved, pending, reconcile, apart, turns>>
  /\ UNCHANGED awaited

\* A final answer without its report, while a step is left to add it, and one a
\* Stop hook refused, whose reason is recorded as its prompt.
Corrected ==
  /\ pc = "reply"
  /\ Continue("correction") /\ Recorded(<<"correction">>)
  /\ Acted /\ UNCHANGED repairs

\* A report with open follow-on tasks, while a step is left: the instruction is not
\* in the event that records them.
FollowOn ==
  /\ pc = "reply" /\ step < MaxSteps
  /\ Continue("follow_on") /\ Acted /\ UNCHANGED <<replayed, repairs>>

\* The review of the retained work does not accept the answer.
Withheld ==
  /\ pc = "reply"
  /\ Continue("withheld") /\ Acted /\ UNCHANGED <<replayed, repairs>>

\* A message to the operator, and the turn goes on.
Speak ==
  /\ pc = "reply"
  /\ messages' = Answered(Append(messages, "raw")) /\ replayed' = Answered(replayed)
  /\ Go("step") /\ step' = NextStep /\ Acted
  /\ UNCHANGED <<saved, pending, reconcile, apart,
                 routes, repairs, left, ran, answers, turns>>

\* The final answer, and the compaction that may follow it: its failure is the
\* turn's, though the answer is recorded.
Finish ==
  /\ pc = "reply"
  /\ LET w == Answered(Append(messages, "raw"))
         r == Answered(replayed) IN
     \/ messages' \in Pruned(w) /\ replayed' = r /\ UNCHANGED <<pending, apart>>
     \/ \E c \in Context : Compacted(c, <<>>)
     \/ messages' \in Pruned(w) /\ replayed' = <<"summary">> /\ apart' = TRUE /\ UNCHANGED pending
     \/ Snapshot(<<"summary">>) /\ pending' = TRUE
  /\ End /\ Acted /\ UNCHANGED <<saved, reconcile, turns>>

\* The answer is refused for good: no step left, work that cannot go on, a check
\* that failed.
Refused ==
  /\ pc = "reply" /\ Say(<<"raw">>) /\ End /\ Acted
  /\ UNCHANGED <<replayed, saved, pending, reconcile, apart, turns>>

-----------------------------------------------------------------------------
(* Tools.                                                                       *)

\* One tool is answered by its own result, several in one message.
Call(n, several) ==
  /\ pc = "reply" /\ Say(<<"raw">>)
  /\ awaited' = Awaited(IF several THEN n ELSE 0)
  /\ left' = n /\ ran' = FALSE /\ Go("tools")
  /\ UNCHANGED <<replayed, saved, pending, reconcile, apart,
                 step, routes, repairs, answers, turns>>

\* A tool ran, or was refused; its result is recorded, the last one with the message.
Tool(runs) ==
  /\ pc = "tools" /\ left > 0
  /\ left' = left - 1 /\ ran' = (ran \/ runs)
  /\ awaited' = IF awaited = 0 THEN 0 ELSE awaited - 1
  /\ IF awaited > 1 THEN UNCHANGED replayed ELSE Recorded(<<"result">>)
  /\ UNCHANGED <<messages, saved, pending, reconcile, apart, turns, pc,
                 step, routes, repairs, answers>>

\* The results join the window, those of tools that ran with their evidence.
Results ==
  /\ pc = "tools" /\ left = 0
  /\ Say(<<IF ran THEN "evident" ELSE "result">>)
  /\ step' = NextStep /\ Go("step")
  /\ UNCHANGED <<replayed, saved, awaited, pending, reconcile, apart,
                 routes, repairs, left, ran, answers, turns>>

\* The turn is cancelled before a tool, whose batch is left unfinished.
ToolCancelled ==
  /\ pc = "tools" /\ left > 0 /\ End
  /\ UNCHANGED <<window, turns>>

-----------------------------------------------------------------------------
Between == Checkpoint \/ (\E w \in saved : Rewind(w)) \/ Fork \/ Reset \/ Handoff \/ CompactNow

Turn ==
  \/ RecordTask \/ Plan \/ PlanFails
  \/ Exhausted \/ StepRefused \/ Ready \/ Reply
  \/ Promote \/ CompactAndContinue \/ CallFails \/ \E cause \in Cause : CutOff(cause)
  \/ Corrected \/ FollowOn \/ Withheld \/ Speak \/ Finish \/ Refused
  \/ \E a \in Answer : Unreadable(a)
  \/ Call(1, FALSE) \/ \E n \in 1..MaxTools : Call(n, TRUE)
  \/ \E runs \in BOOLEAN : Tool(runs)
  \/ Results \/ ToolCancelled

Next ==
  \/ Between \/ Resume
  \/ StartFails \/ \E continuing \in BOOLEAN, c \in Context : StartTurn(continuing, c)
  \/ Turn

Spec == Init /\ [][Next]_vars

\* A turn's thread runs on: the model and the tools answer or fail.
FairSpec == Spec /\ WF_vars(Turn)

-----------------------------------------------------------------------------
Places == {"idle", "record", "plan", "step", "call", "reply", "tools"}

\* The types of the variables; while a turn runs its start context is restored.
TypeOK ==
  /\ messages \in Seq(Message) /\ replayed \in Seq(Message)
  /\ \A w \in saved : w \in Seq(Message)
  /\ awaited \in 0..MaxTools /\ left \in 0..MaxTools
  /\ pending \in BOOLEAN /\ reconcile \in BOOLEAN /\ apart \in BOOLEAN /\ ran \in BOOLEAN
  /\ turns \in 0..MaxTurns /\ pc \in Places
  /\ step \in 1..(MaxSteps + 1) /\ routes \in 0..Promotions
  /\ repairs \subseteq ({"cut"} \X Cause) \cup ({"bad"} \X Answer)
  /\ pc # "idle" => ~pending

\* What the ledger keeps of a message: not an instruction it has no prompt of, and of
\* a tool result neither its evidence nor that it was pruned.
KeptOf(m) ==
  CASE m \in {"follow_on", "withheld"} -> <<>>
    [] m \in Result -> <<"result">>
    [] OTHER -> <<m>>

\* What it keeps of a window.
Kept(w) ==
  LET kept[i \in 0..Len(w)] == IF i = 0 THEN <<>> ELSE kept[i - 1] \o KeptOf(w[i])
  IN  kept[Len(w)]

\* Between turns and at every model call, a resumed conversation would be sent the
\* exchange the live one is: whatever was corrected, cancelled halfway, compacted
\* or rewound, nothing else is lost, repeated or out of order.
ReplayKeeps ==
  pc \in {"idle", "call"} /\ ~apart => Kept(replayed) = Kept(messages)

\* A turn that ends for its step budget has read as many answers: calls that failed,
\* and recoveries from them, spend none of it.
BudgetIsAnswers ==
  answers <= MaxSteps /\ (step > MaxSteps => answers = MaxSteps)

\* A turn comes to its end, however its calls fail and its answers are corrected.
TurnEnds == pc # "idle" ~> pc = "idle"
=============================================================================
