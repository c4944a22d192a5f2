--------------------------- MODULE AgentTurnProofs ---------------------------
(* Proofs about AgentTurn, for any budget, routes, failures and bounds: the     *)
(* types, what a turn's budget pays for, and that a resumed conversation is     *)
(* sent the exchange of the live one.                                           *)
EXTENDS AgentTurn, WellFoundedInduction, SequenceTheorems, TLAPS

-----------------------------------------------------------------------------
(* The window.                                                                  *)

Windows == Seq(Message)

WindowTypes ==
  /\ messages \in Windows /\ replayed \in Windows
  /\ saved \subseteq Windows
  /\ awaited \in 0..MaxTools
  /\ pending \in BOOLEAN /\ reconcile \in BOOLEAN /\ apart \in BOOLEAN

\* Every message the actions add is one.
LEMMA MessageSeqs ==
  /\ <<>> \in Windows
  /\ \A m \in Message : <<m>> \in Windows
  /\ \A m, n \in Message : <<m, n>> \in Windows
  /\ \A v, w \in Windows : v \o w \in Windows
  /\ Message = {"task", "continue", "result", "evident", "cut", "correction", "follow_on",
                "withheld", "raw", "answer", "summary", "context"}
  BY DEF Windows, Message, User, Assistant, System, Task, Result, Told

\* An answer in place of the raw one, or behind it.
LEMMA AnsweredSeq ==
  ASSUME NEW w \in Windows
  PROVE  Answered(w) \in Windows
<1> USE DEF Windows
<1>1. "answer" \in Message
  BY MessageSeqs
<1>2. CASE w # <<>> /\ Last(w) \in Assistant
  <2>1. Front(w) \in Windows
    BY <1>2 DEF Front
  <2> QED  BY <1>1, <1>2, <2>1 DEF Answered
<1>3. CASE ~(w # <<>> /\ Last(w) \in Assistant)
  BY <1>1, <1>3 DEF Answered
<1> QED  BY <1>2, <1>3

\* What a start context or a resume adds.
LEMMA ContextSeq == \A c \in Context : c \in Windows
  BY MessageSeqs DEF Context

\* Pruning cuts results where they are.
LEMMA PrunedSeq ==
  ASSUME NEW w \in Windows, NEW p \in Pruned(w)
  PROVE  p \in Windows
<1> USE DEF Windows
<1>1. "cut" \in Message
  BY MessageSeqs
<1>2. PICK cuts : p = [i \in DOMAIN w |-> IF i \in cuts THEN "cut" ELSE w[i]]
  BY DEF Pruned
<1>3. Len(w) \in Nat /\ DOMAIN w = 1..Len(w) /\ \A i \in 1..Len(w) : w[i] \in Message
  BY LenProperties, ElementOfSeq
<1>4. p \in [1..Len(w) -> Message]
  BY <1>1, <1>2, <1>3
<1> QED  BY <1>3, <1>4, SeqDef

\* What a compaction, done or failed, leaves.
LEMMA CompactionTypes ==
  ASSUME WindowTypes, NEW more \in Windows,
         CompactFails \/ \E c \in Context : Compacted(c, more)
  PROVE  /\ messages' \in Windows /\ replayed' \in Windows
         /\ pending' \in BOOLEAN /\ apart' \in BOOLEAN
<1>1. <<"summary">> \in Windows
  BY MessageSeqs
<1>2. CASE CompactFails
  BY <1>1, <1>2, ContextSeq, MessageSeqs DEF CompactFails, Restored, Snapshot, WindowTypes
<1>3. ASSUME NEW c \in Context, Compacted(c, more)
      PROVE  /\ messages' \in Windows /\ replayed' \in Windows
             /\ pending' \in BOOLEAN /\ apart' \in BOOLEAN
  <2>1. <<"summary">> \o c \o more \in Windows
    BY <1>1, ContextSeq, MessageSeqs
  <2> QED  BY <1>3, <2>1 DEF Compacted, Snapshot
<1> QED  BY <1>2, <1>3

\* Between turns.
LEMMA BetweenTypes ==
  ASSUME WindowTypes, MaxTools \in Nat \ {0}, Between \/ Resume
  PROVE  WindowTypes'
<1> DEFINE Flags == pending' \in BOOLEAN /\ reconcile' \in BOOLEAN /\ apart' \in BOOLEAN
           Rest == /\ messages' \in Windows /\ replayed' \in Windows /\ saved' \subseteq Windows
                   /\ awaited' \in 0..MaxTools
<1>0. /\ pending \in BOOLEAN /\ reconcile \in BOOLEAN /\ apart \in BOOLEAN
      /\ messages \in Windows /\ replayed \in Windows /\ saved \subseteq Windows
      /\ awaited \in 0..MaxTools /\ 0 \in 0..MaxTools
      /\ <<>> \in Windows /\ <<"summary">> \in Windows
      /\ \A c \in Context : <<"summary">> \o c \in Windows /\ messages \o c \in Windows
  BY MessageSeqs, ContextSeq DEF WindowTypes
<1>1. CASE Checkpoint
  <2>1. Flags  BY <1>0, <1>1 DEF Checkpoint, Snapshot
  <2>2. Rest  BY <1>0, <1>1 DEF Checkpoint, Snapshot
  <2> QED  BY <2>1, <2>2 DEF WindowTypes
<1>2. ASSUME NEW w \in saved, Rewind(w) PROVE WindowTypes'
  <2>1. Flags  BY <1>0, <1>2 DEF Rewind, Snapshot
  <2>2. Rest  BY <1>0, <1>2 DEF Rewind, Snapshot
  <2> QED  BY <2>1, <2>2 DEF WindowTypes
<1>3. CASE Fork \/ Reset
  <2>1. Flags  BY <1>0, <1>3 DEF Fork, Reset, Child, Snapshot
  <2>2. Rest  BY <1>0, <1>3 DEF Fork, Reset, Child, Snapshot
  <2> QED  BY <2>1, <2>2 DEF WindowTypes
<1>4. CASE Handoff
  <2>1. Flags  BY <1>0, <1>4 DEF Handoff, Snapshot, Restored
  <2>2. Rest  BY <1>0, <1>4 DEF Handoff, Snapshot, Restored
  <2> QED  BY <2>1, <2>2 DEF WindowTypes
<1>5. CASE CompactNow
  BY <1>5, CompactionTypes, MessageSeqs DEF CompactNow, WindowTypes
<1>6. CASE Resume
  <2>1. Flags  BY <1>0, <1>6 DEF Resume, Snapshot
  <2>2. Rest  BY <1>0, <1>6 DEF Resume, Snapshot
  <2> QED  BY <2>1, <2>2 DEF WindowTypes
<1> QED  BY <1>1, <1>2, <1>3, <1>4, <1>5, <1>6 DEF Between

\* The raw answer joins the window.
LEMMA AppendRaw ==
  ASSUME NEW w \in Windows
  PROVE  Append(w, "raw") \in Windows
  BY MessageSeqs DEF Windows

\* In a turn.
LEMMA TurnTypes ==
  ASSUME WindowTypes, MaxTools \in Nat \ {0},
         \/ StartFails
         \/ \E continuing \in BOOLEAN, c \in Context : StartTurn(continuing, c)
         \/ Turn
  PROVE  WindowTypes'
<1> DEFINE Flags == pending' \in BOOLEAN /\ reconcile' \in BOOLEAN /\ apart' \in BOOLEAN
           Rest == /\ messages' \in Windows /\ replayed' \in Windows /\ saved' \subseteq Windows
                   /\ awaited' \in 0..MaxTools
<1>0. /\ pending \in BOOLEAN /\ reconcile \in BOOLEAN /\ apart \in BOOLEAN
      /\ messages \in Windows /\ replayed \in Windows /\ saved \subseteq Windows
      /\ awaited \in 0..MaxTools /\ 0 \in 0..MaxTools /\ 1 \in 0..MaxTools
      /\ {"task", "continue", "result", "evident", "correction", "follow_on", "withheld",
          "raw"} \subseteq Message
      /\ <<>> \in Windows /\ <<"summary">> \in Windows
      /\ \A c \in Context : messages \o c \in Windows
      /\ \A m \in Message : messages \o <<m>> \in Windows /\ replayed \o <<m>> \in Windows
      /\ \A m \in Message : messages \o <<"raw", m>> \in Windows
      /\ \A w \in Windows : Answered(w) \in Windows /\ Pruned(w) \subseteq Windows
  BY MessageSeqs, ContextSeq, AnsweredSeq, PrunedSeq DEF WindowTypes
<1>1. CASE StartFails
  <2>1. Flags  BY <1>0, <1>1 DEF StartFails
  <2>2. Rest  BY <1>0, <1>1 DEF StartFails
  <2> QED  BY <2>1, <2>2 DEF WindowTypes
<1>2. CASE RecordTask
  <2>1. Flags  BY <1>0, <1>2 DEF RecordTask, Recorded
  <2>2. Rest  BY <1>0, <1>2 DEF RecordTask, Recorded
  <2> QED  BY <2>1, <2>2 DEF WindowTypes
<1>3. CASE PlanFails
  <2>1. Flags  BY <1>0, <1>3 DEF PlanFails
  <2>2. Rest  BY <1>0, <1>3 DEF PlanFails
  <2> QED  BY <2>1, <2>2 DEF WindowTypes
<1>4. CASE Exhausted \/ Reply \/ Promote \/ CallFails
  <2>1. Flags  BY <1>0, <1>4 DEF Exhausted, Reply, Promote, CallFails, Recorded, window
  <2>2. Rest  BY <1>0, <1>4 DEF Exhausted, Reply, Promote, CallFails, Recorded, window
  <2> QED  BY <2>1, <2>2 DEF WindowTypes
<1>5. CASE Corrected \/ FollowOn \/ Withheld
  <2>1. Flags  BY <1>0, <1>5 DEF Corrected, FollowOn, Withheld, Continue, Say, Recorded, Acted, Awaited
  <2>2. Rest  BY <1>0, <1>5 DEF Corrected, FollowOn, Withheld, Continue, Say, Recorded, Acted, Awaited
  <2> QED  BY <2>1, <2>2 DEF WindowTypes
<1>6. CASE Refused \/ Results \/ ToolCancelled
  <2>1. Flags  BY <1>0, <1>6 DEF Refused, Results, ToolCancelled, Say, Acted, Awaited, window
  <2>2. Rest  BY <1>0, <1>6 DEF Refused, Results, ToolCancelled, Say, Acted, Awaited, window
  <2> QED  BY <2>1, <2>2 DEF WindowTypes
<1>7. ASSUME NEW continuing \in BOOLEAN, NEW c \in Context, StartTurn(continuing, c)
      PROVE  WindowTypes'
  <2>1. Flags  BY <1>0, <1>7 DEF StartTurn, Restored, Snapshot
  <2>2. Rest  BY <1>0, <1>7 DEF StartTurn, Restored, Snapshot
  <2> QED  BY <2>1, <2>2 DEF WindowTypes
<1>8. ASSUME NEW cause \in Cause, CutOff(cause)
      PROVE  WindowTypes'
  <2>1. Flags  BY <1>0, <1>8 DEF CutOff, Both, Say, Recorded
  <2>2. Rest  BY <1>0, <1>8 DEF CutOff, Both, Say, Recorded
  <2> QED  BY <2>1, <2>2 DEF WindowTypes
<1>9. ASSUME NEW a \in Answer, Unreadable(a)
      PROVE  WindowTypes'
  <2>1. Flags  BY <1>0, <1>9 DEF Unreadable, Continue, Say, Recorded
  <2>2. Rest  BY <1>0, <1>9 DEF Unreadable, Continue, Say, Recorded
  <2> QED  BY <2>1, <2>2 DEF WindowTypes
<1>10. ASSUME NEW n \in 0..MaxTools, NEW several \in BOOLEAN, Call(n, several)
      PROVE  WindowTypes'
  <2>1. Flags  BY <1>0, <1>10 DEF Call, Say, Awaited
  <2>2. Rest  BY <1>0, <1>10 DEF Call, Say, Awaited
  <2> QED  BY <2>1, <2>2 DEF WindowTypes
<1>11. ASSUME NEW runs \in BOOLEAN, Tool(runs) PROVE WindowTypes'
  <2>1. Flags  BY <1>0, <1>11 DEF Tool
  <2>2. awaited' \in 0..MaxTools  BY <1>0, <1>11 DEF Tool
  <2>3. Rest  BY <1>0, <1>11, <2>2 DEF Tool, Recorded
  <2> QED  BY <2>1, <2>3 DEF WindowTypes
<1>12. CASE Plan
  <2>1. \A said \in {<<>>, <<"withheld">>} : messages \o (said \o <<"task">>) \in Windows
    BY <1>0, MessageSeqs
  <2>2. Flags  BY <1>0, <1>12 DEF Plan
  <2>3. Rest  BY <1>0, <1>12, <2>1 DEF Plan, Say
  <2> QED  BY <2>2, <2>3 DEF WindowTypes
<1>13. CASE Speak
  <2>1. Answered(Append(messages, "raw")) \in Windows /\ Answered(replayed) \in Windows
    BY <1>0, AppendRaw
  <2>2. Flags  BY <1>0, <1>13 DEF Speak
  <2>3. Rest  BY <1>0, <1>13, <2>1 DEF Speak, Acted, Awaited
  <2> QED  BY <2>2, <2>3 DEF WindowTypes
<1>14. CASE Finish
  <2> DEFINE w == Answered(Append(messages, "raw"))
  <2>1. w \in Windows /\ Answered(replayed) \in Windows /\ Pruned(w) \subseteq Windows
    BY <1>0, AppendRaw
  <2> HIDE DEF w
  <2>2. \A c \in Context : <<"summary">> \o c \o <<>> \in Windows
    BY <1>0, MessageSeqs, ContextSeq
  <2>3. /\ messages' \in Windows /\ replayed' \in Windows
        /\ pending' \in BOOLEAN /\ apart' \in BOOLEAN
    BY <1>0, <1>14, <2>1, <2>2 DEF Finish, Compacted, Snapshot, w
  <2>4. awaited' = 0 /\ UNCHANGED <<saved, reconcile>>
    BY <1>14 DEF Finish, Acted, Awaited
  <2> QED  BY <1>0, <2>3, <2>4 DEF WindowTypes
<1>15. CASE StepRefused
  <2>1. /\ messages' \in Windows /\ replayed' \in Windows
        /\ pending' \in BOOLEAN /\ apart' \in BOOLEAN
    <3>1. CASE \/ UNCHANGED <<messages, replayed, pending, apart>>
               \/ messages' \in Pruned(messages) /\ UNCHANGED <<replayed, pending, apart>>
      BY <1>0, <3>1
    <3>2. CASE CompactFails \/ \E c \in Context : Compacted(c, <<"continue">>)
      BY <1>0, <3>2, CompactionTypes, MessageSeqs
    <3> QED  BY <1>15, <3>1, <3>2 DEF StepRefused
  <2>2. UNCHANGED <<saved, awaited, reconcile>>
    BY <1>15 DEF StepRefused
  <2> QED  BY <1>0, <2>1, <2>2 DEF WindowTypes
<1>16. CASE Ready
  <2>1. /\ messages' \in Windows /\ replayed' \in Windows
        /\ pending' \in BOOLEAN /\ apart' \in BOOLEAN
    <3>1. CASE \/ UNCHANGED <<messages, replayed, pending, apart>>
               \/ messages' \in Pruned(messages) /\ UNCHANGED <<replayed, pending, apart>>
      BY <1>0, <3>1
    <3>2. CASE CompactFails \/ \E c \in Context : Compacted(c, <<"continue">>)
      BY <1>0, <3>2, CompactionTypes, MessageSeqs
    <3> QED  BY <1>16, <3>1, <3>2 DEF Ready
  <2>2. UNCHANGED <<saved, awaited, reconcile>>
    BY <1>16 DEF Ready
  <2> QED  BY <1>0, <2>1, <2>2 DEF WindowTypes
<1>17. CASE CompactAndContinue
  <2>1. /\ messages' \in Windows /\ replayed' \in Windows
        /\ pending' \in BOOLEAN /\ apart' \in BOOLEAN
    <3>1. CASE \/ UNCHANGED <<messages, replayed, pending, apart>>
               \/ messages' \in Pruned(messages) /\ UNCHANGED <<replayed, pending, apart>>
      BY <1>0, <3>1
    <3>2. CASE CompactFails \/ \E c \in Context : Compacted(c, <<"continue">>)
      BY <1>0, <3>2, CompactionTypes, MessageSeqs
    <3> QED  BY <1>17, <3>1, <3>2 DEF CompactAndContinue
  <2>2. UNCHANGED <<saved, awaited, reconcile>>
    BY <1>17 DEF CompactAndContinue
  <2> QED  BY <1>0, <2>1, <2>2 DEF WindowTypes
<1>18. CASE Call(1, FALSE) \/ \E n \in 1..MaxTools : Call(n, TRUE)
  <2>1. 1..MaxTools \subseteq 0..MaxTools
    OBVIOUS
  <2> QED  BY <1>0, <1>10, <1>18, <2>1
<1> QED
  BY <1>1, <1>2, <1>3, <1>4, <1>5, <1>6, <1>7, <1>8, <1>9, <1>11, <1>12, <1>13, <1>14, <1>15,
     <1>16, <1>17, <1>18 DEF Turn

-----------------------------------------------------------------------------
(* The turn's own variables.                                                    *)

LoopTypes ==
  /\ left \in 0..MaxTools
  /\ turns \in 0..MaxTurns /\ pc \in Places
  /\ routes \in 0..Promotions
  /\ repairs \subseteq ({"cut"} \X Cause) \cup ({"bad"} \X Answer)

\* While a turn runs its start context is restored.
RestoredTypes == pc # "idle" => ~pending

\* Every step under way was paid for by the answers read before it, and from its
\* answer on by that one.
Budget ==
  /\ step \in 1..(MaxSteps + 1) /\ answers \in Nat
  /\ pc \in {"idle", "record", "plan"} => step = 1 /\ answers = 0
  /\ pc = "step" => answers = step - 1
  /\ pc = "call" => answers = step - 1 /\ step <= MaxSteps
  /\ pc \in {"reply", "tools"} => answers = step /\ step <= MaxSteps

\* No step lets calls and answers drift apart.
LEMMA BudgetStep ==
  ASSUME Budget, Next
  PROVE  Budget'
<1> USE BudgetAssumption, BoundAssumption DEF Budget, End, Loop
<1>1. CASE Between \/ StartFails
  <2>1. UNCHANGED <<step, routes, repairs, left, ran, answers>> /\ pc = "idle" /\ pc' = "idle"
    BY <1>1 DEF Between, Checkpoint, Rewind, Fork, Reset, Handoff, CompactNow, StartFails, Idle, Stay, loop
  <2>2. turns' = turns \/ (turns < MaxTurns /\ turns' = turns + 1)
    BY <1>1 DEF Between, Checkpoint, Rewind, Fork, Reset, Handoff, CompactNow, StartFails, Idle, Stay, loop
  <2> QED  BY <2>1, <2>2
<1>2. CASE Resume
  BY <1>2 DEF Resume
<1>3. ASSUME NEW continuing \in BOOLEAN, NEW c \in Context, StartTurn(continuing, c)
      PROVE  Budget'
  BY <1>3 DEF StartTurn, Idle, Go
<1>4. CASE RecordTask \/ Plan \/ PlanFails
  <2>1. /\ pc \in {"record", "plan"} /\ pc' \in {"plan", "step", "idle"} /\ turns' = turns
        /\ \/ UNCHANGED <<step, routes, repairs, left, ran, answers, pending>>
           \/ pc' = "idle" /\ Loop(0)
    BY <1>4 DEF RecordTask, Plan, PlanFails, Go, loop
  <2> QED  BY <2>1
<1>5. CASE Exhausted \/ StepRefused \/ Ready
  BY <1>5 DEF Exhausted, StepRefused, Ready, Began, Go, loop, Compacted, window
<1>6. CASE Reply
  BY <1>6 DEF Reply, Go
<1>7. CASE Promote \/ CallFails
  BY <1>7 DEF Promote, CallFails, Retry, Go, window
<1>8. CASE CompactAndContinue
  BY <1>8 DEF CompactAndContinue, Retry, Go, Compacted
<1>9. ASSUME NEW cause \in Cause, CutOff(cause)
      PROVE  Budget'
  BY <1>9 DEF CutOff, Unseen, Retry, Go
<1>10. CASE Corrected \/ FollowOn \/ Withheld \/ Speak
  BY <1>10 DEF Corrected, FollowOn, Withheld, Speak, Continue, NextStep, Go
<1>11. CASE Finish \/ Refused
  BY <1>11 DEF Finish, Refused
<1>12. ASSUME NEW a \in Answer, Unreadable(a)
      PROVE  Budget'
  BY <1>12 DEF Unreadable, Unseen, Continue, NextStep, Go
<1>13. ASSUME NEW n \in 0..MaxTools, NEW several \in BOOLEAN, Call(n, several)
      PROVE  Budget'
  BY <1>13 DEF Call, Go
<1>14. ASSUME NEW runs \in BOOLEAN, Tool(runs)
      PROVE  Budget'
  BY <1>14 DEF Tool
<1>15. CASE Results \/ ToolCancelled
  BY <1>15 DEF Results, ToolCancelled, NextStep, Go, window
<1>16. CASE Call(1, FALSE) \/ \E n \in 1..MaxTools : Call(n, TRUE)
  <2>1. 1..MaxTools \subseteq 0..MaxTools /\ 1 \in 0..MaxTools
    OBVIOUS
  <2> QED  BY <1>13, <1>16, <2>1
<1> QED
  BY <1>1, <1>2, <1>3, <1>4, <1>5, <1>6, <1>7, <1>8, <1>9, <1>10, <1>11, <1>12, <1>14, <1>15,
     <1>16 DEF Next, Turn

\* The bounds of a turn hold through each of its steps.
LEMMA LoopStep ==
  ASSUME Budget, LoopTypes, Next
  PROVE  LoopTypes'
<1> USE BudgetAssumption, BoundAssumption DEF Budget, LoopTypes, Places, End, Loop
<1>1. CASE Between \/ StartFails
  <2>1. UNCHANGED <<step, routes, repairs, left, ran, answers>> /\ pc = "idle" /\ pc' = "idle"
    BY <1>1 DEF Between, Checkpoint, Rewind, Fork, Reset, Handoff, CompactNow, StartFails, Idle, Stay, loop
  <2>2. turns' = turns \/ (turns < MaxTurns /\ turns' = turns + 1)
    BY <1>1 DEF Between, Checkpoint, Rewind, Fork, Reset, Handoff, CompactNow, StartFails, Idle, Stay, loop
  <2> QED  BY <2>1, <2>2
<1>2. CASE Resume
  BY <1>2 DEF Resume
<1>3. ASSUME NEW continuing \in BOOLEAN, NEW c \in Context, StartTurn(continuing, c)
      PROVE  LoopTypes'
  BY <1>3 DEF StartTurn, Idle, Go
<1>4. CASE RecordTask \/ Plan \/ PlanFails
  <2>1. /\ pc \in {"record", "plan"} /\ pc' \in {"plan", "step", "idle"} /\ turns' = turns
        /\ \/ UNCHANGED <<step, routes, repairs, left, ran, answers, pending>>
           \/ pc' = "idle" /\ Loop(0)
    BY <1>4 DEF RecordTask, Plan, PlanFails, Go, loop
  <2> QED  BY <2>1
<1>5. CASE Exhausted \/ StepRefused \/ Ready
  BY <1>5 DEF Exhausted, StepRefused, Ready, Began, Go, loop, Compacted, window
<1>6. CASE Reply
  BY <1>6 DEF Reply, Go
<1>7. CASE Promote \/ CallFails
  BY <1>7 DEF Promote, CallFails, Retry, Go, window
<1>8. CASE CompactAndContinue
  BY <1>8 DEF CompactAndContinue, Retry, Go, Compacted
<1>9. ASSUME NEW cause \in Cause, CutOff(cause)
      PROVE  LoopTypes'
  BY <1>9 DEF CutOff, Unseen, Retry, Go
<1>10. CASE Corrected \/ FollowOn \/ Withheld \/ Speak
  BY <1>10 DEF Corrected, FollowOn, Withheld, Speak, Continue, NextStep, Go
<1>11. CASE Finish \/ Refused
  BY <1>11 DEF Finish, Refused
<1>12. ASSUME NEW a \in Answer, Unreadable(a)
      PROVE  LoopTypes'
  BY <1>12 DEF Unreadable, Unseen, Continue, NextStep, Go
<1>13. ASSUME NEW n \in 0..MaxTools, NEW several \in BOOLEAN, Call(n, several)
      PROVE  LoopTypes'
  BY <1>13 DEF Call, Go
<1>14. ASSUME NEW runs \in BOOLEAN, Tool(runs)
      PROVE  LoopTypes'
  BY <1>14 DEF Tool
<1>15. CASE Results \/ ToolCancelled
  BY <1>15 DEF Results, ToolCancelled, NextStep, Go, window
<1>16. CASE Call(1, FALSE) \/ \E n \in 1..MaxTools : Call(n, TRUE)
  <2>1. 1..MaxTools \subseteq 0..MaxTools /\ 1 \in 0..MaxTools
    OBVIOUS
  <2> QED  BY <1>13, <1>16, <2>1
<1> QED
  BY <1>1, <1>2, <1>3, <1>4, <1>5, <1>6, <1>7, <1>8, <1>9, <1>10, <1>11, <1>12, <1>14, <1>15,
     <1>16 DEF Next, Turn

\* A compaction that leaves the start context to restore ends its turn.
LEMMA RestoredStep ==
  ASSUME RestoredTypes, Next
  PROVE  RestoredTypes'
<1>1. CASE \/ Between \/ Resume \/ StartFails
           \/ \E continuing \in BOOLEAN, c \in Context : StartTurn(continuing, c)
  BY <1>1 DEF Between, Checkpoint, Rewind, Fork, Reset, Handoff, CompactNow, Stay, Resume, StartFails,
     StartTurn, End, Idle, RestoredTypes
<1>2. CASE Turn
  <2>1. pc # "idle"
    BY <1>2 DEF Turn, RecordTask, Plan, PlanFails, Exhausted, StepRefused, Ready, Reply, Promote,
       CompactAndContinue, CallFails, CutOff, Corrected, FollowOn, Withheld, Speak, Finish, Refused,
       Unreadable, Call, Tool, Results, ToolCancelled
  <2>2. pending' = pending \/ pending' = FALSE \/ pc' = "idle"
    BY <1>2 DEF Turn, RecordTask, Plan, PlanFails, Exhausted, StepRefused, Ready, Reply, Promote,
       CompactAndContinue, CallFails, CutOff, Corrected, FollowOn, Withheld, Speak, Finish, Refused,
       Unreadable, Call, Tool, Results, ToolCancelled, Continue, End, Compacted, window
  <2> QED  BY <2>1, <2>2 DEF RestoredTypes
<1> QED  BY <1>1, <1>2 DEF Next

\* Whether a tool ran is known.
LEMMA RanStep ==
  ASSUME ran \in BOOLEAN, Next
  PROVE  (ran \in BOOLEAN)'
<1>1. ran' = ran \/ ran' = FALSE \/ \E runs \in BOOLEAN : ran' = (ran \/ runs)
  <2>1. CASE \/ Between \/ Resume \/ StartFails
             \/ \E continuing \in BOOLEAN, c \in Context : StartTurn(continuing, c)
    BY <2>1 DEF Between, Checkpoint, Rewind, Fork, Reset, Handoff, CompactNow, Stay, Resume, StartFails,
       StartTurn, End, Loop, loop
  <2>2. CASE Turn
    BY <2>2 DEF Turn, RecordTask, Plan, PlanFails, Exhausted, StepRefused, Ready, Reply, Promote,
       CompactAndContinue, CallFails, CutOff, Corrected, FollowOn, Withheld, Speak, Finish, Refused,
       Unreadable, Call, Tool, Results, ToolCancelled, Continue, End, Loop, loop
  <2> QED  BY <2>1, <2>2 DEF Next
<1>2. CASE ran' = ran
  BY <1>2
<1>3. CASE ran' = FALSE
  BY <1>3
<1>4. CASE \E runs \in BOOLEAN : ran' = (ran \/ runs)
  BY <1>4
<1> QED  BY <1>1, <1>2, <1>3, <1>4

-----------------------------------------------------------------------------
(* The specification.                                                           *)

\* What every state of a conversation satisfies and every step keeps.
IInv == WindowTypes /\ LoopTypes /\ ran \in BOOLEAN /\ RestoredTypes /\ Budget

\* A new conversation satisfies it.
LEMMA InitInv == Init => IInv
<1> SUFFICES ASSUME Init PROVE IInv
  OBVIOUS
<1>1. WindowTypes
  <2>1. saved = {} /\ saved \subseteq Windows /\ 0 \in 0..MaxTools
    BY BoundAssumption DEF Init
  <2>2. messages \in Windows /\ replayed \in Windows
    BY MessageSeqs DEF Init
  <2>3. pending \in BOOLEAN /\ reconcile \in BOOLEAN /\ apart \in BOOLEAN
    BY DEF Init
  <2> QED  BY <2>1, <2>2, <2>3 DEF Init, WindowTypes
<1>2. LoopTypes /\ ran \in BOOLEAN /\ RestoredTypes
  <2>1. LoopTypes
    BY BudgetAssumption, BoundAssumption DEF Init, LoopTypes, Places
  <2>2. ran \in BOOLEAN /\ RestoredTypes
    BY DEF Init, RestoredTypes
  <2> QED  BY <2>1, <2>2
<1>3. Budget
  BY BudgetAssumption DEF Init, Budget
<1> QED  BY <1>1, <1>2, <1>3 DEF IInv

\* Every step, and no step, keeps the invariant.
LEMMA NextInv ==
  ASSUME IInv, [Next]_vars
  PROVE  IInv'
<1>1. CASE Next
  <2>1. WindowTypes'
    BY <1>1, BetweenTypes, TurnTypes, BoundAssumption DEF IInv, Next
  <2> QED  BY <1>1, <2>1, LoopStep, RestoredStep, RanStep, BudgetStep DEF IInv
<1>2. CASE UNCHANGED vars
  <2>1. UNCHANGED <<messages, replayed, saved, awaited, pending, reconcile, apart,
                    step, routes, repairs, left, ran, answers, turns, pc>>
    BY <1>2 DEF vars, window, loop
  <2>2. WindowTypes'  BY <2>1 DEF IInv, WindowTypes
  <2>3. LoopTypes'  BY <2>1 DEF IInv, LoopTypes
  <2>5. (ran \in BOOLEAN)' /\ RestoredTypes'  BY <2>1 DEF IInv, RestoredTypes
  <2>4. Budget'  BY <2>1 DEF IInv, Budget
  <2> QED  BY <2>2, <2>3, <2>4, <2>5 DEF IInv
<1> QED  BY <1>1, <1>2

\* So every state of every run of a conversation does.
LEMMA SpecInv == Spec => []IInv
  BY InitInv, NextInv, PTL DEF Spec

\* The types of the variables, for any budget, routes, failures and bounds.
THEOREM TurnTypeCorrect == Spec => []TypeOK
<1>1. IInv => TypeOK
  BY DEF IInv, WindowTypes, Windows, LoopTypes, RestoredTypes, Budget, TypeOK
<1> QED  BY <1>1, SpecInv, PTL

\* Failed calls, corrections of cut-off answers, promotions and compactions spend
\* none of a turn's budget, and no answer is read beyond it, whatever the budget is.
THEOREM BudgetPaysAnswers == Spec => []BudgetIsAnswers
<1>1. IInv => BudgetIsAnswers
  BY BudgetAssumption DEF IInv, LoopTypes, Places, Budget, BudgetIsAnswers
<1> QED  BY <1>1, SpecInv, PTL

-----------------------------------------------------------------------------
(* What a ledger keeps of a window.                                             *)

\* A set of numbers that has the first, and with each the next, has them all.
LEMMA Numbers ==
  ASSUME NEW T, 0 \in T, \A n \in Nat : n \in T => n + 1 \in T
  PROVE  Nat \subseteq T
<1> DEFINE Out == Nat \ T
           R == OpToRel(<, Nat)
<1>1. SUFFICES ASSUME Out # {} PROVE FALSE
  OBVIOUS
<1>2. IsWellFoundedOn(R, Nat)
  BY NatLessThanWellFounded
<1> HIDE DEF R
<1>3. PICK x \in Out : \A y \in Out : <<y, x>> \notin R
  BY <1>1, <1>2, WFMin
<1>4. x - 1 \in Nat /\ x - 1 < x /\ (x - 1) + 1 = x
  OBVIOUS
<1>5. <<x - 1, x>> \in R
  BY <1>4 DEF R, OpToRel
<1> QED  BY <1>3, <1>4, <1>5

\* The recursion of Kept: what is kept of the first i messages.
KeptTo(w, f, i) == IF i = 0 THEN <<>> ELSE f[i - 1] \o KeptOf(w[i])
Keeps(w, n, f) == f = [i \in 0..n |-> KeptTo(w, f, i)]

LEMMA KeepsAt ==
  ASSUME NEW w, NEW n, NEW f, Keeps(w, n, f), NEW i \in 0..n
  PROVE  f[i] = KeptTo(w, f, i)
BY Zenon DEF Keeps

LEMMA KeptKeeps ==
  \A w : Kept(w) = (CHOOSE f : Keeps(w, Len(w), f))[Len(w)]
BY DEF Kept, Keeps, KeptTo

\* It is defined for every window.
LEMMA KeepsExists ==
  ASSUME NEW w, NEW n \in Nat
  PROVE  \E f : Keeps(w, n, f)
<1> DEFINE T == {m \in Nat : \E f : Keeps(w, m, f)}
<1>1. 0 \in T
  <2> DEFINE f0 == [i \in 0..0 |-> <<>>]
  <2>1. Keeps(w, 0, f0)
    BY DEF Keeps, KeptTo
  <2> HIDE DEF f0
  <2> QED  BY <2>1
<1>2. ASSUME NEW m \in Nat, m \in T PROVE m + 1 \in T
  <2>1. PICK f : Keeps(w, m, f)
    BY <1>2
  <2> DEFINE g == [i \in 0..(m + 1) |-> KeptTo(w, f, i)]
  <2>2. /\ \A i \in 0..(m + 1) : g[i] = KeptTo(w, f, i)
        /\ DOMAIN g = 0..(m + 1) /\ g = [i \in 0..(m + 1) |-> g[i]]
    OBVIOUS
  <2> HIDE DEF g
  <2>3. \A i \in 0..m : f[i] = g[i]
    BY <2>1, <2>2, KeepsAt
  <2>4. ASSUME NEW i \in 0..(m + 1) PROVE g[i] = KeptTo(w, g, i)
    <3>1. i # 0 => i - 1 \in 0..m
      OBVIOUS
    <3> QED  BY <2>2, <2>3, <3>1 DEF KeptTo
  <2>5. Keeps(w, m + 1, g)
    BY <2>2, <2>4 DEF Keeps
  <2> QED  BY <2>5
<1>3. Nat \subseteq T
  <2> HIDE DEF T
  <2> QED  BY <1>1, <1>2, Numbers
<1>4. n \in T
  BY <1>3
<1> QED  BY <1>4

LEMMA KeptIs ==
  ASSUME NEW w \in Windows
  PROVE  \E f : Keeps(w, Len(w), f) /\ Kept(w) = f[Len(w)]
<1>1. Len(w) \in Nat
  BY DEF Windows
<1>2. \E f : Keeps(w, Len(w), f)
  BY <1>1, KeepsExists
<1> DEFINE c == CHOOSE f : Keeps(w, Len(w), f)
<1>3. Keeps(w, Len(w), c)
  BY <1>2
<1>4. Kept(w) = c[Len(w)]
  BY KeptKeeps
<1> QED  BY <1>3, <1>4

\* Windows that agree on their first messages agree on what is kept of those.
LEMMA KeepsAlike ==
  ASSUME NEW v, NEW w, NEW m \in Nat, NEW n \in Nat, NEW f, NEW g,
         Keeps(v, m, f), Keeps(w, n, g), NEW k \in Nat, k <= m, k <= n,
         \A i \in 1..k : KeptOf(v[i]) = KeptOf(w[i])
  PROVE  f[k] = g[k]
<1> DEFINE T == {j \in Nat : j <= k => f[j] = g[j]}
<1>1. 0 \in T
  BY KeepsAt DEF KeptTo
<1>2. ASSUME NEW j \in Nat, j \in T PROVE j + 1 \in T
  <2>1. ASSUME j + 1 <= k PROVE f[j + 1] = g[j + 1]
    <3>1. j + 1 \in 0..m /\ j + 1 \in 0..n /\ j + 1 # 0 /\ (j + 1) - 1 = j /\ j + 1 \in 1..k
      BY <2>1
    <3>2. f[j + 1] = KeptTo(v, f, j + 1) /\ g[j + 1] = KeptTo(w, g, j + 1)
      BY <3>1, KeepsAt
    <3>3. f[j + 1] = f[j] \o KeptOf(v[j + 1]) /\ g[j + 1] = g[j] \o KeptOf(w[j + 1])
      BY <3>1, <3>2 DEF KeptTo
    <3>4. f[j] = g[j]
      BY <1>2, <2>1
    <3>5. KeptOf(v[j + 1]) = KeptOf(w[j + 1])
      BY <3>1
    <3> QED  BY <3>3, <3>4, <3>5
  <2> QED  BY <2>1
<1>3. Nat \subseteq T
  <2> HIDE DEF T
  <2> QED  BY <1>1, <1>2, Numbers
<1>4. k \in T
  BY <1>3
<1> QED  BY <1>4

\* Nothing is kept of nothing.
LEMMA KeptEmpty == Kept(<<>>) = <<>>
<1>1. <<>> \in Windows /\ Len(<<>>) = 0
  BY MessageSeqs
<1>2. PICK f : Keeps(<<>>, 0, f) /\ Kept(<<>>) = f[0]
  BY <1>1, KeptIs
<1>3. 0 \in 0..0
  OBVIOUS
<1> QED  BY <1>2, <1>3, KeepsAt DEF KeptTo

\* Of one message more, what is kept of that one.
LEMMA KeptMore ==
  ASSUME NEW w \in Windows, NEW m \in Message
  PROVE  Kept(w \o <<m>>) = Kept(w) \o KeptOf(m)
<1> DEFINE v == w \o <<m>>
           n == Len(w)
<1>1. /\ v \in Windows /\ n \in Nat /\ Len(v) = n + 1
      /\ \A i \in 1..n : v[i] = w[i]
      /\ v[n + 1] = m
  BY DEF Windows
<1> HIDE DEF v, n
<1>2. PICK f : Keeps(v, n + 1, f) /\ Kept(v) = f[n + 1]
  BY <1>1, KeptIs
<1>3. PICK g : Keeps(w, n, g) /\ Kept(w) = g[n]
  BY KeptIs DEF n
<1>4. f[n + 1] = f[n] \o KeptOf(m)
  <2>1. n + 1 \in 0..(n + 1) /\ n + 1 # 0 /\ (n + 1) - 1 = n
    BY <1>1
  <2>2. f[n + 1] = KeptTo(v, f, n + 1)
    BY <1>1, <1>2, <2>1, KeepsAt
  <2> QED  BY <1>1, <2>1, <2>2 DEF KeptTo
<1>5. f[n] = g[n]
  <2>1. n <= n + 1 /\ n <= n /\ n + 1 \in Nat
    BY <1>1
  <2>2. \A i \in 1..n : KeptOf(v[i]) = KeptOf(w[i])
    BY <1>1
  <2>3. Keeps(v, n + 1, f) /\ Keeps(w, n, g) /\ n \in Nat
    BY <1>1, <1>2, <1>3
  <2> DEFINE l == n + 1
  <2>4. Keeps(v, l, f) /\ n <= l /\ l \in Nat
    BY <2>1, <2>3
  <2> HIDE DEF l
  <2> QED  BY <2>1, <2>2, <2>3, <2>4, KeepsAlike
<1> QED  BY <1>2, <1>3, <1>4, <1>5 DEF v

\* Windows of as many messages, kept alike one by one, are kept alike.
LEMMA KeptAlike ==
  ASSUME NEW v \in Windows, NEW w \in Windows, Len(v) = Len(w),
         \A i \in 1..Len(w) : KeptOf(v[i]) = KeptOf(w[i])
  PROVE  Kept(v) = Kept(w)
<1>1. Len(w) \in Nat
  BY DEF Windows
<1>2. PICK f : Keeps(v, Len(w), f) /\ Kept(v) = f[Len(w)]
  BY KeptIs
<1>3. PICK g : Keeps(w, Len(w), g) /\ Kept(w) = g[Len(w)]
  BY KeptIs
<1> QED  BY <1>1, <1>2, <1>3, KeepsAlike

\* Of a message a message or nothing is kept.
LEMMA KeptOfMessage ==
  /\ \A m \in Message : KeptOf(m) \in Windows
  /\ KeptOf("follow_on") = <<>> /\ KeptOf("withheld") = <<>>
  /\ \A m \in {"task", "continue", "correction", "raw", "answer", "result", "summary", "context"} :
       KeptOf(m) = <<m>>
  /\ KeptOf("evident") = <<"result">> /\ KeptOf("cut") = <<"result">>
<1>1. /\ KeptOf("follow_on") = <<>> /\ KeptOf("withheld") = <<>>
      /\ KeptOf("evident") = <<"result">> /\ KeptOf("cut") = <<"result">>
      /\ KeptOf("result") = <<"result">>
  BY DEF KeptOf, Result
<1>2. \A m \in {"task", "continue", "correction", "raw", "answer", "summary", "context"} :
        KeptOf(m) = <<m>>
  BY DEF KeptOf, Result
<1>3. \A m \in Message : KeptOf(m) \in Windows
  BY <1>1, <1>2, MessageSeqs
<1> QED  BY <1>1, <1>2, <1>3

\* What is kept of a window is one.
LEMMA KeptWindow ==
  ASSUME NEW w \in Windows
  PROVE  Kept(w) \in Windows
<1>1. PICK f : Keeps(w, Len(w), f) /\ Kept(w) = f[Len(w)]
  BY KeptIs
<1>2. Len(w) \in Nat /\ \A i \in 1..Len(w) : w[i] \in Message
  BY DEF Windows
<1> DEFINE T == {j \in Nat : j <= Len(w) => f[j] \in Windows}
<1>3. 0 \in T
  BY <1>1, <1>2, KeepsAt, MessageSeqs DEF KeptTo
<1>4. ASSUME NEW j \in Nat, j \in T PROVE j + 1 \in T
  <2>1. ASSUME j + 1 <= Len(w) PROVE f[j + 1] \in Windows
    <3>1. j + 1 \in 0..Len(w) /\ j + 1 # 0 /\ (j + 1) - 1 = j /\ j + 1 \in 1..Len(w)
      BY <1>2, <2>1
    <3>2. f[j + 1] = f[j] \o KeptOf(w[j + 1])
      <4>1. f[j + 1] = KeptTo(w, f, j + 1)
        BY <1>1, <3>1, KeepsAt
      <4> QED  BY <3>1, <4>1 DEF KeptTo
    <3>3. f[j] \in Windows /\ KeptOf(w[j + 1]) \in Windows
      BY <1>2, <1>4, <2>1, <3>1, KeptOfMessage
    <3> QED  BY <3>2, <3>3, MessageSeqs
  <2> QED  BY <2>1
<1>5. Nat \subseteq T
  <2> HIDE DEF T
  <2> QED  BY <1>3, <1>4, Numbers
<1>6. Len(w) \in T
  BY <1>2, <1>5
<1> QED  BY <1>1, <1>6

\* Pruning changes nothing that is kept.
LEMMA KeptPruned ==
  ASSUME NEW w \in Windows, NEW p \in Pruned(w)
  PROVE  Kept(p) = Kept(w)
<1> DEFINE Outputs == {i \in DOMAIN w : w[i] \in Result}
<1>1. Len(w) \in Nat /\ DOMAIN w = 1..Len(w)
  BY DEF Windows
<1>2. PICK cuts \in SUBSET Outputs : p = [i \in DOMAIN w |-> IF i \in cuts THEN "cut" ELSE w[i]]
  BY DEF Pruned
<1>3. p \in Windows
  BY PrunedSeq
<1>4. DOMAIN p = 1..Len(w) /\ \A i \in 1..Len(w) : p[i] = IF i \in cuts THEN "cut" ELSE w[i]
  BY <1>1, <1>2
<1>5. Len(p) = Len(w)
  BY <1>1, <1>3, <1>4 DEF Windows
<1>6. ASSUME NEW i \in 1..Len(w) PROVE KeptOf(p[i]) = KeptOf(w[i])
  <2>1. CASE i \in cuts
    <3>1. p[i] = "cut" /\ w[i] \in Result
      BY <1>4, <2>1
    <3> QED  BY <3>1 DEF KeptOf, Result
  <2>2. CASE i \notin cuts
    BY <1>4, <2>2
  <2> QED  BY <2>1, <2>2
<1> QED  BY <1>3, <1>5, <1>6, KeptAlike

\* An answer takes the place of the raw one.
LEMMA AnsweredRaw ==
  ASSUME NEW w \in Windows
  PROVE  Answered(Append(w, "raw")) = w \o <<"answer">>
<1>1. "raw" \in Message /\ "answer" \in Message /\ "raw" \in Assistant
  BY MessageSeqs DEF Assistant
<1> DEFINE v == Append(w, "raw")
<1>2. v # <<>> /\ Last(v) = "raw"
  BY <1>1 DEF Windows, Last
<1>3. Front(v) = w
  BY <1>1 DEF Windows, Front
<1> HIDE DEF v
<1>4. Answered(v) = Append(w, "answer")
  BY <1>1, <1>2, <1>3 DEF Answered
<1> QED  BY <1>1, <1>4, AppendIsConcat DEF v, Windows

\* A window that ends in a raw answer, and one it is kept alike with.
LEMMA AnsweredLast ==
  ASSUME NEW r \in Windows, NEW u \in Windows, r # <<>>, Last(r) = "raw", Kept(r) = u \o <<"raw">>
  PROVE  Kept(Answered(r)) = u \o <<"answer">>
<1>1. "raw" \in Message /\ "answer" \in Message /\ "raw" \in Assistant
      /\ <<"raw">> \in Windows /\ <<"answer">> \in Windows
  BY MessageSeqs DEF Assistant
<1>2. PICK v \in Windows, e \in Message : r = Append(v, e)
  BY SequenceEmptyOrAppend DEF Windows
<1>3. e = "raw"
  BY <1>2 DEF Last, Windows
<1>4. r = v \o <<"raw">>
  BY <1>1, <1>2, <1>3, AppendIsConcat DEF Windows
<1>5. Kept(r) = Kept(v) \o <<"raw">>
  BY <1>1, <1>4, KeptMore, KeptOfMessage
<1>6. Kept(v) \in Windows
  BY KeptWindow
<1>7. Kept(v) = u
  BY <1>1, <1>5, <1>6, ConcatSimplifications DEF Windows
<1>8. Answered(r) = v \o <<"answer">>
  BY <1>2, <1>3, AnsweredRaw
<1> QED  BY <1>1, <1>7, <1>8, KeptMore, KeptOfMessage

-----------------------------------------------------------------------------
(* The window beside its ledger.                                                *)

\* Where the two are even: elsewhere the ledger is ahead by the task that is planned,
\* by the answer under way, or by the result of a batch that ran.
Even == {"idle", "record", "step", "call"}

\* Unless a failure left them apart, the ledger keeps what the window does, and is
\* ahead by what is recorded before it is said.
Follows == apart = FALSE =>
  /\ pc \in Even => Kept(replayed) = Kept(messages)
  /\ pc = "plan" => Kept(replayed) = Kept(messages) \o <<"task">>
  /\ pc = "reply" => /\ replayed # <<>> /\ Last(replayed) = "raw"
                     /\ Kept(replayed) = Kept(messages) \o <<"raw">>
  /\ pc = "tools" => \/ left = 0 /\ Kept(replayed) = Kept(messages) \o <<"result">>
                     \/ /\ left > 0 /\ Kept(replayed) = Kept(messages)
                        /\ awaited = left \/ (awaited = 0 /\ left = 1)

\* What a step of an even place does to the two.
Moves ==
  \/ messages' = replayed'
  \/ apart' = TRUE
  \/ UNCHANGED <<messages, replayed, apart>>
  \/ messages' \in Pruned(messages) /\ UNCHANGED <<replayed, apart>>

LEMMA EvenStep ==
  ASSUME WindowTypes, Follows, pc \in Even, pc' \in Even, Moves
  PROVE  Follows'
<1>0. pc' # "plan" /\ pc' # "reply" /\ pc' # "tools"
  BY DEF Even
<1>1. apart' = FALSE => Kept(replayed') = Kept(messages')
  <2>1. CASE messages' = replayed'
    BY <2>1
  <2>2. CASE UNCHANGED <<messages, replayed, apart>>
    BY <2>2 DEF Follows
  <2>3. CASE messages' \in Pruned(messages) /\ UNCHANGED <<replayed, apart>>
    <3>1. Kept(messages') = Kept(messages)
      BY <2>3, KeptPruned DEF WindowTypes
    <3> QED  BY <2>3, <3>1 DEF Follows
  <2> QED  BY <2>1, <2>2, <2>3 DEF Moves
<1>2. (Kept(replayed) = Kept(messages))' <=> Kept(replayed') = Kept(messages')
  OBVIOUS
<1> QED  BY <1>0, <1>1, <1>2 DEF Follows

LEMMA CompactionMoves ==
  ASSUME NEW more, CompactFails \/ \E c \in Context : Compacted(c, more)
  PROVE  Moves
  BY DEF CompactFails, Restored, Compacted, Snapshot, Moves

\* Between turns, at the start of one, and at a stop.
LEMMA BetweenFollows ==
  ASSUME WindowTypes, Follows,
         \/ Between \/ Resume \/ StartFails
         \/ \E continuing \in BOOLEAN, c \in Context : StartTurn(continuing, c)
  PROVE  Follows'
<1>1. CASE Resume
  <2>1. messages' = replayed' /\ pc' = "idle"
    BY <1>1 DEF Resume, Snapshot, End
  <2> QED  BY <2>1 DEF Follows, Even
<1>2. CASE Between
  <2>1. pc = "idle" /\ pc' = "idle"
    BY <1>2 DEF Between, Checkpoint, Rewind, Fork, Reset, Handoff, CompactNow, Idle, Stay
  <2>2. Moves
    <3>1. CASE Checkpoint \/ (\E w \in saved : Rewind(w)) \/ Fork \/ Reset
      BY <3>1 DEF Checkpoint, Rewind, Fork, Reset, Child, Snapshot, Moves
    <3>2. CASE Handoff
      BY <3>2 DEF Handoff, Snapshot, Restored, Moves
    <3>3. CASE CompactNow
      BY <3>3, CompactionMoves DEF CompactNow
    <3> QED  BY <1>2, <3>1, <3>2, <3>3 DEF Between
  <2> QED  BY <2>1, <2>2, EvenStep DEF Even
<1>3. CASE StartFails
  <2>1. pc = "idle" /\ pc' = "idle" /\ Moves
    BY <1>3 DEF StartFails, Idle, Moves
  <2> QED  BY <2>1, EvenStep DEF Even
<1>4. ASSUME NEW continuing \in BOOLEAN, NEW c \in Context, StartTurn(continuing, c)
      PROVE  Follows'
  <2>1. pc = "idle" /\ pc' \in {"idle", "record"}
    BY <1>4 DEF StartTurn, Idle, End, Go
  <2>2. Moves
    BY <1>4 DEF StartTurn, Restored, Snapshot, Moves
  <2> QED  BY <2>1, <2>2, EvenStep DEF Even
<1> QED  BY <1>1, <1>2, <1>3, <1>4

\* The task, planned and said.
LEMMA PlanFollows ==
  ASSUME WindowTypes, Follows, RecordTask \/ Plan \/ PlanFails
  PROVE  Follows'
<1>0. messages \in Windows /\ replayed \in Windows /\ "task" \in Message /\ "withheld" \in Message
  BY MessageSeqs DEF WindowTypes
<1>1. CASE RecordTask
  <2>1. /\ pc = "record" /\ pc' = "plan" /\ replayed' = replayed \o <<"task">>
        /\ messages' = messages /\ apart' = apart
    BY <1>1 DEF RecordTask, Recorded, Go
  <2>2. Kept(replayed') = Kept(replayed) \o <<"task">>
    BY <1>0, <2>1, KeptMore, KeptOfMessage
  <2> QED  BY <2>1, <2>2 DEF Follows, Even
<1>2. CASE Plan
  <2>1. /\ pc = "plan" /\ pc' = "step" /\ replayed' = replayed /\ apart' = apart
    BY <1>2 DEF Plan, Go
  <2>2. Kept(messages') = Kept(messages) \o <<"task">>
    <3>1. messages' = messages \o (<<>> \o <<"task">>) \/ messages' = messages \o (<<"withheld">> \o <<"task">>)
      BY <1>2 DEF Plan, Say
    <3>2. CASE messages' = messages \o (<<>> \o <<"task">>)
      <4>1. messages' = messages \o <<"task">>
        BY <1>0, <3>2, MessageSeqs DEF Windows
      <4> QED  BY <1>0, <4>1, KeptMore, KeptOfMessage
    <3>3. CASE messages' = messages \o (<<"withheld">> \o <<"task">>)
      <4>1. <<"withheld">> \in Windows /\ <<"task">> \in Windows
        BY MessageSeqs
      <4>2. messages' = (messages \o <<"withheld">>) \o <<"task">>
        BY <1>0, <3>3, <4>1, ConcatAssociative DEF Windows
      <4>3. messages \o <<"withheld">> \in Windows
        BY <1>0, <4>1, MessageSeqs
      <4>4. Kept(messages \o <<"withheld">>) = Kept(messages) \o <<>>
        BY <1>0, KeptMore, KeptOfMessage
      <4>5. Kept(messages) \o <<>> = Kept(messages)
        BY <1>0, KeptWindow, ConcatEmptySeq DEF Windows
      <4> QED  BY <1>0, <4>2, <4>3, <4>4, <4>5, KeptMore, KeptOfMessage
    <3> QED  BY <3>1, <3>2, <3>3
  <2> QED  BY <2>1, <2>2 DEF Follows, Even
<1>3. CASE PlanFails
  BY <1>3 DEF PlanFails, Follows
<1> QED  BY <1>1, <1>2, <1>3

\* The loop's head, and the model's call.
LEMMA StepFollows ==
  ASSUME WindowTypes, Follows,
         \/ Exhausted \/ StepRefused \/ Ready \/ Reply
         \/ Promote \/ CompactAndContinue \/ CallFails
         \/ \E cause \in Cause : CutOff(cause)
  PROVE  Follows'
<1>0. messages \in Windows /\ replayed \in Windows /\ "raw" \in Message /\ "correction" \in Message
  BY MessageSeqs DEF WindowTypes
<1>1. CASE Exhausted \/ Promote \/ CallFails
  <2>1. pc \in {"step", "call"} /\ pc' \in {"step", "idle"}
    BY <1>1 DEF Exhausted, Promote, CallFails, Retry, End, Go
  <2>2. Moves
    BY <1>1 DEF Exhausted, Promote, CallFails, window, Moves
  <2> QED  BY <2>1, <2>2, EvenStep DEF Even
<1>2. CASE StepRefused \/ Ready \/ CompactAndContinue
  <2>1. pc \in {"step", "call"} /\ pc' \in {"step", "call", "idle"}
    BY <1>2 DEF StepRefused, Ready, CompactAndContinue, Retry, End, Go
  <2>2. Moves
    <3>1. CASE CompactFails \/ \E c \in Context : Compacted(c, <<"continue">>)
      BY <3>1, CompactionMoves
    <3>2. CASE \/ UNCHANGED <<messages, replayed, pending, apart>>
               \/ messages' \in Pruned(messages) /\ UNCHANGED <<replayed, pending, apart>>
      BY <3>2 DEF Moves
    <3> QED  BY <1>2, <3>1, <3>2 DEF StepRefused, Ready, CompactAndContinue
  <2> QED  BY <2>1, <2>2, EvenStep DEF Even
<1>3. CASE Reply
  <2>1. /\ pc = "call" /\ pc' = "reply" /\ replayed' = replayed \o <<"raw">>
        /\ messages' = messages /\ apart' = apart
    BY <1>3 DEF Reply, Recorded, Go
  <2>2. Kept(replayed') = Kept(replayed) \o <<"raw">>
    BY <1>0, <2>1, KeptMore, KeptOfMessage
  <2>3. replayed' # <<>> /\ Last(replayed') = "raw"
    BY <1>0, <2>1 DEF Windows, Last
  <2> QED  BY <2>1, <2>2, <2>3 DEF Follows, Even
<1>4. ASSUME NEW cause \in Cause, CutOff(cause) PROVE Follows'
  <2>1. pc = "call" /\ pc' \in {"step", "idle"} /\ apart' = apart
    BY <1>4 DEF CutOff, Retry, End, Go
  <2>2. \/ UNCHANGED <<messages, replayed>>
        \/ messages' = messages \o <<"correction">> /\ replayed' = replayed \o <<"correction">>
    BY <1>4 DEF CutOff, Both, Say, Recorded
  <2>3. CASE UNCHANGED <<messages, replayed>>
    BY <2>1, <2>3, EvenStep DEF Even, Moves
  <2>4. CASE messages' = messages \o <<"correction">> /\ replayed' = replayed \o <<"correction">>
    <3>1. /\ Kept(messages') = Kept(messages) \o <<"correction">>
          /\ Kept(replayed') = Kept(replayed) \o <<"correction">>
      BY <1>0, <2>4, KeptMore, KeptOfMessage
    <3> QED  BY <2>1, <3>1 DEF Follows, Even
  <2> QED  BY <2>2, <2>3, <2>4
<1> QED  BY <1>1, <1>2, <1>3, <1>4

\* The raw answer, and more, said behind the window.
LEMMA KeptRaw ==
  ASSUME NEW w \in Windows
  PROVE  /\ Kept(w \o <<"raw">>) = Kept(w) \o <<"raw">>
         /\ Kept(w) \o <<"raw">> \in Windows
         /\ \A m \in {"follow_on", "withheld"} : Kept(w \o <<"raw", m>>) = Kept(w) \o <<"raw">>
         /\ Kept(w \o <<"raw", "correction">>) = (Kept(w) \o <<"raw">>) \o <<"correction">>
<1>1. /\ {"raw", "follow_on", "withheld", "correction"} \subseteq Message
      /\ w \o <<"raw">> \in Windows
  BY MessageSeqs
<1>2. \A m \in Message : w \o <<"raw", m>> = (w \o <<"raw">>) \o <<m>>
  <2> TAKE m \in Message
  <2>1. <<"raw">> \in Windows /\ <<m>> \in Windows
    BY <1>1, MessageSeqs
  <2>2. <<"raw", m>> = <<"raw">> \o <<m>>
    OBVIOUS
  <2> QED  BY <2>1, <2>2, ConcatAssociative DEF Windows
<1>3. Kept(w \o <<"raw">>) = Kept(w) \o <<"raw">>
  BY <1>1, KeptMore, KeptOfMessage
<1>4. Kept(w) \o <<"raw">> \in Windows
  BY KeptWindow, MessageSeqs
<1>5. \A m \in Message : Kept(w \o <<"raw", m>>) = (Kept(w) \o <<"raw">>) \o KeptOf(m)
  BY <1>1, <1>2, <1>3, KeptMore
<1>6. (Kept(w) \o <<"raw">>) \o <<>> = Kept(w) \o <<"raw">>
  BY <1>4, ConcatEmptySeq DEF Windows
<1> QED  BY <1>1, <1>3, <1>4, <1>5, <1>6, KeptOfMessage

\* What the answer says.
LEMMA ReplyFollows ==
  ASSUME WindowTypes, Follows,
         \/ Corrected \/ FollowOn \/ Withheld \/ Speak \/ Finish \/ Refused
         \/ \E a \in Answer : Unreadable(a)
         \/ \E n \in Nat, several \in BOOLEAN : Call(n, several) /\ (n > 0 /\ (~several => n = 1))
  PROVE  Follows'
<1>0. messages \in Windows /\ replayed \in Windows /\ "correction" \in Message /\ "answer" \in Message
  BY MessageSeqs DEF WindowTypes
<1> DEFINE u == Kept(messages)
<1>1. u \in Windows
  BY <1>0, KeptWindow
<1>2. pc = "reply"
  BY DEF Corrected, FollowOn, Withheld, Speak, Finish, Refused, Unreadable, Call
<1>3. apart = FALSE => replayed # <<>> /\ Last(replayed) = "raw" /\ Kept(replayed) = u \o <<"raw">>
  BY <1>2 DEF Follows
<1> HIDE DEF u
<1>4. CASE \/ Corrected
           \/ \E a \in Answer : Unreadable(a) /\ Unseen(<<"bad", a>>)
  <2>1. /\ pc' = "step" /\ apart' = apart
        /\ messages' = messages \o <<"raw", "correction">> /\ replayed' = replayed \o <<"correction">>
    BY <1>4 DEF Corrected, Unreadable, Continue, Recorded, Say, Go
  <2>2. Kept(messages') = (u \o <<"raw">>) \o <<"correction">>
    BY <1>0, <2>1, KeptRaw DEF u
  <2>3. Kept(replayed') = Kept(replayed) \o <<"correction">>
    BY <1>0, <2>1, KeptMore, KeptOfMessage
  <2> QED  BY <1>3, <2>1, <2>2, <2>3 DEF Follows, Even
<1>5. CASE FollowOn \/ Withheld
  <2>1. /\ pc' = "step" /\ apart' = apart /\ replayed' = replayed
        /\ messages' = messages \o <<"raw", "follow_on">> \/ messages' = messages \o <<"raw", "withheld">>
    BY <1>5 DEF FollowOn, Withheld, Continue, Say, Go
  <2>2. Kept(messages') = u \o <<"raw">>
    BY <1>0, <2>1, KeptRaw DEF u
  <2> QED  BY <1>3, <2>1, <2>2 DEF Follows, Even
<1>6. CASE \/ Refused
           \/ \E a \in Answer : Unreadable(a) /\ ~Unseen(<<"bad", a>>)
  <2>1. pc' = "idle" /\ apart' = apart /\ replayed' = replayed /\ messages' = messages \o <<"raw">>
    BY <1>6 DEF Refused, Unreadable, Say, End
  <2>2. Kept(messages') = u \o <<"raw">>
    BY <1>0, <2>1, KeptRaw DEF u
  <2> QED  BY <1>3, <2>1, <2>2 DEF Follows, Even
<1> DEFINE w == Answered(Append(messages, "raw"))
           r == Answered(replayed)
<1>7. /\ w \in Windows /\ Kept(w) = u \o <<"answer">>
      /\ apart = FALSE => Kept(r) = u \o <<"answer">>
  <2>1. w = messages \o <<"answer">>
    BY <1>0, AnsweredRaw
  <2>2. Kept(w) = u \o <<"answer">>
    BY <1>0, <2>1, KeptMore, KeptOfMessage DEF u
  <2>4. w \in Windows
    <3>1. <<"answer">> \in Windows
      BY <1>0, MessageSeqs
    <3>2. messages \o <<"answer">> \in Windows
      BY <1>0, <3>1 DEF Windows
    <3> QED  BY <2>1, <3>2
  <2>3. ASSUME apart = FALSE PROVE Kept(r) = u \o <<"answer">>
    BY <1>0, <1>1, <1>3, <2>3, AnsweredLast
  <2> QED  BY <2>2, <2>3, <2>4
<1> HIDE DEF w, r
<1>8. CASE Speak
  <2>1. pc' = "step" /\ apart' = apart /\ messages' = w /\ replayed' = r
    BY <1>8 DEF Speak, Go, w, r
  <2> QED  BY <1>7, <2>1 DEF Follows, Even
<1>9. CASE Finish
  <2>1. pc' = "idle"
    BY <1>9 DEF Finish, End
  <2>2. \/ messages' \in Pruned(w) /\ replayed' = r /\ apart' = apart
        \/ messages' = replayed'
        \/ apart' = TRUE
    BY <1>9 DEF Finish, Compacted, Snapshot, w, r
  <2>3. messages' \in Pruned(w) => Kept(messages') = u \o <<"answer">>
    BY <1>7, KeptPruned
  <2>4. apart' = FALSE => Kept(replayed') = Kept(messages')
    BY <1>7, <2>2, <2>3
  <2> QED  BY <2>1, <2>4 DEF Follows, Even
<1>10. ASSUME NEW n \in Nat, NEW several \in BOOLEAN, Call(n, several), n > 0, ~several => n = 1
       PROVE  Follows'
  <2>1. /\ pc' = "tools" /\ apart' = apart /\ replayed' = replayed /\ messages' = messages \o <<"raw">>
        /\ left' = n /\ awaited' = IF several THEN n ELSE 0
    BY <1>10 DEF Call, Say, Go, Awaited
  <2>2. Kept(messages') = u \o <<"raw">>
    BY <1>0, <2>1, KeptRaw DEF u
  <2>3. left' > 0 /\ (awaited' = left' \/ (awaited' = 0 /\ left' = 1))
    BY <1>10, <2>1
  <2> QED  BY <1>3, <2>1, <2>2, <2>3 DEF Follows, Even
<1> QED  BY <1>4, <1>5, <1>6, <1>8, <1>9, <1>10

\* Tools and their results.
LEMMA ToolsFollow ==
  ASSUME WindowTypes, LoopTypes, Follows,
         (\E runs \in BOOLEAN : Tool(runs)) \/ Results \/ ToolCancelled
  PROVE  Follows'
<1>0. /\ messages \in Windows /\ replayed \in Windows /\ "result" \in Message /\ "evident" \in Message
      /\ left \in Nat /\ awaited \in Nat
  BY MessageSeqs, BoundAssumption DEF WindowTypes, LoopTypes
<1>1. pc = "tools"
  BY DEF Tool, Results, ToolCancelled
<1>2. ASSUME NEW runs \in BOOLEAN, Tool(runs) PROVE Follows'
  <2>1. /\ pc' = "tools" /\ apart' = apart /\ messages' = messages /\ left > 0 /\ left' = left - 1
        /\ awaited' = IF awaited = 0 THEN 0 ELSE awaited - 1
        /\ IF awaited > 1 THEN replayed' = replayed ELSE replayed' = replayed \o <<"result">>
    BY <1>1, <1>2 DEF Tool, Recorded
  <2>2. apart = FALSE => Kept(replayed) = Kept(messages) /\ (awaited = left \/ (awaited = 0 /\ left = 1))
    BY <1>1, <2>1 DEF Follows
  <2>3. CASE awaited > 1
    <3>1. apart = FALSE => left' > 0 /\ awaited' = left'
      BY <1>0, <2>1, <2>2, <2>3
    <3> QED  BY <2>1, <2>2, <2>3, <3>1 DEF Follows, Even
  <2>4. CASE ~(awaited > 1)
    <3>1. apart = FALSE => left' = 0
      BY <1>0, <2>1, <2>2, <2>4
    <3>2. Kept(replayed') = Kept(replayed) \o <<"result">>
      BY <1>0, <2>1, <2>4, KeptMore, KeptOfMessage
    <3> QED  BY <2>1, <2>2, <3>1, <3>2 DEF Follows, Even
  <2> QED  BY <2>3, <2>4
<1>3. CASE Results
  <2>1. /\ pc' = "step" /\ apart' = apart /\ replayed' = replayed /\ left = 0
        /\ messages' = messages \o <<"evident">> \/ messages' = messages \o <<"result">>
    BY <1>3 DEF Results, Say, Go
  <2>2. Kept(messages') = Kept(messages) \o <<"result">>
    BY <1>0, <2>1, KeptMore, KeptOfMessage
  <2> QED  BY <1>1, <2>1, <2>2 DEF Follows, Even
<1>4. CASE ToolCancelled
  <2>1. pc' = "idle" /\ apart' = apart /\ replayed' = replayed /\ messages' = messages /\ left > 0
    BY <1>4 DEF ToolCancelled, End, window
  <2> QED  BY <1>1, <2>1 DEF Follows, Even
<1> QED  BY <1>2, <1>3, <1>4

\* Every step, and no step, keeps the two together.
LEMMA FollowsStep ==
  ASSUME IInv, Follows, [Next]_vars
  PROVE  Follows'
<1>0. WindowTypes /\ LoopTypes
  BY DEF IInv
<1>1. CASE UNCHANGED vars
  <2>1. UNCHANGED <<messages, replayed, awaited, apart, left, pc>>
    BY <1>1 DEF vars, window, loop
  <2> QED  BY <2>1 DEF Follows
<1>2. CASE Next
  <2>1. CASE \/ Between \/ Resume \/ StartFails
             \/ \E continuing \in BOOLEAN, c \in Context : StartTurn(continuing, c)
    BY <1>0, <2>1, BetweenFollows
  <2>2. CASE RecordTask \/ Plan \/ PlanFails
    BY <1>0, <2>2, PlanFollows
  <2>3. CASE \/ Exhausted \/ StepRefused \/ Ready \/ Reply
             \/ Promote \/ CompactAndContinue \/ CallFails
             \/ \E cause \in Cause : CutOff(cause)
    BY <1>0, <2>3, StepFollows
  <2>4. CASE \/ Corrected \/ FollowOn \/ Withheld \/ Speak \/ Finish \/ Refused
             \/ \E a \in Answer : Unreadable(a)
    BY <1>0, <2>4, ReplyFollows
  <2>5. CASE Call(1, FALSE) \/ \E n \in 1..MaxTools : Call(n, TRUE)
    <3>1. /\ TRUE \in BOOLEAN /\ FALSE \in BOOLEAN /\ 1 \in Nat /\ 1 > 0
          /\ \A n \in 1..MaxTools : n \in Nat /\ n > 0
      OBVIOUS
    <3>2. \E n \in Nat, several \in BOOLEAN : Call(n, several) /\ (n > 0 /\ (~several => n = 1))
      BY <2>5, <3>1
    <3> QED  BY <1>0, <3>2, ReplyFollows
  <2>6. CASE (\E runs \in BOOLEAN : Tool(runs)) \/ Results \/ ToolCancelled
    BY <1>0, <2>6, ToolsFollow
  <2> QED  BY <1>2, <2>1, <2>2, <2>3, <2>4, <2>5, <2>6 DEF Next, Turn
<1> QED  BY <1>1, <1>2

\* Between turns and at every model call a resumed conversation would be sent the
\* exchange the live one is, for any budget, routes, failures and bounds: whatever was
\* corrected, cancelled halfway, compacted or rewound, the events replay_entries reads
\* lose, repeat and reorder none of it.
THEOREM ReplayKeepsExchange == Spec => []ReplayKeeps
<1>1. Init => Follows
  BY DEF Init, Follows, Even
<1>2. IInv /\ Follows /\ [Next]_vars => Follows'
  BY FollowsStep
<1>3. IInv /\ Follows => ReplayKeeps
  BY DEF IInv, WindowTypes, Follows, Even, ReplayKeeps
<1> QED  BY <1>1, <1>2, <1>3, SpecInv, PTL DEF Spec
=============================================================================
