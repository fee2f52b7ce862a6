-------------------------- MODULE CheckpointsProofs -------------------------
(***************************************************************************)
(* Proofs about Checkpoints, for any number of Task objects, messages and  *)
(* pieces of work.                                                         *)
(*                                                                         *)
(* A commit in the background does not know what became of the message it  *)
(* is for.  What makes its landing sound is an order: messages are said    *)
(* with growing numbers, nothing is cut from the list of a Task object that *)
(* has work under way, and so the last message a commit can land on is its *)
(* own or a later one.                                                     *)
(*                                                                         *)
(* The last part is about what holds as long as work does not meet, with   *)
(* the history variables of MCCheckpoints.                                 *)
(***************************************************************************)
EXTENDS MCCheckpoints, FiniteSetTheorems, WellFoundedInduction, TLAPS

\* A list of messages: said so far, in order, none with a commit for a later one.
Sound(msgs, s) ==
    /\ msgs \in Seq(Message)
    /\ \A i \in DOMAIN msgs : msgs[i].id <= s /\ msgs[i].hash <= msgs[i].id
    /\ \A i, k \in DOMAIN msgs : i < k => msgs[i].id <= msgs[k].id

GoodTask(t, s) ==
    /\ t \in Task /\ Sound(t.messages, s)
    /\ t.pc = "starting" => t.trouble # "timedout"

Conversation ==
    /\ said \in 0..MaxMessages /\ noted \in Troubles /\ Sound(saved, said)
    /\ task \in Seq(Task) /\ made \in 1..MaxTasks
    /\ \A n \in 1..made : GoodTask(task[n], said)

\* Work that keeps the agent waiting.
Awaited == {"first", "completion", "news"}

\* The kind of message a commit lands on.
MarkedKind(op) == IF op = "background" THEN "checkpoint" ELSE "completion"

\* What a piece of work may rely on of its Task object.
Serves(j, t, s) ==
    /\ j.op \in Committing => j.for # 0 /\ j.for <= s
    /\ j.pc = "commit" => j.op \in Committing
    /\ t.pc # "starting" /\ t.trouble # "timedout"
    /\ j.op \in Awaited => t.pc \in {"saving", "ended"}
    /\ j.op \in {"background", "completion"} =>
         \E i \in Of(t.messages, MarkedKind(j.op)) : j.for <= t.messages[i].id
    /\ j.op = "first" => \A i \in DOMAIN t.messages : t.messages[i].id <= j.for

AtWork ==
    /\ jobs \subseteq Job
    /\ \A j \in jobs : j.task <= made /\ Serves(j, task[j.task], said)
    /\ \A j, k \in jobs : j.op \in Awaited /\ k.op \in Awaited /\ j.task = k.task => j = k

\* A Task object that is being restored has nothing under way.
Restoring ==
    /\ restore \in Restore
    /\ restore.task <= made /\ (restore.pc # "none" => restore.task # 0)
    /\ restore.task # 0 => task[restore.task].pc \in {"waiting", "ended"}
    /\ \A j \in jobs : j.task # restore.task
    /\ RestoredTogether

Repository ==
    /\ hidden \in BOOLEAN /\ linked \in BOOLEAN /\ links \subseteq 1..MaxMessages
    /\ cut \subseteq 1..MaxMessages /\ stranded \in BOOLEAN
    /\ NestedComesBack

Inv == Conversation /\ AtWork /\ Restoring /\ Repository

-----------------------------------------------------------------------------
(* Messages. *)

LEMMA Bounds == /\ MaxTasks \in Nat /\ MaxMessages \in Nat /\ MaxJobs \in Nat
                /\ 1 <= MaxTasks /\ 1 <= MaxMessages
  BY BoundAssumption

\* What a message holds.
LEMMA MessageParts ==
    ASSUME NEW m \in Message
    PROVE  /\ m.id \in Nat /\ m.id \in 1..MaxMessages
           /\ m.hash \in Nat /\ m.hash \in 0..MaxMessages
<1>1. m.id \in 1..MaxMessages /\ m.hash \in 0..MaxMessages
  BY DEF Message
<1>2. QED
  BY <1>1, Bounds

LEMMA MessageMarked ==
    ASSUME NEW m \in Message, NEW h \in 0..MaxMessages
    PROVE  /\ [m EXCEPT !.hash = h] \in Message
           /\ [m EXCEPT !.hash = h].id = m.id /\ [m EXCEPT !.hash = h].kind = m.kind
           /\ [m EXCEPT !.hash = h].hash = h
  BY DEF Message

\* The last of some positions.
LEMMA LastOne ==
    ASSUME NEW n \in Nat, NEW I \in SUBSET (1..n), I # {}
    PROVE  \E x \in I : \A y \in I : y <= x
<1> DEFINE Up(i) == {k \in I : i <= k}
           R == StrictSubsetOrdering(1..n)
           T == {Up(i) : i \in I}
<1>0. \A i \in I : i \in Nat
  OBVIOUS
<1>1. IsWellFoundedOn(R, FiniteSubsetsOf(1..n))
  BY FS_StrictSubsetOrderingWellFounded
<1>2. \A i \in I : Up(i) \in SUBSET (1..n)
  OBVIOUS
<1>3. T \subseteq FiniteSubsetsOf(1..n)
  BY <1>2, FS_Interval, FS_FiniteSubsetsOfFinite
<1>4. T # {}
  OBVIOUS
<1>5. PICK s \in T : \A t \in T : ~(<<t, s>> \in R)
  <2> HIDE DEF T, R
  <2> QED
    BY <1>1, <1>3, <1>4, WFMin
<1>6. PICK x \in I : s = Up(x)
  OBVIOUS
<1>7. ASSUME NEW y \in I, ~(y <= x) PROVE FALSE
  <2>1. x < y /\ x \in Up(x) /\ ~(x \in Up(y))
    BY <1>0, <1>7
  <2>2. \A k \in I : y <= k => x <= k
    BY <1>0, <2>1
  <2>3. Up(y) \subseteq Up(x)
    BY <2>2
  <2>4. <<Up(y), Up(x)>> \in R
    <3> HIDE DEF Up
    <3> QED
      BY <1>2, <2>1, <2>3 DEF StrictSubsetOrdering
  <2>5. QED
    BY <1>5, <1>6, <2>4
<1>8. QED
  BY <1>7

\* What was sound stays so when more is said.
LEMMA SoundLater ==
    ASSUME NEW msgs, NEW s \in Nat, NEW r \in Nat, s <= r, Sound(msgs, s)
    PROVE  Sound(msgs, r)
<1>1. msgs \in Seq(Message) /\ \A i \in DOMAIN msgs : msgs[i] \in Message
  BY DEF Sound
<1>2. \A i \in DOMAIN msgs : msgs[i].id \in Nat
  BY <1>1, MessageParts
<1>3. QED
  BY <1>1, <1>2 DEF Sound

\* A message no smaller than the others is appended.
LEMMA SoundAppend ==
    ASSUME NEW msgs, NEW s \in Nat, NEW m \in Message, Sound(msgs, s), m.id <= s, m.hash <= m.id,
           \A i \in DOMAIN msgs : msgs[i].id <= m.id
    PROVE  /\ Sound(Append(msgs, m), s)
           /\ \A i \in DOMAIN msgs : Append(msgs, m)[i] = msgs[i]
           /\ DOMAIN Append(msgs, m) = 1..Len(msgs) + 1 /\ DOMAIN msgs = 1..Len(msgs)
           /\ Append(msgs, m)[Len(msgs) + 1] = m
<1>1. msgs \in Seq(Message) /\ Len(msgs) \in Nat
  BY DEF Sound
<1>2. /\ Append(msgs, m) \in Seq(Message)
      /\ DOMAIN Append(msgs, m) = 1..Len(msgs) + 1 /\ DOMAIN msgs = 1..Len(msgs)
      /\ Append(msgs, m)[Len(msgs) + 1] = m
      /\ \A i \in 1..Len(msgs) : Append(msgs, m)[i] = msgs[i]
  BY <1>1
<1>3. m.id \in Nat /\ m.hash \in Nat /\ \A i \in 1..Len(msgs) : msgs[i].id \in Nat
  BY <1>1, MessageParts
<1>4. \A i \in 1..Len(msgs) + 1 : Append(msgs, m)[i].id <= s
                                  /\ Append(msgs, m)[i].hash <= Append(msgs, m)[i].id
  BY <1>1, <1>2 DEF Sound
<1>5. ASSUME NEW i \in 1..Len(msgs) + 1, NEW k \in 1..Len(msgs) + 1, i < k
      PROVE  Append(msgs, m)[i].id <= Append(msgs, m)[k].id
  <2>1. i \in 1..Len(msgs)
    BY <1>1, <1>5
  <2>2. CASE k = Len(msgs) + 1
    BY <1>2, <2>1, <2>2
  <2>3. CASE k \in 1..Len(msgs)
    BY <1>2, <1>5, <2>1, <2>3 DEF Sound
  <2>4. QED
    BY <1>1, <2>2, <2>3
<1>6. QED
  BY <1>2, <1>4, <1>5 DEF Sound

Marked(msgs, i, h) == [msgs EXCEPT ![i].hash = h]

\* A message gets a commit that is not for a later one.
LEMMA SoundMark ==
    ASSUME NEW msgs, NEW s \in Nat, Sound(msgs, s), NEW i \in DOMAIN msgs,
           NEW h \in 0..MaxMessages, h <= msgs[i].id
    PROVE  /\ Sound(Marked(msgs, i, h), s) /\ DOMAIN Marked(msgs, i, h) = DOMAIN msgs
           /\ \A k \in DOMAIN msgs : /\ Marked(msgs, i, h)[k].id = msgs[k].id
                                     /\ Marked(msgs, i, h)[k].kind = msgs[k].kind
<1> DEFINE marked == [msgs EXCEPT ![i].hash = h]
<1>1. msgs \in Seq(Message) /\ DOMAIN msgs = 1..Len(msgs) /\ Len(msgs) \in Nat
  BY DEF Sound
<1>2. DOMAIN marked = DOMAIN msgs /\ marked[i] = [msgs[i] EXCEPT !.hash = h]
      /\ \A k \in DOMAIN msgs : k # i => marked[k] = msgs[k]
  OBVIOUS
<1>3. msgs[i] \in Message /\ [msgs[i] EXCEPT !.hash = h] \in Message
      /\ [msgs[i] EXCEPT !.hash = h].id = msgs[i].id /\ [msgs[i] EXCEPT !.hash = h].hash = h
      /\ [msgs[i] EXCEPT !.hash = h].kind = msgs[i].kind
  <2>1. msgs[i] \in Message
    BY <1>1
  <2>2. QED
    BY <2>1, MessageMarked
<1>4. marked \in Seq(Message)
  <2>1. \A k \in 1..Len(msgs) : marked[k] \in Message
    BY <1>1, <1>2, <1>3
  <2>2. marked \in [1..Len(msgs) -> Message]
    BY <1>1, <2>1
  <2>3. QED
    BY <1>1, <2>2
<1>5. \A k \in DOMAIN msgs : marked[k].id = msgs[k].id /\ marked[k].kind = msgs[k].kind
                             /\ (marked[k].hash = msgs[k].hash \/ k = i)
  BY <1>2, <1>3
<1>6. \A k \in DOMAIN marked : marked[k].id <= s /\ marked[k].hash <= marked[k].id
  BY <1>2, <1>3, <1>5 DEF Sound
<1>7. \A k, l \in DOMAIN marked : k < l => marked[k].id <= marked[l].id
  BY <1>2, <1>5 DEF Sound
<1> HIDE DEF marked
<1>8. Marked(msgs, i, h) = marked
  BY DEF Marked, marked
<1>9. QED
  BY <1>2, <1>4, <1>5, <1>6, <1>7, <1>8 DEF Sound

\* Messages from the start of a list.
LEMMA SoundCut ==
    ASSUME NEW msgs, NEW s \in Nat, Sound(msgs, s), NEW k \in Nat
    PROVE  Sound(SubSeq(msgs, 1, Smaller(k, Len(msgs))), s)
<1> DEFINE e == Smaller(k, Len(msgs))
           kept == SubSeq(msgs, 1, e)
<1>1. msgs \in Seq(Message) /\ DOMAIN msgs = 1..Len(msgs) /\ Len(msgs) \in Nat
  BY DEF Sound
<1>2. e \in 0..Len(msgs)
  BY <1>1 DEF Smaller
<1> HIDE DEF e
<1>3. kept \in Seq(Message) /\ DOMAIN kept = 1..e /\ \A i \in 1..e : kept[i] = msgs[i]
  BY <1>1, <1>2
<1>4. \A i \in 1..e : i \in DOMAIN msgs
  BY <1>1, <1>2
<1> HIDE DEF kept
<1>5. Sound(kept, s)
  BY <1>3, <1>4 DEF Sound
<1>6. QED
  BY <1>5 DEF kept, e

\* The last of some messages is no smaller than any of them.
LEMMA LatestIsLast ==
    ASSUME NEW msgs, NEW s \in Nat, Sound(msgs, s), NEW kind, NEW i \in Of(msgs, kind)
    PROVE  /\ Latest(Of(msgs, kind)) \in DOMAIN msgs
           /\ Latest(Of(msgs, kind)) \in Of(msgs, kind)
           /\ msgs[i].id <= msgs[Latest(Of(msgs, kind))].id
<1>1. msgs \in Seq(Message) /\ DOMAIN msgs = 1..Len(msgs) /\ Len(msgs) \in Nat
  BY DEF Sound
<1>2. Of(msgs, kind) \in SUBSET (1..Len(msgs)) /\ Of(msgs, kind) # {}
  BY <1>1 DEF Of
<1>3. \E x \in Of(msgs, kind) : \A y \in Of(msgs, kind) : y <= x
  BY <1>1, <1>2, LastOne
<1>4. Latest(Of(msgs, kind)) \in Of(msgs, kind) /\ i <= Latest(Of(msgs, kind))
  BY <1>3 DEF Latest
<1>5. Latest(Of(msgs, kind)) \in DOMAIN msgs /\ i \in DOMAIN msgs
  BY <1>1, <1>2, <1>4
<1>6. msgs[i] \in Message
  BY <1>1, <1>5
<1>7. CASE i = Latest(Of(msgs, kind))
  BY <1>4, <1>5, <1>6, <1>7, MessageParts
<1>8. CASE i # Latest(Of(msgs, kind))
  <2>1. i < Latest(Of(msgs, kind))
    BY <1>1, <1>4, <1>5, <1>8
  <2>2. QED
    BY <1>4, <1>5, <2>1 DEF Sound
<1>9. QED
  BY <1>7, <1>8

-----------------------------------------------------------------------------
(* Task objects and their work. *)

\* What a change of a Task object leaves a Task object.
LEMMA TaskParts ==
    ASSUME NEW t \in Task
    PROVE  /\ t.messages \in Seq(Message) /\ t.tracker \in BOOLEAN /\ t.warn \in BOOLEAN
           /\ t.trouble \in Troubles
           /\ t.pc \in {"starting", "saving", "waiting", "ready", "ended"}
  BY DEF Task

\* Of the messages a commit can land on, none is lost.
Keeps(old, new) ==
    \A i \in DOMAIN old :
      i \in DOMAIN new /\ new[i].id = old[i].id /\ new[i].kind = old[i].kind

\* A piece of work is still served.
LEMMA StillServes ==
    ASSUME NEW j, NEW old, NEW t, NEW s \in Nat, NEW r \in Nat, s <= r, j.for \in Nat,
           Serves(j, old, s), Keeps(old.messages, t.messages),
           t.pc # "starting", t.trouble # "timedout",
           j.op \in Awaited => t.pc \in {"saving", "ended"},
           j.op = "first" => t.messages = old.messages
    PROVE  Serves(j, t, r)
<1>1. j.op \in Committing => j.for # 0 /\ j.for <= r
  BY DEF Serves
<1>2. j.op \in {"background", "completion"} =>
         \E i \in Of(t.messages, MarkedKind(j.op)) : j.for <= t.messages[i].id
  BY DEF Serves, Keeps, Of
<1>3. QED
  BY <1>1, <1>2 DEF Serves

\* One Task object changes.
LEMMA OneTask ==
    ASSUME Conversation, NEW n \in 1..made, NEW t, task' = [task EXCEPT ![n] = t],
           said' \in 0..MaxMessages, said <= said', GoodTask(t, said')
    PROVE  /\ task' \in Seq(Task) /\ made' = made
           /\ task'[n] = t /\ \A k \in 1..made : k # n => task'[k] = task[k]
           /\ \A k \in 1..made : GoodTask(task'[k], said')
           /\ Sound(saved, said')
           /\ made \in Nat /\ n \in Nat /\ said \in Nat /\ said' \in Nat
<1>1. task \in Seq(Task) /\ made \in 1..MaxTasks /\ said \in 0..MaxMessages
  BY DEF Conversation
<1>2. made \in Nat /\ said \in Nat /\ said' \in Nat /\ DOMAIN task = 1..made /\ n \in Nat
  BY <1>1, Bounds DEF made
<1>3. t \in Task
  BY DEF GoodTask
<1>4. /\ task' \in Seq(Task) /\ Len(task') = Len(task)
      /\ task'[n] = t /\ \A k \in 1..made : k # n => task'[k] = task[k]
  BY <1>1, <1>2, <1>3 DEF made
<1>5. \A k \in 1..made : GoodTask(task[k], said')
  BY <1>2, SoundLater DEF Conversation, GoodTask
<1>6. Sound(saved, said')
  BY <1>2, SoundLater DEF Conversation
<1>7. QED
  BY <1>2, <1>4, <1>5, <1>6 DEF made

\* What may be saved: nothing, or the messages of the Task object that changed.
Saves(t) == UNCHANGED <<saved, noted>> \/ (saved' = t.messages /\ noted' = t.trouble)

\* One Task object changes, and some of its work begins or ends.
LEMMA OneTaskChanges ==
    ASSUME Inv, NEW n \in 1..made, NEW t, task' = [task EXCEPT ![n] = t],
           said' \in 0..MaxMessages, said <= said', GoodTask(t, said'), Saves(t),
           NEW K \in SUBSET Job, jobs' \subseteq jobs \cup K,
           \A j \in K : j.task = n,
           \A j \in jobs' : j.task = n => Serves(j, t, said'),
           \A j, k \in jobs' : j.op \in Awaited /\ k.op \in Awaited /\ j.task = n /\ k.task = n => j = k
    PROVE  /\ Conversation' /\ AtWork'
           /\ made' = made /\ task'[n] = t /\ \A k \in 1..made : k # n => task'[k] = task[k]
<1>1. /\ task' \in Seq(Task) /\ made' = made
      /\ task'[n] = t /\ \A k \in 1..made : k # n => task'[k] = task[k]
      /\ \A k \in 1..made : GoodTask(task'[k], said')
      /\ Sound(saved, said')
      /\ made \in Nat /\ n \in Nat /\ said \in Nat /\ said' \in Nat
  BY OneTask DEF Inv
<1>2. Conversation'
  <2>1. noted' \in Troubles /\ Sound(saved', said')
    BY <1>1, TaskParts DEF Saves, GoodTask, Inv, Conversation
  <2>2. QED
    BY <1>1, <2>1 DEF Inv, Conversation
<1>3. AtWork'
  <2>1. jobs' \subseteq Job
    BY DEF Inv, AtWork
  <2>2. ASSUME NEW j \in jobs' PROVE j.task <= made' /\ Serves(j, task'[j.task], said')
    <3>1. j \in Job /\ j.task \in Nat /\ j.for \in Nat /\ j.task \in 1..MaxTasks
      <4>1. j.task \in 1..MaxTasks /\ j.for \in 0..MaxMessages
        BY <2>1 DEF Job
      <4>2. QED
        BY <2>1, <4>1, Bounds
    <3>2. CASE j.task = n
      BY <1>1, <3>2
    <3>3. CASE j.task # n
      <4>1. j \in jobs
        BY <3>3
      <4>2. j.task <= made /\ Serves(j, task[j.task], said)
        BY <4>1 DEF Inv, AtWork
      <4>3. j.task \in 1..made /\ task'[j.task] = task[j.task]
        BY <1>1, <3>1, <3>3, <4>2
      <4>4. Serves(j, task[j.task], said')
        BY <1>1, <3>1, <4>2 DEF Serves
      <4>5. QED
        BY <1>1, <4>2, <4>3, <4>4
    <3>4. QED
      BY <3>2, <3>3
  <2>3. \A j, k \in jobs' : j.op \in Awaited /\ k.op \in Awaited /\ j.task = k.task => j = k
    BY DEF Inv, AtWork
  <2>4. QED
    BY <2>1, <2>2, <2>3 DEF AtWork
<1>4. QED
  BY <1>1, <1>2, <1>3

\* The same for a Task object that has nothing under way.
LEMMA IdleTaskChanges ==
    ASSUME Inv, NEW n \in 1..made, NEW t, task' = [task EXCEPT ![n] = t],
           UNCHANGED <<said, jobs>>, GoodTask(t, said), Saves(t),
           \A j \in jobs : j.task # n
    PROVE  /\ Conversation' /\ AtWork'
           /\ made' = made /\ task'[n] = t
<1> DEFINE K == {}
<1>1. /\ said' \in 0..MaxMessages /\ said <= said' /\ GoodTask(t, said')
  BY Bounds DEF Inv, Conversation
<1>2. /\ K \in SUBSET Job /\ jobs' \subseteq jobs \cup K /\ \A j \in K : j.task = n
  OBVIOUS
<1>3. /\ \A j \in jobs' : j.task = n => Serves(j, t, said')
      /\ \A j, k \in jobs' : j.op \in Awaited /\ k.op \in Awaited /\ j.task = n /\ k.task = n => j = k
  OBVIOUS
<1> HIDE DEF K
<1>4. QED
  BY <1>1, <1>2, <1>3, OneTaskChanges

\* The same, when nothing else is restored.
LEMMA OneTaskStep ==
    ASSUME Inv, NEW n \in 1..made, NEW t, task' = [task EXCEPT ![n] = t],
           said' \in 0..MaxMessages, said <= said', GoodTask(t, said'), Saves(t),
           NEW K \in SUBSET Job, jobs' \subseteq jobs \cup K,
           \A j \in K : j.task = n,
           \A j \in jobs' : j.task = n => Serves(j, t, said'),
           \A j, k \in jobs' : j.op \in Awaited /\ k.op \in Awaited /\ j.task = n /\ k.task = n => j = k,
           restore' = restore,
           n = restore.task => K = {} /\ t.pc = task[n].pc /\ (t.trouble = task[n].trouble \/ t.trouble # "none")
    PROVE  Conversation' /\ AtWork' /\ Restoring'
<1>0. /\ Conversation' /\ AtWork'
      /\ made' = made /\ task'[n] = t /\ \A k \in 1..made : k # n => task'[k] = task[k]
  BY OneTaskChanges
<1>1. restore \in Restore /\ restore.task \in 0..MaxTasks
  BY DEF Inv, Restoring, Restore
<1>2. restore.task # 0 => restore.task \in 1..made
  BY <1>1, Bounds DEF Inv, Restoring, Conversation
<1>3. restore.task # 0 => task'[restore.task].pc \in {"waiting", "ended"}
  BY <1>0, <1>2 DEF Inv, Restoring
<1>4. \A j \in jobs' : j.task # restore.task
  BY DEF Inv, Restoring
<1>5. RestoredTogether'
  BY <1>0, <1>2 DEF Inv, Restoring, RestoredTogether
<1>6. Restoring'
  BY <1>0, <1>1, <1>3, <1>4, <1>5 DEF Inv, Restoring
<1>7. QED
  BY <1>0, <1>6

-----------------------------------------------------------------------------
(* The agent. *)

\* A message is said.
LEMMA SaidSound ==
    ASSUME Conversation, NEW msgs, Sound(msgs, said), said < MaxMessages,
           NEW kind \in {"other", "checkpoint", "completion"}
    PROVE  LET new == Append(msgs, Said(kind))
           IN  /\ Sound(new, said + 1) /\ Keeps(msgs, new)
               /\ Len(msgs) + 1 \in Of(new, kind) /\ new[Len(msgs) + 1].id = said + 1
               /\ said + 1 \in 0..MaxMessages /\ said + 1 \in Nat /\ said <= said + 1 /\ said + 1 # 0
<1> DEFINE m == Said(kind)
           new == Append(msgs, m)
<1>1. said \in Nat /\ said + 1 \in 1..MaxMessages /\ said + 1 \in Nat
  BY Bounds DEF Conversation
<1>2. m \in Message /\ m.id = said + 1 /\ m.hash = 0 /\ m.kind = kind
  BY <1>1, Bounds DEF Message, Said
<1>3. Sound(msgs, said + 1)
  BY <1>1, SoundLater
<1>4. msgs \in Seq(Message) /\ Len(msgs) \in Nat
  BY DEF Sound
<1>5. \A i \in DOMAIN msgs : msgs[i].id <= said + 1
  BY <1>3 DEF Sound
<1> HIDE DEF m
<1>6. /\ Sound(new, said + 1)
      /\ \A i \in DOMAIN msgs : new[i] = msgs[i]
      /\ DOMAIN new = 1..Len(msgs) + 1 /\ DOMAIN msgs = 1..Len(msgs)
      /\ new[Len(msgs) + 1] = m
  BY <1>1, <1>2, <1>3, <1>5, SoundAppend
<1>7. Len(msgs) + 1 \in DOMAIN new
  BY <1>4, <1>6
<1>8. DOMAIN msgs \subseteq DOMAIN new
  BY <1>4, <1>6
<1> HIDE DEF new
<1>9. Len(msgs) + 1 \in Of(new, kind) /\ Keeps(msgs, new)
  BY <1>2, <1>6, <1>7, <1>8 DEF Of, Keeps
<1>10. QED
  BY <1>1, <1>2, <1>6, <1>9 DEF new, m

\* The agent of a Task object goes on, and perhaps begins a piece of work.
LEMMA ReadyStep ==
    ASSUME Inv, NEW n \in 1..made, task[n].pc = "ready",
           NEW t, task' = [task EXCEPT ![n] = t],
           said' \in 0..MaxMessages, said <= said', GoodTask(t, said'), Saves(t),
           Keeps(task[n].messages, t.messages), t.pc # "starting",
           t.trouble = task[n].trouble \/ t.trouble # "timedout",
           restore' = restore,
           NEW K \in SUBSET Job, jobs' = jobs \cup K,
           \A k \in K : k.task = n /\ Serves(k, t, said'),
           \A j, k \in K : j = k
    PROVE  Conversation' /\ AtWork' /\ Restoring'
<1>1. \A j \in jobs : j.task = n => Serves(j, task[n], said) /\ ~(j.op \in Awaited)
  BY DEF Inv, AtWork, Serves
<1>2. n # restore.task
  BY Bounds DEF Inv, Restoring, Conversation
<1>3. said \in Nat /\ said' \in Nat
  BY Bounds DEF Inv, Conversation
<1>4. ASSUME NEW j \in jobs, j.task = n PROVE Serves(j, t, said')
  <2>1. Serves(j, task[n], said) /\ ~(j.op \in Awaited) /\ j.op # "first"
    BY <1>1, <1>4 DEF Awaited
  <2>2. j.for \in Nat
    BY Bounds DEF Inv, AtWork, Job
  <2>3. t.trouble # "timedout"
    BY <2>1 DEF Serves
  <2>4. QED
    BY <1>3, <2>1, <2>2, <2>3, StillServes
<1>5. \A j \in jobs' : j.task = n => Serves(j, t, said')
  BY <1>4
<1>6. \A j, k \in jobs' : j.op \in Awaited /\ k.op \in Awaited /\ j.task = n /\ k.task = n => j = k
  BY <1>1
<1>7. jobs' \subseteq jobs \cup K /\ \A k \in K : k.task = n
  OBVIOUS
<1> HIDE DEF Inv
<1>8. QED
  BY <1>2, <1>5, <1>6, <1>7, OneTaskStep

\* A Task object with a tracker, or with the trouble of one that failed.
LEMMA Created ==
    ASSUME Conversation, NEW n \in 1..made, NEW left \in Troubles, NEW u \in Creating(n, left)
    PROVE  /\ u \in Task /\ u.messages = task[n].messages /\ u.pc = task[n].pc
           /\ u.trouble \in {task[n].trouble, left}
           /\ GoodTask(task[n], said)
<1>1. task[n] \in Task /\ GoodTask(task[n], said)
  BY DEF Conversation, GoodTask
<1>2. CASE u = [task[n] EXCEPT !.tracker = TRUE]
  BY <1>1, <1>2 DEF Task
<1>3. CASE u = [task[n] EXCEPT !.trouble = left]
  BY <1>1, <1>3 DEF Task
<1>4. QED
  BY <1>1, <1>2, <1>3 DEF Creating

\* A Task object with one more message.
LEMMA SaidTask ==
    ASSUME Conversation, NEW n \in 1..made, NEW u \in Task, u.messages = task[n].messages,
           NEW p \in {"ready", "saving"}, NEW kind \in {"checkpoint", "completion"},
           said < MaxMessages
    PROVE  LET new == Append(u.messages, Said(kind))
               t == [u EXCEPT !.messages = new, !.pc = p]
           IN  t \in Task /\ t.messages = new /\ t.pc = p /\ t.trouble = u.trouble
<1> DEFINE new == Append(u.messages, Said(kind))
<1>1. Sound(u.messages, said)
  BY DEF Conversation, GoodTask
<1>2. new \in Seq(Message)
  BY <1>1, SaidSound DEF Sound
<1> HIDE DEF new
<1>3. LET t == [u EXCEPT !.messages = new, !.pc = p]
      IN  t \in Task /\ t.messages = new /\ t.pc = p /\ t.trouble = u.trouble
  BY <1>2 DEF Task
<1>4. QED
  BY <1>3 DEF new

\* A message is said and its commit begins.
LEMMA CommitBegins ==
    ASSUME Inv, NEW n \in 1..made, task[n].pc = "ready",
           said < MaxMessages, said' = said + 1, restore' = restore,
           NEW op, NEW kind, NEW p,
           \/ op = "background" /\ kind = "checkpoint" /\ p = "ready"
           \/ op = "completion" /\ kind = "completion" /\ p = "saving",
           NEW t \in Task, t.messages = Append(task[n].messages, Said(kind)), t.pc = p,
           t.trouble # "timedout",
           task' = [task EXCEPT ![n] = t], Save(n),
           Begin(n, op, said + 1)
    PROVE  Conversation' /\ AtWork' /\ Restoring'
<1> DEFINE k == [task |-> n, op |-> op, for |-> said + 1, pc |-> "hide"]
           K == {k}
<1>0. kind \in {"checkpoint", "completion"} /\ p \in {"ready", "saving"} /\ op \in Committing
      /\ Conversation
  BY DEF Committing, Inv
<1>1. /\ GoodTask(t, said') /\ Keeps(task[n].messages, t.messages) /\ t.pc = p
      /\ \E i \in Of(t.messages, kind) : said + 1 <= t.messages[i].id
      /\ said + 1 \in 1..MaxMessages /\ said <= said' /\ said' \in 0..MaxMessages
  <2> DEFINE new == Append(task[n].messages, Said(kind))
  <2>1. Sound(task[n].messages, said)
    BY <1>0 DEF Conversation, GoodTask
  <2>2. /\ Sound(new, said + 1) /\ Keeps(task[n].messages, new) /\ said + 1 \in 0..MaxMessages
        /\ said <= said + 1 /\ said + 1 # 0 /\ said + 1 \in Nat
        /\ Len(task[n].messages) + 1 \in Of(new, kind) /\ new[Len(task[n].messages) + 1].id = said + 1
    BY <1>0, <2>1, SaidSound
  <2> HIDE DEF new
  <2>3. t.messages = new
    BY DEF new
  <2>4. \E i \in Of(new, kind) : said + 1 <= new[i].id
    BY <2>2
  <2>5. said + 1 \in 1..MaxMessages
    BY <2>2, Bounds
  <2>6. QED
    BY <1>0, <2>2, <2>3, <2>4, <2>5 DEF GoodTask
<1>2. task'[n] = t
  BY DEF Inv, Conversation, made
<1>3. Saves(t)
  BY <1>2 DEF Save, Saves
<1>4. k \in Job
  <2>1. n \in 1..MaxTasks
    BY <1>0, Bounds DEF Conversation
  <2>2. said + 1 \in 0..MaxMessages
    BY <1>1, Bounds
  <2>3. QED
    BY <1>0, <2>1, <2>2 DEF Job, Committing
<1>5. Serves(k, t, said')
  <2>1. said + 1 # 0 /\ said + 1 <= said'
    BY <1>1
  <2>2. MarkedKind(k.op) = kind
    BY DEF MarkedKind
  <2>3. QED
    BY <1>1, <2>1, <2>2 DEF Serves, Awaited
<1>6. jobs' = jobs \cup K
  BY DEF Begin
<1>7. K \in SUBSET Job /\ (\A j \in K : j.task = n /\ Serves(j, t, said')) /\ \A j, l \in K : j = l
  BY <1>4, <1>5
<1> HIDE DEF K
<1>8. QED
  BY <1>1, <1>3, <1>6, <1>7, ReadyStep

\* A Task object changes without a new message or new work.
LEMMA ReadyChange ==
    ASSUME Inv, NEW n \in 1..made, task[n].pc = "ready",
           NEW t \in Task, t.messages = task[n].messages, t.pc = "ready",
           t.trouble = task[n].trouble \/ t.trouble # "timedout",
           task' = [task EXCEPT ![n] = t], UNCHANGED <<saved, noted, said, jobs, restore>>
    PROVE  Conversation' /\ AtWork' /\ Restoring'
<1> DEFINE K == {}
<1>1. GoodTask(t, said') /\ said' \in 0..MaxMessages /\ said <= said' /\ Saves(t)
  BY Bounds DEF Inv, Conversation, GoodTask, Saves
<1>2. Keeps(task[n].messages, t.messages)
  BY DEF Keeps
<1>3. /\ K \in SUBSET Job /\ jobs' = jobs \cup K
      /\ (\A k \in K : k.task = n /\ Serves(k, t, said')) /\ \A j, k \in K : j = k
  OBVIOUS
<1> HIDE DEF K
<1>4. QED
  BY <1>1, <1>2, <1>3, ReadyStep

LEMMA SaveCheckpointKeeps ==
    ASSUME Inv, NEW n \in 1..made, SaveCheckpoint(n)
    PROVE  Conversation' /\ AtWork' /\ Restoring'
<1>1. task[n].pc = "ready" /\ task[n].trouble # "timedout" /\ said < MaxMessages /\ restore' = restore
  BY DEF SaveCheckpoint
<1>2. PICK u \in Creating(n, "failed") :
         IF u.tracker
           THEN /\ said' = said + 1
                /\ Put(n, Append(u.messages, Said("checkpoint")), [task EXCEPT ![n] = u])
                /\ Begin(n, "background", said + 1)
           ELSE task' = [task EXCEPT ![n] = u] /\ UNCHANGED <<saved, noted, said, jobs>>
  BY DEF SaveCheckpoint
<1>3. /\ u \in Task /\ u.messages = task[n].messages /\ u.pc = "ready"
      /\ u.trouble \in {task[n].trouble, "failed"} /\ u.trouble # "timedout" /\ "failed" \in Troubles
  BY <1>1, <1>2, Created DEF Inv, Troubles
<1>4. CASE u.tracker
  <2> DEFINE t == [u EXCEPT !.messages = Append(u.messages, Said("checkpoint")), !.pc = "ready"]
  <2>1. /\ t \in Task /\ t.messages = Append(u.messages, Said("checkpoint")) /\ t.pc = "ready"
        /\ t.trouble = u.trouble
    BY <1>1, <1>3, SaidTask DEF Inv
  <2>2. task' = [task EXCEPT ![n] = t]
    <3>1. t = [u EXCEPT !.messages = Append(u.messages, Said("checkpoint"))]
      BY <1>3 DEF Task
    <3>2. task' = [task EXCEPT ![n] = [u EXCEPT !.messages = Append(u.messages, Said("checkpoint"))]]
      BY <1>2, <1>4 DEF Put, Inv, Conversation, made
    <3>3. QED
      BY <3>1, <3>2
  <2>3. said' = said + 1 /\ Save(n) /\ Begin(n, "background", said + 1)
    BY <1>2, <1>4 DEF Put
  <2> HIDE DEF t
  <2>4. QED
    BY <1>1, <1>3, <2>1, <2>2, <2>3, CommitBegins
<1>5. CASE ~u.tracker
  <2>1. task' = [task EXCEPT ![n] = u] /\ UNCHANGED <<saved, noted, said, jobs>>
    BY <1>2, <1>5
  <2>2. QED
    BY <1>1, <1>3, <2>1, ReadyChange
<1>6. QED
  BY <1>4, <1>5

\* A message is said, and no work begins.
LEMMA MessageSaid ==
    ASSUME Inv, NEW n \in 1..made, task[n].pc = "ready",
           said < MaxMessages, said' = said + 1, NEW kind \in {"other", "checkpoint", "completion"},
           NEW t \in Task, t.messages = Append(task[n].messages, Said(kind)), t.pc = "ready",
           t.trouble = task[n].trouble \/ t.trouble # "timedout",
           task' = [task EXCEPT ![n] = t], Save(n), UNCHANGED <<jobs, restore>>
    PROVE  Conversation' /\ AtWork' /\ Restoring'
<1> DEFINE new == Append(task[n].messages, Said(kind))
           K == {}
<1>1. Conversation /\ Sound(task[n].messages, said)
  BY DEF Inv, Conversation, GoodTask
<1>2. /\ Sound(new, said + 1) /\ Keeps(task[n].messages, new) /\ said + 1 \in 0..MaxMessages
      /\ said <= said + 1
  BY <1>1, SaidSound
<1>3. t.messages = new
  OBVIOUS
<1> HIDE DEF new
<1>4. task'[n] = t
  BY DEF Inv, Conversation, made
<1>5. GoodTask(t, said') /\ Saves(t) /\ Keeps(task[n].messages, t.messages)
  BY <1>2, <1>3, <1>4 DEF GoodTask, Saves, Save
<1>6. /\ K \in SUBSET Job /\ jobs' = jobs \cup K
      /\ (\A k \in K : k.task = n /\ Serves(k, t, said')) /\ \A j, k \in K : j = k
  OBVIOUS
<1> HIDE DEF K
<1>7. QED
  BY <1>2, <1>5, <1>6, ReadyStep

LEMMA SayKeeps ==
    ASSUME Inv, NEW n \in 1..made, Say(n)
    PROVE  Conversation' /\ AtWork' /\ Restoring'
<1> DEFINE t == [task[n] EXCEPT !.messages = Append(task[n].messages, Said("other")), !.pc = "ready"]
<1>1. /\ task[n] \in Task /\ Sound(task[n].messages, said)
      /\ task[n].pc = "ready" /\ said < MaxMessages /\ said' = said + 1
      /\ task' = [task EXCEPT ![n] = [task[n] EXCEPT !.messages = Append(task[n].messages, Said("other"))]]
      /\ Save(n) /\ UNCHANGED <<jobs, restore>>
  BY DEF Inv, Conversation, GoodTask, Say, Put
<1>2. Append(task[n].messages, Said("other")) \in Seq(Message)
  BY <1>1, SaidSound DEF Inv, Sound
<1>3. /\ t \in Task /\ t.messages = Append(task[n].messages, Said("other"))
      /\ t.pc = "ready" /\ t.trouble = task[n].trouble
  BY <1>1, <1>2 DEF Task
<1>4. t = [task[n] EXCEPT !.messages = Append(task[n].messages, Said("other"))]
  BY <1>1 DEF Task
<1> HIDE DEF t
<1>5. QED
  BY <1>1, <1>3, <1>4, MessageSaid

LEMMA CompleteKeeps ==
    ASSUME Inv, NEW n \in 1..made, Complete(n)
    PROVE  Conversation' /\ AtWork' /\ Restoring'
<1>1. task[n].pc = "ready" /\ said < MaxMessages /\ said' = said + 1 /\ restore' = restore
  BY DEF Complete
<1>2. PICK u \in IF task[n].trouble = "timedout" THEN {task[n]} ELSE Creating(n, task[n].trouble) :
         LET on == u.tracker /\ u.trouble # "timedout"
         IN  /\ Put(n, Append(u.messages, Said("completion")),
                    [task EXCEPT ![n] = [u EXCEPT !.pc = IF on THEN "saving" ELSE "ready"]])
             /\ IF on THEN Begin(n, "completion", said + 1) ELSE UNCHANGED jobs
  BY DEF Complete
<1>3. u \in Task /\ u.messages = task[n].messages /\ u.trouble = task[n].trouble
  <2>1. CASE u = task[n]
    BY <2>1 DEF Inv, Conversation, GoodTask
  <2>2. CASE u \in Creating(n, task[n].trouble)
    <3>1. task[n].trouble \in Troubles
      BY TaskParts DEF Inv, Conversation, GoodTask
    <3>2. QED
      BY <2>2, <3>1, Created DEF Inv
  <2>3. QED
    BY <1>2, <2>1, <2>2
<1> DEFINE on == u.tracker /\ u.trouble # "timedout"
           p == IF on THEN "saving" ELSE "ready"
           new == Append(u.messages, Said("completion"))
           t == [u EXCEPT !.messages = new, !.pc = p]
<1>4. t \in Task /\ t.messages = new /\ t.pc = p /\ t.trouble = u.trouble
  <2>1. p \in {"ready", "saving"}
    OBVIOUS
  <2>2. Sound(u.messages, said) /\ said < MaxMessages /\ Conversation
    BY <1>1, <1>3 DEF Inv, Conversation, GoodTask
  <2>3. new \in Seq(Message)
    BY <2>2, SaidSound DEF Sound
  <2> HIDE DEF p, on, new
  <2>4. QED
    BY <1>3, <2>1, <2>3 DEF Task
<1>5. task' = [task EXCEPT ![n] = t] /\ Save(n)
  <2> DEFINE w == [u EXCEPT !.pc = p]
  <2>1. t = [w EXCEPT !.messages = new] /\ w \in Task
    BY <1>3 DEF Task
  <2>2. Save(n) /\ task' = [[task EXCEPT ![n] = w] EXCEPT ![n].messages = new]
    BY <1>2 DEF Put
  <2> HIDE DEF t, w, new
  <2>3. task' = [task EXCEPT ![n] = [w EXCEPT !.messages = new]]
    BY <2>2 DEF Inv, Conversation, made
  <2>4. QED
    BY <2>1, <2>2, <2>3
<1> HIDE DEF t
<1>6. CASE on
  <2>1. Begin(n, "completion", said + 1)
    BY <1>2, <1>6
  <2>2. t.pc = "saving" /\ t.trouble # "timedout" /\ t.messages = Append(task[n].messages, Said("completion"))
    BY <1>3, <1>4, <1>6
  <2>3. QED
    BY <1>1, <1>4, <1>5, <2>1, <2>2, CommitBegins
<1>7. CASE ~on
  <2>1. jobs' = jobs
    BY <1>2, <1>7
  <2>2. t.pc = "ready" /\ t.trouble = task[n].trouble
        /\ t.messages = Append(task[n].messages, Said("completion"))
    BY <1>3, <1>4, <1>7
  <2>3. QED
    BY <1>1, <1>4, <1>5, <2>1, <2>2, MessageSaid
<1>8. QED
  BY <1>6, <1>7

-----------------------------------------------------------------------------
(* Its tracker, and the user's answer. *)

\* A Task object changes, its messages stay, and some of its work may end.
LEMMA Changes ==
    ASSUME Inv, NEW n \in 1..made, NEW t \in Task, t.messages = task[n].messages,
           t.pc # "starting" \/ t.trouble # "timedout",
           task' = [task EXCEPT ![n] = t], said' = said, Saves(t), restore' = restore,
           jobs' \subseteq jobs,
           \A j \in jobs' : j.task = n => /\ t.pc # "starting" /\ t.trouble # "timedout"
                                          /\ j.op \in Awaited => t.pc \in {"saving", "ended"},
           n = restore.task =>
             t.pc = task[n].pc /\ (t.trouble = task[n].trouble \/ t.trouble # "none")
    PROVE  Conversation' /\ AtWork' /\ Restoring'
<1> DEFINE K == {}
<1>1. GoodTask(t, said') /\ said' \in 0..MaxMessages /\ said \in Nat /\ said <= said'
  BY Bounds DEF Inv, Conversation, GoodTask
<1>2. ASSUME NEW j \in jobs', j.task = n PROVE Serves(j, t, said')
  <2>1. Serves(j, task[n], said) /\ j.for \in Nat
    BY <1>2, Bounds DEF Inv, AtWork, Job
  <2>2. Keeps(task[n].messages, t.messages)
    BY DEF Keeps
  <2>3. t.pc # "starting" /\ t.trouble # "timedout" /\ (j.op \in Awaited => t.pc \in {"saving", "ended"})
    BY <1>2
  <2>4. said' \in Nat /\ said <= said' /\ (j.op = "first" => t.messages = task[n].messages)
    BY <1>1
  <2>5. QED
    BY <1>1, <2>1, <2>2, <2>3, <2>4, StillServes
<1>3. \A j, k \in jobs' : j.op \in Awaited /\ k.op \in Awaited /\ j.task = n /\ k.task = n => j = k
  BY DEF Inv, AtWork
<1>4. K \in SUBSET Job /\ jobs' \subseteq jobs \cup K /\ K = {} /\ \A j \in K : j.task = n
  OBVIOUS
<1> HIDE DEF K
<1>5. QED
  BY <1>1, <1>2, <1>3, <1>4, OneTaskStep

\* A Task object whose tracker is being made has nothing else under way.
LEMMA StartingAlone ==
    ASSUME Inv, NEW n \in 1..made, task[n].pc = "starting"
    PROVE  n # restore.task /\ \A j \in jobs : j.task # n
<1>1. n # restore.task
  BY Bounds DEF Inv, Restoring, Conversation
<1>2. \A j \in jobs : j.task # n
  BY DEF Inv, AtWork, Serves
<1>3. QED
  BY <1>1, <1>2

LEMMA TrackerEndsKeeps ==
    ASSUME Inv, NEW n \in 1..made, TrackerFails(n) \/ TrackerTimesOut(n)
    PROVE  Conversation' /\ AtWork' /\ Restoring'
<1>1. task[n] \in Task /\ task[n].pc = "starting" /\ UNCHANGED <<saved, noted, said, jobs, restore>>
  BY DEF Inv, Conversation, GoodTask, TrackerFails, TrackerTimesOut, Starting
<1>2. PICK trouble \in {"failed", "timedout"} :
         task' = [task EXCEPT ![n].trouble = trouble, ![n].pc = Released(n)]
  BY DEF TrackerFails, TrackerTimesOut
<1> DEFINE t == [task[n] EXCEPT !.trouble = trouble, !.pc = Released(n)]
<1>3. t \in Task /\ t.messages = task[n].messages /\ t.pc # "starting"
  BY <1>1 DEF Task, Troubles, Released
<1>4. task' = [task EXCEPT ![n] = t]
  BY <1>2
<1>5. Saves(t)
  BY <1>1 DEF Saves
<1>6. n # restore.task /\ \A j \in jobs' : j.task # n
  BY <1>1, StartingAlone
<1>7. said' = said /\ restore' = restore /\ jobs' \subseteq jobs
  BY <1>1
<1> HIDE DEF t
<1>8. QED
  BY <1>3, <1>4, <1>5, <1>6, <1>7, Changes

LEMMA WarnedKeeps ==
    ASSUME Inv, NEW n \in 1..made, Warned(n)
    PROVE  Conversation' /\ AtWork' /\ Restoring'
<1> DEFINE t == [task[n] EXCEPT !.warn = FALSE, !.trouble = "slow"]
<1>1. task[n] \in Task /\ UNCHANGED <<saved, noted, said, jobs, restore>>
  BY DEF Inv, Conversation, GoodTask, Warned
<1>2. t \in Task /\ t.messages = task[n].messages /\ t.pc = task[n].pc /\ t.trouble = "slow"
  BY <1>1 DEF Task, Troubles
<1>3. task' = [task EXCEPT ![n] = t]
  BY DEF Warned
<1>4. Saves(t)
  BY <1>1 DEF Saves
<1>5. \A j \in jobs : j.task = n => task[n].pc # "starting" /\ (j.op \in Awaited => task[n].pc \in {"saving", "ended"})
  BY DEF Inv, AtWork, Serves
<1> HIDE DEF t
<1>6. QED
  BY <1>1, <1>2, <1>3, <1>4, <1>5, Changes

LEMMA ResumeKeeps ==
    ASSUME Inv, NEW n \in 1..made, Resume(n)
    PROVE  Conversation' /\ AtWork' /\ Restoring'
<1> DEFINE t == [task[n] EXCEPT !.pc = "ready"]
<1>1. /\ task[n] \in Task /\ UNCHANGED <<saved, noted, said, jobs, restore>>
      /\ task[n].pc = "waiting" /\ restore.task # n
  BY DEF Inv, Conversation, GoodTask, Resume
<1>2. t \in Task /\ t.messages = task[n].messages /\ t.pc = "ready" /\ t.trouble = task[n].trouble
  BY <1>1 DEF Task
<1>3. task' = [task EXCEPT ![n] = t]
  BY DEF Resume
<1>4. Saves(t)
  BY <1>1 DEF Saves
<1>5. \A j \in jobs : j.task = n => task[n].trouble # "timedout" /\ ~(j.op \in Awaited)
  BY <1>1 DEF Inv, AtWork, Serves
<1> HIDE DEF t
<1>6. QED
  BY <1>1, <1>2, <1>3, <1>4, <1>5, Changes

LEMMA TrackerReadyKeeps ==
    ASSUME Inv, NEW n \in 1..made, TrackerReady(n)
    PROVE  Conversation' /\ AtWork' /\ Restoring'
<1> DEFINE t == [task[n] EXCEPT !.tracker = TRUE, !.warn = FALSE, !.pc = "saving"]
           k == [task |-> n, op |-> "first", for |-> said + 1, pc |-> "hide"]
           K == {k}
<1>1. /\ GoodTask(task[n], said) /\ task[n] \in Task /\ task[n].pc = "starting"
      /\ said < MaxMessages /\ said' = said + 1
      /\ UNCHANGED <<saved, noted, restore>> /\ jobs' = jobs \cup K
      /\ task' = [task EXCEPT ![n] = t]
  BY DEF Inv, Conversation, GoodTask, TrackerReady, Starting, Begin
<1>2. /\ t \in Task /\ t.messages = task[n].messages /\ t.pc = "saving" /\ t.trouble = task[n].trouble
  BY <1>1 DEF Task
<1>3. said \in Nat /\ said + 1 \in 1..MaxMessages /\ said' \in 0..MaxMessages /\ said' \in Nat /\ said <= said'
  BY <1>1, Bounds DEF Inv, Conversation
<1> HIDE DEF t
<1>4. /\ Sound(t.messages, said') /\ GoodTask(t, said') /\ t.trouble # "timedout" /\ Saves(t)
      /\ \A i \in DOMAIN t.messages : t.messages[i].id <= said + 1
  <2>1. Sound(t.messages, said')
    BY <1>1, <1>2, <1>3, SoundLater DEF GoodTask
  <2>2. QED
    BY <1>1, <1>2, <2>1 DEF GoodTask, Saves, Sound
<1>5. k \in Job
  <2>1. n \in 1..MaxTasks
    BY Bounds DEF Inv, Conversation
  <2>2. said + 1 \in 0..MaxMessages
    BY <1>3, Bounds
  <2>3. QED
    BY <2>1, <2>2 DEF Job
<1>6. Serves(k, t, said')
  BY <1>1, <1>2, <1>3, <1>4 DEF Serves
<1>7. n # restore.task /\ \A j \in jobs : j.task # n
  BY <1>1, StartingAlone
<1>8. /\ K \in SUBSET Job /\ jobs' \subseteq jobs \cup K /\ \A j \in K : j.task = n
      /\ \A j \in jobs' : j.task = n => j = k
  BY <1>1, <1>5, <1>7
<1> HIDE DEF K, k
<1>9. /\ \A j \in jobs' : j.task = n => Serves(j, t, said')
      /\ \A j, l \in jobs' :
           j.op \in Awaited /\ l.op \in Awaited /\ j.task = n /\ l.task = n => j = l
  BY <1>6, <1>8
<1>10. QED
  BY <1>1, <1>3, <1>4, <1>7, <1>8, <1>9, OneTaskStep

-----------------------------------------------------------------------------
(* The work in the shadow repository. *)

\* A piece of work goes on for its Task object, which has no tracker in the making.
LEMMA WorkParts ==
    ASSUME Inv, NEW j \in jobs
    PROVE  /\ j \in Job /\ j.for \in Nat /\ j.for \in 0..MaxMessages
           /\ j.task \in 1..made /\ j.task # restore.task
           /\ Serves(j, task[j.task], said)
           /\ task[j.task] \in Task /\ GoodTask(task[j.task], said)
           /\ Sound(task[j.task].messages, said)
<1>1. j \in Job /\ j.task \in 1..MaxTasks /\ j.for \in 0..MaxMessages /\ j.task <= made
  BY DEF Inv, AtWork, Job
<1>2. j.for \in Nat /\ j.task \in 1..made
  BY <1>1, Bounds DEF Inv, Conversation
<1>3. j.task # restore.task /\ Serves(j, task[j.task], said)
  BY DEF Inv, AtWork, Restoring
<1>4. task[j.task] \in Task /\ GoodTask(task[j.task], said) /\ Sound(task[j.task].messages, said)
  BY <1>2 DEF Inv, Conversation, GoodTask
<1>5. QED
  BY <1>1, <1>2, <1>3, <1>4

\* A piece of work moves on.
LEMMA Moves ==
    ASSUME Inv, NEW j \in jobs, NEW k \in Job, k.task = j.task, k.op = j.op, k.for = j.for,
           k.pc = "commit" => k.op \in Committing,
           jobs' = (jobs \ {j}) \cup {k}, UNCHANGED <<task, saved, noted, said, restore>>
    PROVE  Conversation' /\ AtWork' /\ Restoring'
<1>1. Conversation'
  BY DEF Inv, Conversation, made
<1>2. jobs' \subseteq Job /\ \A l \in jobs' : l \in jobs \/ l = k
  BY DEF Inv, AtWork
<1>3. Serves(k, task[k.task], said)
  BY DEF Inv, AtWork, Serves
<1>4. k.task <= made /\ k.task # restore.task
  BY DEF Inv, AtWork, Restoring
<1>5. \A l \in jobs' : l.task <= made /\ l.task # restore.task /\ Serves(l, task[l.task], said)
  BY <1>2, <1>3, <1>4 DEF Inv, AtWork, Restoring
<1>6. \A l, m \in jobs' : l.op \in Awaited /\ m.op \in Awaited /\ l.task = m.task => l = m
  <2>1. \A l \in jobs \ {j} : ~(l.op \in Awaited /\ j.op \in Awaited /\ l.task = j.task)
    BY DEF Inv, AtWork
  <2>2. \A l \in jobs \ {j} : ~(l.op \in Awaited /\ k.op \in Awaited /\ l.task = k.task)
    BY <2>1
  <2>3. \A l, m \in jobs \ {j} : l.op \in Awaited /\ m.op \in Awaited /\ l.task = m.task => l = m
    BY DEF Inv, AtWork
  <2>4. QED
    BY <2>2, <2>3
<1>7. made' = made
  BY DEF made
<1>8. AtWork'
  BY <1>2, <1>5, <1>6, <1>7 DEF AtWork
<1>9. Restoring'
  BY <1>5, <1>7 DEF Inv, Restoring, RestoredTogether
<1>10. QED
  BY <1>1, <1>8, <1>9

LEMMA WorkMovesKeeps ==
    ASSUME Inv, NEW j \in jobs, Hide(j) \/ Add(j) \/ Show(j) \/ Commit(j)
    PROVE  Conversation' /\ AtWork' /\ Restoring'
<1>1. PICK pc \in {"add", "show", "commit", "land"} :
         jobs' = (jobs \ {j}) \cup {[j EXCEPT !.pc = pc]} /\ (pc = "commit" => j.op \in Committing)
  BY DEF Hide, Add, Show, Commit, To
<1>2. UNCHANGED <<task, saved, noted, said, restore>>
  BY DEF Hide, Add, Show, Commit, At, Still
<1> DEFINE k == [j EXCEPT !.pc = pc]
<1>3. k \in Job /\ k.task = j.task /\ k.op = j.op /\ k.for = j.for /\ k.pc = pc
  BY WorkParts DEF Job
<1> HIDE DEF k
<1>4. jobs' = (jobs \ {j}) \cup {k} /\ (k.pc = "commit" => k.op \in Committing)
  BY <1>1, <1>3 DEF k
<1>5. QED
  BY <1>2, <1>3, <1>4, Moves

\* A piece of work ends, with what it was awaited for.
LEMMA WorkEnds ==
    ASSUME Inv, NEW j \in jobs, NEW t \in Task, t.messages = task[j.task].messages,
           t.trouble = task[j.task].trouble,
           \/ t.pc = task[j.task].pc
           \/ j.op \in Awaited /\ t.pc \in {"ready", "ended"},
           task' = [task EXCEPT ![j.task] = t], said' = said, Saves(t), restore' = restore,
           jobs' = jobs \ {j}
    PROVE  Conversation' /\ AtWork' /\ Restoring'
<1>1. /\ j.task \in 1..made /\ j.task # restore.task
      /\ t.pc # "starting" /\ t.trouble # "timedout"
  BY WorkParts DEF Serves
<1>2. \A k \in jobs' : k.task = j.task /\ k.op \in Awaited => t.pc \in {"saving", "ended"}
  <2>1. \A k \in jobs' : k.task = j.task /\ k.op \in Awaited =>
           task[j.task].pc \in {"saving", "ended"} /\ ~(j.op \in Awaited)
    BY DEF Inv, AtWork, Serves
  <2>2. QED
    BY <2>1
<1>3. jobs' \subseteq jobs
  OBVIOUS
<1>4. QED
  BY <1>1, <1>2, <1>3, Changes

LEMMA CommitFailsKeeps ==
    ASSUME Inv, NEW j \in jobs, CommitFails(j)
    PROVE  Conversation' /\ AtWork' /\ Restoring'
<1>1. /\ j \in Job /\ task[j.task] \in Task /\ j.pc = "commit" /\ Serves(j, task[j.task], said)
      /\ jobs' = jobs \ {j} /\ UNCHANGED <<saved, noted, said, restore>>
  BY WorkParts DEF CommitFails, At
<1>2. j.op \in {"background", "completion", "first"}
  BY <1>1 DEF Serves, Committing
<1> DEFINE pc == CASE j.op = "background" -> task[j.task].pc
                   [] j.op = "completion" -> Released(j.task)
                   [] j.op = "first" -> "ended"
           t == [task[j.task] EXCEPT !.pc = pc]
<1>3. task' = [task EXCEPT ![j.task] = t]
  BY DEF CommitFails
<1>4. pc = task[j.task].pc \/ (j.op \in Awaited /\ pc \in {"ready", "ended"})
  BY <1>2 DEF Released, Awaited
<1> HIDE DEF pc
<1>5. /\ t \in Task /\ t.messages = task[j.task].messages /\ t.trouble = task[j.task].trouble
      /\ t.pc = pc
  BY <1>1, <1>4 DEF Task
<1>6. Saves(t)
  BY <1>1 DEF Saves
<1> HIDE DEF t
<1>7. QED
  BY <1>1, <1>3, <1>4, <1>5, <1>6, WorkEnds

LEMMA LandNewsKeeps ==
    ASSUME Inv, NEW j \in jobs, LandNews(j)
    PROVE  Conversation' /\ AtWork' /\ Restoring'
<1> DEFINE n == j.task
           t == [task[n] EXCEPT !.pc = Released(n)]
<1>1. /\ n \in 1..made /\ task[n] \in Task /\ j.op \in Awaited
      /\ jobs' = jobs \ {j} /\ UNCHANGED <<said, restore>> /\ task' = [task EXCEPT ![n] = t]
      /\ Save(n) \/ UNCHANGED <<saved, noted>>
  BY WorkParts DEF LandNews, Landing, At, Awaited
<1>2. Released(n) \in {"ready", "ended"}
  BY DEF Released
<1>3. /\ t \in Task /\ t.messages = task[n].messages /\ t.trouble = task[n].trouble
      /\ t.pc = Released(n)
  BY <1>1, <1>2 DEF Task
<1> HIDE DEF t
<1>4. Saves(t)
  BY <1>1 DEF Save, Saves, Inv, Conversation, made
<1>5. QED
  BY <1>1, <1>2, <1>3, <1>4, WorkEnds

\* A commit lands: messages change, but those a commit can land on are kept.
LEMMA Lands ==
    ASSUME Inv, NEW j \in jobs, NEW t \in Task, Sound(t.messages, said),
           Keeps(task[j.task].messages, t.messages),
           DOMAIN t.messages = DOMAIN task[j.task].messages \/ j.op = "first",
           t.trouble = task[j.task].trouble,
           \/ t.pc = task[j.task].pc
           \/ j.op \in Awaited /\ t.pc \in {"ready", "ended"},
           task' = [task EXCEPT ![j.task] = t], said' = said, Saves(t), restore' = restore,
           NEW K \in SUBSET Job, jobs' = (jobs \ {j}) \cup K, \A k, l \in K : k = l,
           \A k \in K : k.task = j.task /\ Serves(k, t, said) /\ j.op \in Awaited
                        /\ t.pc = task[j.task].pc
    PROVE  Conversation' /\ AtWork' /\ Restoring'
<1> DEFINE n == j.task
<1>1. /\ n \in 1..made /\ n # restore.task /\ t.trouble # "timedout" /\ task[n].pc # "starting"
      /\ t.pc # "starting" /\ (j.op \in Awaited => task[n].pc \in {"saving", "ended"})
  BY WorkParts DEF Serves
<1>2. GoodTask(t, said') /\ said \in Nat /\ said' \in 0..MaxMessages /\ said <= said'
  BY <1>1, Bounds DEF GoodTask, Inv, Conversation
<1>3. \A k \in jobs \ {j} : k.task = n /\ k.op \in Awaited =>
        task[n].pc \in {"saving", "ended"} /\ ~(j.op \in Awaited)
  BY DEF Inv, AtWork, Serves
<1>4. ASSUME NEW k \in jobs \ {j}, k.task = n PROVE Serves(k, t, said')
  <2>1. Serves(k, task[n], said) /\ k.for \in Nat
    BY <1>4, WorkParts
  <2>2. k.op \in Awaited => t.pc \in {"saving", "ended"} /\ t.pc = task[n].pc /\ ~(j.op \in Awaited)
    BY <1>3, <1>4
  <2>3. CASE k.op # "first"
    BY <1>1, <1>2, <2>1, <2>2, <2>3, StillServes
  <2>4. CASE k.op = "first"
    <3>1. j.op # "first"
      BY <2>2, <2>4 DEF Awaited
    <3>2. \A i \in DOMAIN t.messages :
             i \in DOMAIN task[n].messages /\ t.messages[i].id = task[n].messages[i].id
      BY <3>1 DEF Keeps
    <3>3. \A i \in DOMAIN t.messages : t.messages[i].id <= k.for
      BY <2>1, <2>4, <3>2 DEF Serves
    <3>4. QED
      BY <1>1, <1>2, <2>1, <2>2, <2>4, <3>3 DEF Serves
  <2>5. QED
    BY <2>3, <2>4
<1>5. \A k \in jobs' : k.task = n => Serves(k, t, said')
  BY <1>4
<1>6. \A k, l \in jobs' : k.op \in Awaited /\ l.op \in Awaited /\ k.task = n /\ l.task = n => k = l
  <2>1. \A k, l \in jobs \ {j} : k.op \in Awaited /\ l.op \in Awaited /\ k.task = n /\ l.task = n => k = l
    BY DEF Inv, AtWork
  <2>2. \A k \in jobs \ {j}, l \in K : ~(k.op \in Awaited /\ k.task = n)
    BY <1>3
  <2>3. QED
    BY <2>1, <2>2
<1>7. jobs' \subseteq jobs \cup K /\ (\A k \in K : k.task = n) /\ task' = [task EXCEPT ![n] = t]
  OBVIOUS
<1> HIDE DEF n
<1>8. QED
  BY <1>1, <1>2, <1>5, <1>6, <1>7, OneTaskStep

\* A commit lands on a message that is not older than the one it was for.
LEMMA CommitLands ==
    ASSUME Inv, NEW j \in jobs, j.op \in {"background", "completion"},
           NEW msgs, msgs = task[j.task].messages
    PROVE  LET i == Latest(Of(msgs, MarkedKind(j.op)))
               marked == Marked(msgs, i, j.for)
           IN  /\ Of(msgs, MarkedKind(j.op)) # {}
               /\ Sound(marked, said) /\ marked \in Seq(Message)
               /\ Keeps(msgs, marked) /\ DOMAIN marked = DOMAIN msgs
<1> DEFINE kind == MarkedKind(j.op)
           i == Latest(Of(msgs, kind))
           marked == Marked(msgs, i, j.for)
<1>1. /\ Sound(msgs, said) /\ msgs \in Seq(Message) /\ said \in Nat
      /\ j.for \in Nat /\ j.for \in 0..MaxMessages
  BY WorkParts, Bounds DEF Inv, Conversation, Sound
<1>2. PICK k \in Of(msgs, kind) : j.for <= msgs[k].id
  BY WorkParts DEF Serves
<1> HIDE DEF kind
<1>3. i \in DOMAIN msgs /\ msgs[k].id <= msgs[i].id
  BY <1>1, LatestIsLast
<1>4. msgs[k] \in Message /\ msgs[i] \in Message
  <2>1. k \in DOMAIN msgs /\ DOMAIN msgs = 1..Len(msgs)
    BY <1>1 DEF Of
  <2>2. QED
    BY <1>1, <1>3, <2>1
<1>5. j.for <= msgs[i].id
  BY <1>1, <1>2, <1>3, <1>4, MessageParts
<1> HIDE DEF i
<1>6. /\ Sound(marked, said) /\ DOMAIN marked = DOMAIN msgs
      /\ \A l \in DOMAIN msgs : marked[l].id = msgs[l].id /\ marked[l].kind = msgs[l].kind
  <2>1. /\ Sound(msgs, said) /\ said \in Nat /\ i \in DOMAIN msgs
        /\ j.for \in 0..MaxMessages /\ j.for <= msgs[i].id
    BY <1>1, <1>3, <1>5
  <2> HIDE DEF marked
  <2>2. ASSUME NEW h \in 0..MaxMessages, NEW e \in DOMAIN msgs, h <= msgs[e].id
        PROVE  /\ Sound(Marked(msgs, e, h), said) /\ DOMAIN Marked(msgs, e, h) = DOMAIN msgs
               /\ \A l \in DOMAIN msgs : /\ Marked(msgs, e, h)[l].id = msgs[l].id
                                         /\ Marked(msgs, e, h)[l].kind = msgs[l].kind
    BY <2>1, <2>2, SoundMark
  <2>3. QED
    BY <2>1, <2>2 DEF marked
<1> HIDE DEF marked
<1>7. Keeps(msgs, marked) /\ marked \in Seq(Message)
  BY <1>6 DEF Keeps, Sound
<1>8. QED
  BY <1>2, <1>6, <1>7 DEF marked, i, kind

LEMMA LandBackgroundKeeps ==
    ASSUME Inv, NEW j \in jobs, LandBackground(j)
    PROVE  Conversation' /\ AtWork' /\ Restoring'
<1> DEFINE n == j.task
           msgs == task[n].messages
           i == Latest(Of(msgs, "checkpoint"))
           marked == [msgs EXCEPT ![i].hash = j.for]
           t == [task[n] EXCEPT !.messages = marked]
           K == {}
<1>1. /\ n \in 1..made /\ task[n] \in Task /\ j.op = "background"
      /\ jobs' = jobs \ {j} /\ UNCHANGED <<said, restore>>
  BY WorkParts DEF LandBackground, Landing, At
<1>2. MarkedKind(j.op) = "checkpoint"
  BY <1>1 DEF MarkedKind
<1>3. /\ Of(msgs, "checkpoint") # {} /\ Sound(marked, said) /\ marked \in Seq(Message)
      /\ Keeps(msgs, marked) /\ DOMAIN marked = DOMAIN msgs
  <2> HIDE DEF n
  <2>1. \A x : x = msgs =>
           LET l == Latest(Of(x, MarkedKind(j.op)))
           IN  /\ Of(x, MarkedKind(j.op)) # {} /\ Sound(Marked(x, l, j.for), said)
               /\ Marked(x, l, j.for) \in Seq(Message)
               /\ Keeps(x, Marked(x, l, j.for))
               /\ DOMAIN Marked(x, l, j.for) = DOMAIN x
    BY <1>1, CommitLands DEF n
  <2>2. marked = Marked(msgs, i, j.for)
    BY DEF Marked
  <2> HIDE DEF marked
  <2>3. QED
    BY <1>2, <2>1, <2>2
<1>4. task' = [task EXCEPT ![n].messages = marked] /\ Save(n)
  BY <1>3 DEF LandBackground, Put
<1> HIDE DEF marked
<1>5. task' = [task EXCEPT ![n] = t]
  BY <1>4
<1>6. t \in Task /\ t.messages = marked /\ t.pc = task[n].pc /\ t.trouble = task[n].trouble
  BY <1>1, <1>3 DEF Task
<1> HIDE DEF t
<1>7. Saves(t)
  <2> HIDE DEF n
  <2>1. task'[n] = t
    BY <1>1, <1>5 DEF Inv, Conversation, made
  <2>2. QED
    BY <1>4, <2>1 DEF Save, Saves
<1>8. K \in SUBSET Job /\ jobs' = (jobs \ {j}) \cup K /\ K = {}
  BY <1>1
<1> HIDE DEF K
<1>9. QED
  BY <1>1, <1>3, <1>5, <1>6, <1>7, <1>8, Lands

LEMMA LandCompletionKeeps ==
    ASSUME Inv, NEW j \in jobs, LandCompletion(j)
    PROVE  Conversation' /\ AtWork' /\ Restoring'
<1> DEFINE n == j.task
           msgs == task[n].messages
           results == Of(msgs, "completion")
           last == Latest(results)
           marked == [msgs EXCEPT ![last].hash = j.for]
           before == results \ {last}
           base == IF before # {} /\ msgs[Latest(before)].hash # 0
                     THEN msgs[Latest(before)].hash
                     ELSE IF Of(msgs, "checkpoint") = {} THEN 0
                     ELSE msgs[Earliest(Of(msgs, "checkpoint"))].hash
           news == [j EXCEPT !.op = "news", !.for = 0, !.pc = "hide"]
<1>1. /\ n \in 1..made /\ task[n] \in Task /\ j.op = "completion" /\ j.op \in Awaited
      /\ UNCHANGED <<said, restore>>
  BY WorkParts DEF LandCompletion, Landing, At, Awaited
<1>2. MarkedKind(j.op) = "completion"
  BY <1>1 DEF MarkedKind
<1>3. /\ results # {} /\ Sound(marked, said) /\ marked \in Seq(Message)
      /\ Keeps(msgs, marked) /\ DOMAIN marked = DOMAIN msgs
  <2> HIDE DEF n
  <2>1. \A x : x = msgs =>
           LET l == Latest(Of(x, MarkedKind(j.op)))
           IN  /\ Of(x, MarkedKind(j.op)) # {} /\ Sound(Marked(x, l, j.for), said)
               /\ Marked(x, l, j.for) \in Seq(Message)
               /\ Keeps(x, Marked(x, l, j.for))
               /\ DOMAIN Marked(x, l, j.for) = DOMAIN x
    BY <1>1, CommitLands DEF n
  <2>2. marked = Marked(msgs, last, j.for)
    BY DEF Marked
  <2> HIDE DEF marked
  <2>3. QED
    BY <1>2, <2>1, <2>2
<1>4. IF base = 0
        THEN /\ Put(n, marked, [task EXCEPT ![n].pc = Released(n)])
             /\ jobs' = jobs \ {j}
        ELSE Put(n, marked, task) /\ To(j, news)
  <2>1. IF results = {}
            THEN /\ task' = [task EXCEPT ![n].pc = Released(n)] /\ UNCHANGED <<saved, noted>>
                 /\ jobs' = jobs \ {j}
          ELSE IF base = 0
            THEN /\ Put(n, marked, [task EXCEPT ![n].pc = Released(n)])
                 /\ jobs' = jobs \ {j}
            ELSE /\ Put(n, marked, task)
                 /\ To(j, news)
    BY DEF LandCompletion
  <2> HIDE DEF results, base, marked, news
  <2>2. QED
    BY <1>3, <2>1
<1> HIDE DEF marked, base, results, last, before
<1>5. CASE base = 0
  <2> DEFINE t == [task[n] EXCEPT !.messages = marked, !.pc = Released(n)]
             K == {}
  <2>1. /\ task' = [[task EXCEPT ![n].pc = Released(n)] EXCEPT ![n].messages = marked]
        /\ Save(n) /\ jobs' = jobs \ {j}
    BY <1>4, <1>5 DEF Put
  <2>2. Released(n) \in {"ready", "ended"}
    BY DEF Released
  <2>3. /\ t \in Task /\ t.messages = marked /\ t.trouble = task[n].trouble
        /\ t.pc = Released(n)
    BY <1>1, <1>3, <2>2 DEF Task
  <2>4. t = [[task[n] EXCEPT !.pc = Released(n)] EXCEPT !.messages = marked]
    <3> DEFINE p == Released(n)
    <3>1. p \in {"ready", "ended"}
      BY <2>2
    <3> HIDE DEF p
    <3>2. [task[n] EXCEPT !.messages = marked, !.pc = p]
            = [[task[n] EXCEPT !.pc = p] EXCEPT !.messages = marked]
      BY <1>1, <1>3, <3>1 DEF Task
    <3>3. QED
      BY <3>2 DEF p
  <2>5. task' = [task EXCEPT ![n] = t]
    <3> HIDE DEF n, t
    <3>1. task' = [task EXCEPT ![n] = [[task[n] EXCEPT !.pc = Released(n)] EXCEPT !.messages = marked]]
      BY <1>1, <2>1 DEF Inv, Conversation, made
    <3>2. QED
      BY <2>4, <3>1
  <2> HIDE DEF t
  <2>6. Saves(t)
    <3> HIDE DEF n
    <3>1. task'[n] = t
      BY <1>1, <2>5 DEF Inv, Conversation, made
    <3>2. QED
      BY <2>1, <3>1 DEF Save, Saves
  <2>7. K \in SUBSET Job /\ jobs' = (jobs \ {j}) \cup K /\ K = {}
    BY <2>1
  <2> HIDE DEF K
  <2>8. QED
    BY <1>1, <1>3, <2>2, <2>3, <2>5, <2>6, <2>7, Lands
<1>6. CASE base # 0
  <2> DEFINE t == [task[n] EXCEPT !.messages = marked]
             K == {news}
  <2>1. /\ task' = [task EXCEPT ![n] = t]
        /\ Save(n) /\ jobs' = (jobs \ {j}) \cup K
    BY <1>4, <1>6 DEF Put, To
  <2>2. /\ t \in Task /\ t.messages = marked /\ t.trouble = task[n].trouble
        /\ t.pc = task[n].pc
    BY <1>1, <1>3 DEF Task
  <2> HIDE DEF t
  <2>3. Saves(t)
    <3> HIDE DEF n
    <3>1. task'[n] = t
      BY <1>1, <2>1 DEF Inv, Conversation, made
    <3>2. QED
      BY <2>1, <3>1 DEF Save, Saves
  <2>4. j \in Job /\ Serves(j, task[n], said)
    BY WorkParts
  <2>5. /\ news \in Job /\ news.task = n /\ news.op = "news" /\ news.pc = "hide"
    <3>1. 0 \in 0..MaxMessages
      BY Bounds
    <3>2. QED
      BY <2>4, <3>1 DEF Job
  <2> HIDE DEF news
  <2>6. Serves(news, t, said)
    BY <1>1, <2>2, <2>4, <2>5 DEF Serves, Committing, Awaited
  <2>7. /\ K \in SUBSET Job /\ (\A k, l \in K : k = l)
        /\ \A k \in K : k.task = j.task /\ Serves(k, t, said) /\ j.op \in Awaited
                        /\ t.pc = task[j.task].pc
    BY <1>1, <2>2, <2>5, <2>6
  <2> HIDE DEF K
  <2>8. QED
    BY <1>1, <1>3, <2>1, <2>2, <2>3, <2>7, Lands
<1>7. QED
  BY <1>5, <1>6

LEMMA LandFirstKeeps ==
    ASSUME Inv, NEW j \in jobs, LandFirst(j)
    PROVE  Conversation' /\ AtWork' /\ Restoring'
<1> DEFINE n == j.task
<1>1. /\ n \in 1..made /\ task[n] \in Task /\ j.op = "first" /\ j.op \in Awaited
      /\ jobs' = jobs \ {j} /\ UNCHANGED <<said, restore>>
  BY WorkParts DEF LandFirst, Landing, At, Awaited
<1>2. CASE n = made
  <2> DEFINE m == [id |-> j.for, kind |-> "checkpoint", hash |-> j.for]
             msgs == task[n].messages
             new == Append(msgs, m)
             w == [task[n] EXCEPT !.pc = "ready"]
             t == [w EXCEPT !.messages = new]
             K == {}
  <2>1. /\ task' = [[task EXCEPT ![n].pc = "ready"] EXCEPT ![n].messages = new]
        /\ Save(n)
    BY <1>2 DEF LandFirst, Put
  <2>2. /\ j.for \in Nat /\ j.for \in 0..MaxMessages /\ j.for # 0 /\ j.for <= said /\ said \in Nat
        /\ Sound(msgs, said) /\ \A i \in DOMAIN msgs : msgs[i].id <= j.for
    <3>1. Serves(j, task[n], said) /\ j.for \in Nat /\ j.for \in 0..MaxMessages /\ Sound(msgs, said)
      BY WorkParts
    <3>2. QED
      BY <1>1, <3>1, Bounds DEF Serves, Committing, Inv, Conversation
  <2>3. m \in Message /\ m.id = j.for /\ m.hash = j.for /\ m.hash <= m.id
    BY <2>2, Bounds DEF Message
  <2> HIDE DEF m
  <2>4. /\ Sound(new, said) /\ \A i \in DOMAIN msgs : new[i] = msgs[i]
        /\ DOMAIN new = 1..Len(msgs) + 1 /\ DOMAIN msgs = 1..Len(msgs)
    BY <2>2, <2>3, SoundAppend
  <2> HIDE DEF new, msgs
  <2>5. new \in Seq(Message) /\ Len(msgs) \in Nat
    BY <2>2, <2>4 DEF Sound
  <2>6. Keeps(msgs, new)
    BY <2>4, <2>5 DEF Keeps
  <2>7. w \in Task /\ t \in Task /\ t.messages = new /\ t.trouble = task[n].trouble /\ t.pc = "ready"
    BY <1>1, <2>5 DEF Task
  <2>8. task' = [task EXCEPT ![n] = t]
    <3> HIDE DEF n
    <3>1. QED
      BY <1>1, <2>1 DEF Inv, Conversation, made
  <2> HIDE DEF t
  <2>9. Saves(t)
    <3> HIDE DEF n
    <3>1. task'[n] = t
      BY <1>1, <2>8 DEF Inv, Conversation, made
    <3>2. QED
      BY <2>1, <3>1 DEF Save, Saves
  <2>10. K \in SUBSET Job /\ jobs' = (jobs \ {j}) \cup K /\ K = {}
    BY <1>1
  <2> HIDE DEF K
  <2>11. QED
    BY <1>1, <2>4, <2>6, <2>7, <2>8, <2>9, <2>10, Lands DEF msgs
<1>3. CASE n # made
  <2> DEFINE t == [task[n] EXCEPT !.pc = "ended"]
  <2>1. task' = [task EXCEPT ![n] = t] /\ UNCHANGED <<saved, noted>>
    BY <1>3 DEF LandFirst
  <2>2. t \in Task /\ t.messages = task[n].messages /\ t.trouble = task[n].trouble /\ t.pc = "ended"
    BY <1>1 DEF Task
  <2> HIDE DEF t
  <2>3. Saves(t)
    BY <2>1 DEF Saves
  <2>4. QED
    BY <1>1, <2>1, <2>2, <2>3, WorkEnds
<1>4. QED
  BY <1>2, <1>3

-----------------------------------------------------------------------------
(* The user. *)

\* The conversation is opened again, by a Task object that has nothing under way.
LEMMA Reopened ==
    ASSUME Inv, NEW f \in {made, made + 1}, f = made => \A j \in jobs : j.task # made,
           Reopen(f), UNCHANGED <<saved, noted, said, jobs>>
    PROVE  /\ Conversation' /\ AtWork'
           /\ made' = f /\ f \in 1..MaxTasks /\ made \in Nat /\ f \in Nat
           /\ task'[f].pc = "waiting"
           /\ \A n \in 1..made : n # f => task'[n] = Aborted(task[n])
           /\ \A j \in jobs : j.task # f
<1> DEFINE t == Opened(saved, noted)
<1>1. /\ made \in Nat /\ 1 <= made /\ said \in Nat /\ noted \in Troubles /\ Sound(saved, said)
      /\ f \in Nat /\ f <= MaxTasks /\ f \in 1..MaxTasks
  BY Bounds DEF Inv, Conversation, Reopen
<1>2. t \in Task /\ t.messages = saved /\ t.pc = "waiting"
  BY <1>1 DEF Sound, Task, Opened
<1>3. ASSUME NEW n \in 1..made
      PROVE  /\ GoodTask(Aborted(task[n]), said) /\ Aborted(task[n]).messages = task[n].messages
             /\ Aborted(task[n]).trouble = task[n].trouble
             /\ task[n].pc # "starting" => Aborted(task[n]).pc = "ended"
  <2>1. task[n] \in Task /\ GoodTask(task[n], said)
    BY DEF Inv, Conversation, GoodTask
  <2> DEFINE p == IF task[n].pc = "starting" THEN task[n].pc ELSE "ended"
             a == [task[n] EXCEPT !.pc = p]
  <2>2. a = Aborted(task[n])
    BY DEF Aborted
  <2>3. /\ a \in Task /\ a.messages = task[n].messages /\ a.trouble = task[n].trouble
        /\ a.pc = p
    BY <2>1 DEF Task
  <2> HIDE DEF a
  <2>4. GoodTask(a, said)
    BY <2>1, <2>3 DEF GoodTask
  <2>5. QED
    BY <2>2, <2>3, <2>4
<1>4. task' = [n \in 1..f |-> IF n = f THEN t ELSE Aborted(task[n])]
  BY DEF Reopen
<1> HIDE DEF t
<1>5. /\ task'[f] = t /\ \A n \in 1..made : n # f => task'[n] = Aborted(task[n])
      /\ made' = f /\ \A n \in 1..f : n # f => n \in 1..made
  BY <1>1, <1>4 DEF made
<1>6. GoodTask(t, said)
  BY <1>1, <1>2 DEF GoodTask
<1>7. /\ \A n \in 1..f : GoodTask(task'[n], said)
      /\ task' \in Seq(Task)
  <2>1. \A n \in 1..f : GoodTask(task'[n], said)
    BY <1>3, <1>5, <1>6
  <2>2. \A n \in 1..f : (IF n = f THEN t ELSE Aborted(task[n])) \in Task
    BY <1>2, <1>3, <1>5 DEF GoodTask
  <2>3. task' \in Seq(Task)
    BY <1>1, <1>4, <2>2
  <2>4. QED
    BY <2>1, <2>3
<1>8. Conversation'
  BY <1>1, <1>5, <1>7 DEF Inv, Conversation
<1>9. \A j \in jobs : j.task # f /\ j.task <= f /\ Serves(j, task'[j.task], said)
  <2> TAKE j \in jobs
  <2>1. /\ j.task \in 1..made /\ j.task # f
        /\ Serves(j, task[j.task], said)
    BY <1>1, WorkParts
  <2>2. task'[j.task] = Aborted(task[j.task]) /\ j.task <= f
    BY <1>1, <1>5, <2>1
  <2>3. QED
    BY <1>3, <2>1, <2>2 DEF Serves
<1>10. AtWork'
  BY <1>5, <1>9 DEF Inv, AtWork
<1>11. QED
  BY <1>1, <1>2, <1>5, <1>8, <1>9, <1>10

\* A number is used again only if nothing is under way.
LEMMA FreshIsIdle ==
    ASSUME Inv, NEW kept \in BOOLEAN, ~kept => ~Working(made)
    PROVE  /\ Fresh(kept) \in {made, made + 1}
           /\ Fresh(kept) = made => (~kept /\ \A j \in jobs : j.task # made)
  BY Bounds DEF Inv, Conversation, Fresh, Working

LEMMA CancelKeeps ==
    ASSUME Inv, Cancel
    PROVE  Conversation' /\ AtWork' /\ Restoring'
<1> DEFINE kept == Working(made) \/ restore.task = made
           f == Successor
<1>1. f = Fresh(kept)
  BY DEF Successor
<1>2. f \in {made, made + 1} /\ (f = made => ~kept /\ \A j \in jobs : j.task # made)
  <2>1. kept \in BOOLEAN /\ (~kept => ~Working(made))
    OBVIOUS
  <2> HIDE DEF kept, f
  <2>2. QED
    BY <1>1, <2>1, FreshIsIdle
<1>3. Reopen(f) /\ UNCHANGED <<saved, noted, said, jobs, restore>>
  BY DEF Cancel
<1> HIDE DEF f
<1>4. /\ Conversation' /\ AtWork'
      /\ made' = f /\ f \in 1..MaxTasks /\ made \in Nat /\ f \in Nat
      /\ task'[f].pc = "waiting"
      /\ \A n \in 1..made : n # f => task'[n] = Aborted(task[n])
      /\ \A j \in jobs : j.task # f
  BY <1>2, <1>3, Reopened
<1>5. restore.task # 0 =>
        /\ restore.task \in 1..made /\ restore.task # f /\ restore.task <= f
        /\ task'[restore.task] = Aborted(task[restore.task])
  <2>1. restore.task \in 0..MaxTasks /\ restore.task <= made
    BY DEF Inv, Restoring, Restore
  <2>2. QED
    BY <1>2, <1>4, <2>1, Bounds
<1>6. restore.task # 0 =>
        task'[restore.task].pc \in {"waiting", "ended"} /\ task'[restore.task].trouble = task[restore.task].trouble
  <2> HAVE restore.task # 0
  <2>1. task[restore.task] \in Task
    BY <1>5 DEF Inv, Conversation, GoodTask
  <2>2. /\ Aborted(task[restore.task]).pc \in {"waiting", "ended"}
        /\ Aborted(task[restore.task]).trouble = task[restore.task].trouble
    BY <2>1 DEF Inv, Restoring, Aborted, Task
  <2>3. QED
    BY <1>5, <2>2
<1>7. RestoredTogether'
  <2>1. restore.pc # "none" => restore.task # 0
    BY DEF Inv, Restoring
  <2>2. QED
    BY <1>3, <1>6, <2>1 DEF Inv, Restoring, RestoredTogether
<1>8. restore.task <= f
  BY <1>4, <1>5 DEF Inv, Restoring
<1>9. Restoring'
  BY <1>3, <1>4, <1>6, <1>7, <1>8 DEF Inv, Restoring
<1>10. QED
  BY <1>4, <1>9

LEMMA CheckpointRestoreKeeps ==
    ASSUME Inv, CheckpointRestore
    PROVE  Conversation' /\ AtWork' /\ Restoring'
<1> DEFINE kept == Working(made) \/ restore.task = made
           f == Successor
<1>1. f = Fresh(kept)
  BY DEF Successor
<1>2. f \in {made, made + 1} /\ (f = made => \A j \in jobs : j.task # made)
  <2>1. kept \in BOOLEAN /\ (~kept => ~Working(made))
    OBVIOUS
  <2> HIDE DEF kept, f
  <2>2. QED
    BY <1>1, <2>1, FreshIsIdle
<1>3. PICK kind \in Restores, offset \in {0, 1}, i \in DOMAIN saved :
        /\ i > offset
        /\ restore' = [task |-> f, kind |-> kind, at |-> i - offset,
                       reset |-> FALSE, pc |-> IF kind = "task" THEN "cut" ELSE "reset"]
  BY DEF CheckpointRestore
<1>4. Reopen(f) /\ UNCHANGED <<saved, noted, said, jobs>>
  BY DEF CheckpointRestore
<1> HIDE DEF f
<1>5. /\ Conversation' /\ AtWork'
      /\ made' = f /\ f \in 1..MaxTasks /\ made \in Nat /\ f \in Nat
      /\ task'[f].pc = "waiting"
      /\ \A j \in jobs : j.task # f
  BY <1>2, <1>4, Reopened
<1>6. i - offset \in Nat
  <2>1. saved \in Seq(Message)
    BY DEF Inv, Conversation, Sound
  <2>2. QED
    BY <1>3, <2>1
<1>7. restore' \in Restore
  <2>1. f \in 0..MaxTasks
    BY <1>5, Bounds
  <2>2. QED
    BY <1>3, <1>6, <2>1 DEF Restore
<1>8. /\ restore'.task = f /\ restore'.kind = kind
      /\ restore'.pc = IF kind = "task" THEN "cut" ELSE "reset"
  BY <1>3
<1>9. RestoredTogether'
  BY <1>8 DEF RestoredTogether
<1>10. f <= f /\ f # 0
  BY <1>5, Bounds
<1>11. Restoring'
  BY <1>4, <1>5, <1>7, <1>8, <1>9, <1>10 DEF Restoring
<1>12. QED
  BY <1>5, <1>11

\* No restoring is under way any more.
LEMMA RestoredKeeps ==
    ASSUME Inv, AtWork', Conversation', restore' = NoRestore
    PROVE  Restoring'
<1>1. NoRestore \in Restore /\ NoRestore.task = 0 /\ NoRestore.pc = "none"
  BY Bounds DEF NoRestore, Restore, Restores
<1>2. made' \in Nat /\ 0 <= made'
  BY Bounds DEF Conversation
<1>3. \A j \in jobs' : j.task # 0
  <2>1. \A j \in jobs' : j \in Job
    BY DEF AtWork
  <2>2. \A j \in Job : j.task # 0
    BY Bounds DEF Job
  <2>3. QED
    BY <2>1, <2>2
<1>4. RestoredTogether'
  BY <1>1 DEF RestoredTogether
<1>5. QED
  BY <1>1, <1>2, <1>3, <1>4 DEF Restoring

LEMMA RestoreDoneKeeps ==
    ASSUME Inv, RestoreDone
    PROVE  Conversation' /\ AtWork' /\ Restoring'
<1> DEFINE kept == Working(made)
           f == Fresh(kept)
<1>1. f \in {made, made + 1} /\ (f = made => \A j \in jobs : j.task # made)
  <2>1. kept \in BOOLEAN
    BY DEF Working
  <2>2. ~kept => ~Working(made)
    OBVIOUS
  <2> HIDE DEF kept
  <2>3. QED
    BY <2>1, <2>2, FreshIsIdle
<1>2. Reopen(f) /\ UNCHANGED <<saved, noted, said, jobs>> /\ restore' = NoRestore
  BY DEF RestoreDone, RestoreStep
<1> HIDE DEF f
<1>3. Conversation' /\ AtWork'
  BY <1>1, <1>2, Reopened
<1>4. QED
  BY <1>2, <1>3, RestoredKeeps

LEMMA CrashKeeps ==
    ASSUME Inv, Crash
    PROVE  Conversation' /\ AtWork' /\ Restoring'
<1> DEFINE t == Opened(saved, noted)
<1>1. /\ said \in Nat /\ noted \in Troubles /\ Sound(saved, said) /\ said \in 0..MaxMessages
      /\ UNCHANGED <<saved, noted, said>> /\ jobs' = {} /\ restore' = NoRestore /\ task' = <<t>>
  BY Bounds DEF Inv, Conversation, Crash
<1>2. t \in Task /\ GoodTask(t, said)
  <2>1. t \in Task /\ t.messages = saved /\ t.pc = "waiting"
    BY <1>1 DEF Sound, Task, Opened
  <2> HIDE DEF t
  <2>2. QED
    BY <1>1, <2>1 DEF GoodTask
<1> HIDE DEF t
<1>3. task' \in Seq(Task) /\ made' = 1 /\ \A n \in 1..1 : task'[n] = t
  BY <1>1, <1>2 DEF made
<1>4. 1 \in 1..MaxTasks
  BY Bounds
<1>5. Conversation'
  BY <1>1, <1>2, <1>3, <1>4 DEF Conversation
<1>6. AtWork'
  BY <1>1 DEF AtWork
<1>7. QED
  BY <1>1, <1>5, <1>6, RestoredKeeps

-----------------------------------------------------------------------------
(* The restoring. *)

\* The Task object that is being restored.
LEMMA RestoringParts ==
    ASSUME Inv, restore.pc # "none"
    PROVE  /\ restore.task \in 1..made /\ restore.task # 0 /\ restore \in Restore
           /\ task[restore.task] \in Task /\ Sound(task[restore.task].messages, said)
           /\ task[restore.task].pc \in {"waiting", "ended"}
           /\ \A j \in jobs : j.task # restore.task
<1>1. restore \in Restore /\ restore.task \in 0..MaxTasks /\ restore.task <= made /\ restore.task # 0
  BY DEF Inv, Restoring, Restore
<1>2. restore.task \in 1..made
  BY <1>1, Bounds DEF Inv, Conversation
<1>3. task[restore.task] \in Task /\ Sound(task[restore.task].messages, said)
  BY <1>2 DEF Inv, Conversation, GoodTask
<1>4. task[restore.task].pc \in {"waiting", "ended"} /\ \A j \in jobs : j.task # restore.task
  BY <1>1 DEF Inv, Restoring
<1>5. QED
  BY <1>1, <1>2, <1>3, <1>4

\* It changes, and the restoring goes on.
LEMMA RestoringChanges ==
    ASSUME Inv, restore.pc # "none", NEW t \in Task, Sound(t.messages, said),
           t.pc = task[restore.task].pc, task' = [task EXCEPT ![restore.task] = t],
           UNCHANGED <<said, jobs>>, Saves(t)
    PROVE  /\ Conversation' /\ AtWork'
           /\ restore' \in Restore /\ restore'.task = restore.task
              /\ (restore'.pc \in {"cut", "cancel"} /\ restore'.kind # "task"
                    => restore'.reset \/ t.trouble # "none")
                => Restoring'
<1> DEFINE n == restore.task
<1>1. /\ n \in 1..made /\ n # 0 /\ task[n].pc \in {"waiting", "ended"}
      /\ \A j \in jobs : j.task # n
  BY RestoringParts
<1>2. GoodTask(t, said)
  BY <1>1 DEF GoodTask
<1>3. \A j \in jobs' : j.task # n
  BY <1>1
<1>4. task' = [task EXCEPT ![n] = t] /\ UNCHANGED <<said, jobs>> /\ Saves(t)
  OBVIOUS
<1> HIDE DEF n
<1>5. /\ Conversation' /\ AtWork'
      /\ made' = made /\ task'[n] = t
  BY <1>1, <1>2, <1>4, IdleTaskChanges
<1>6. ASSUME restore' \in Restore, restore'.task = restore.task,
             restore'.pc \in {"cut", "cancel"} /\ restore'.kind # "task"
                => restore'.reset \/ t.trouble # "none"
      PROVE  Restoring'
  <2>1. restore'.task = n /\ restore'.task <= made' /\ restore'.task # 0
    BY <1>1, <1>5, <1>6 DEF n, Inv, Restoring
  <2>2. task'[restore'.task].pc \in {"waiting", "ended"}
    BY <1>1, <1>5, <2>1 DEF n
  <2>3. \A j \in jobs' : j.task # restore'.task
    BY <1>3, <2>1
  <2>4. RestoredTogether'
    BY <1>5, <1>6, <2>1 DEF RestoredTogether
  <2>5. QED
    BY <1>6, <2>1, <2>2, <2>3, <2>4 DEF Restoring
<1>7. QED
  BY <1>5, <1>6

LEMMA OnwardsParts ==
    ASSUME NEW n, NEW reset \in BOOLEAN, restore \in Restore, Onwards(n, reset)
    PROVE  /\ restore' \in Restore /\ restore'.task = restore.task
           /\ restore'.kind = restore.kind /\ restore'.reset = reset
           /\ Save(n) \/ UNCHANGED <<saved, noted>>
<1> DEFINE pc == IF restore.kind = "workspace" THEN "cancel" ELSE "cut"
<1>1. pc \in {"cancel", "cut"} /\ restore' = [restore EXCEPT !.reset = reset, !.pc = pc]
  BY DEF Onwards
<1> HIDE DEF pc
<1>2. /\ restore' \in Restore /\ restore'.task = restore.task
      /\ restore'.kind = restore.kind /\ restore'.reset = reset
  BY <1>1 DEF Restore
<1>3. Save(n) \/ UNCHANGED <<saved, noted>>
  BY DEF Onwards
<1>4. QED
  BY <1>2, <1>3

LEMMA RestoreResetKeeps ==
    ASSUME Inv, RestoreReset(restore.task)
    PROVE  Conversation' /\ AtWork' /\ Restoring'
<1> DEFINE n == restore.task
           t == [task[n] EXCEPT !.tracker = TRUE]
<1>1. /\ restore.pc # "none" /\ UNCHANGED <<said, jobs>> /\ task' = [task EXCEPT ![n] = t]
      /\ Onwards(n, TRUE)
  BY DEF RestoreReset, RestoreStep
<1>2. /\ n \in 1..made /\ restore \in Restore /\ task[n] \in Task /\ Sound(task[n].messages, said)
  BY <1>1, RestoringParts
<1>3. t \in Task /\ t.messages = task[n].messages /\ t.pc = task[n].pc
  BY <1>2 DEF Task
<1> HIDE DEF t
<1>4. /\ restore' \in Restore /\ restore'.task = restore.task /\ restore'.reset = TRUE
      /\ Save(n) \/ UNCHANGED <<saved, noted>>
  <2> HIDE DEF n
  <2>1. QED
    BY <1>1, <1>2, OnwardsParts
<1>5. Saves(t)
  <2> HIDE DEF n
  <2>1. task'[n] = t
    BY <1>1, <1>2 DEF Inv, Conversation, made
  <2>2. QED
    BY <1>4, <2>1 DEF Save, Saves
<1>6. Sound(t.messages, said)
  BY <1>2, <1>3
<1>7. QED
  BY <1>1, <1>3, <1>4, <1>5, <1>6, RestoringChanges

LEMMA RestoreSkipsKeeps ==
    ASSUME Inv, RestoreSkips(restore.task)
    PROVE  Conversation' /\ AtWork' /\ Restoring'
<1> DEFINE n == restore.task
           t == task[n]
<1>1. /\ restore.pc # "none" /\ UNCHANGED <<said, jobs, task>>
      /\ Onwards(n, FALSE) /\ t.trouble # "none"
  BY DEF RestoreSkips, RestoreStep
<1>2. /\ n \in 1..made /\ restore \in Restore /\ t \in Task /\ Sound(t.messages, said)
  BY <1>1, RestoringParts
<1>3. task' = [task EXCEPT ![n] = t]
  BY <1>1, <1>2 DEF Inv, Conversation, made
<1>4. /\ restore' \in Restore /\ restore'.task = restore.task
      /\ Save(n) \/ UNCHANGED <<saved, noted>>
  <2> HIDE DEF n
  <2>1. QED
    BY <1>1, <1>2, OnwardsParts
<1>5. Saves(t)
  BY <1>1, <1>4 DEF Save, Saves
<1>6. t.pc = task[restore.task].pc
  OBVIOUS
<1> HIDE DEF t
<1>7. QED
  BY <1>1, <1>2, <1>3, <1>4, <1>5, <1>6, RestoringChanges

LEMMA RestoreFailsKeeps ==
    ASSUME Inv, RestoreFails(restore.task)
    PROVE  Conversation' /\ AtWork' /\ Restoring'
<1> DEFINE n == restore.task
<1>1. /\ restore.pc # "none" /\ UNCHANGED <<saved, noted, said, jobs>> /\ restore' = NoRestore
  BY DEF RestoreFails, RestoreStep
<1>2. /\ n \in 1..made /\ task[n] \in Task /\ Sound(task[n].messages, said) /\ Conversation
      /\ "failed" \in Troubles
  BY <1>1, RestoringParts DEF Inv, Troubles
<1>3. PICK t \in IF task[n].trouble = "none" THEN Creating(n, "failed") ELSE {task[n]} :
         task' = [task EXCEPT ![n] = t]
  BY DEF RestoreFails
<1>4. t \in Task /\ t.messages = task[n].messages /\ t.pc = task[n].pc
  <2> HIDE DEF n
  <2>1. CASE t \in Creating(n, "failed")
    BY <1>2, <2>1, Created
  <2>2. CASE t = task[n]
    BY <1>2, <2>2
  <2>3. QED
    BY <1>3, <2>1, <2>2
<1>5. Saves(t) /\ Sound(t.messages, said)
  BY <1>1, <1>2, <1>4 DEF Saves
<1>6. Conversation' /\ AtWork'
  BY <1>1, <1>3, <1>4, <1>5, RestoringChanges
<1>7. QED
  BY <1>1, <1>6, RestoredKeeps

LEMMA RestoreCutKeeps ==
    ASSUME Inv, RestoreCut(restore.task)
    PROVE  Conversation' /\ AtWork' /\ Restoring'
<1> DEFINE n == restore.task
           msgs == task[n].messages
           kept == SubSeq(msgs, 1, Smaller(restore.at, Len(msgs)))
           t == [task[n] EXCEPT !.messages = kept]
<1>1. /\ restore.pc = "cut" /\ restore.pc # "none" /\ UNCHANGED <<said, jobs>>
      /\ task' = [task EXCEPT ![n] = t] /\ Save(n)
      /\ restore' = IF n = made THEN [restore EXCEPT !.pc = "cancel"] ELSE NoRestore
  BY DEF RestoreCut, RestoreStep, Put
<1>2. /\ n \in 1..made /\ restore \in Restore /\ task[n] \in Task /\ Sound(msgs, said)
      /\ said \in Nat /\ restore.at \in Nat
  BY <1>1, RestoringParts, Bounds DEF Inv, Conversation, Restore
<1>3. Sound(kept, said)
  <2> HIDE DEF msgs
  <2>1. QED
    BY <1>2, SoundCut
<1>4. kept \in Seq(Message)
  BY <1>3 DEF Sound
<1> HIDE DEF kept
<1>5. t \in Task /\ t.messages = kept /\ t.pc = task[n].pc /\ t.trouble = task[n].trouble
  BY <1>2, <1>4 DEF Task
<1> HIDE DEF t
<1>6. Saves(t)
  <2> HIDE DEF n
  <2>1. task'[n] = t
    BY <1>1, <1>2 DEF Inv, Conversation, made
  <2>2. QED
    BY <1>1, <2>1 DEF Save, Saves
<1>7. Sound(t.messages, said)
  BY <1>3, <1>5
<1>8. CASE n = made
  <2>1. restore' = [restore EXCEPT !.pc = "cancel"]
    BY <1>1, <1>8
  <2>2. /\ restore' \in Restore /\ restore'.task = restore.task /\ restore'.kind = restore.kind
        /\ restore'.reset = restore.reset
    BY <1>2, <2>1 DEF Restore
  <2>3. restore.kind # "task" => restore.reset \/ t.trouble # "none"
    BY <1>1, <1>5 DEF Inv, Restoring, RestoredTogether
  <2>4. QED
    BY <1>1, <1>5, <1>6, <1>7, <2>2, <2>3, RestoringChanges
<1>9. CASE n # made
  <2>1. restore' = NoRestore
    BY <1>1, <1>9
  <2>2. Conversation' /\ AtWork'
    BY <1>1, <1>5, <1>6, <1>7, RestoringChanges
  <2>3. QED
    BY <2>1, <2>2, RestoredKeeps
<1>10. QED
  BY <1>8, <1>9

-----------------------------------------------------------------------------
(* The repository. *)

\* Nothing is done to it, and nothing that adds files ends.
LEMMA RepositoryStands ==
    ASSUME Inv, UNCHANGED <<hidden, linked, links, cut, stranded>>,
           \A j \in jobs : j.pc \in {"add", "show"} => j \in jobs'
    PROVE  Repository'
  BY DEF Inv, Repository, NestedComesBack

LEMMA WorkRepository ==
    ASSUME Inv, NEW j \in jobs, JobStep(j)
    PROVE  Repository'
<1>1. /\ j \in Job /\ hidden \in BOOLEAN /\ linked \in BOOLEAN /\ links \subseteq 1..MaxMessages
      /\ cut \subseteq 1..MaxMessages /\ stranded \in BOOLEAN /\ NestedComesBack
  BY WorkParts DEF Inv, Repository
<1>2. CASE Hide(j)
  <2>1. /\ hidden' = TRUE /\ UNCHANGED <<linked, links, cut, stranded>>
        /\ [j EXCEPT !.pc = "add"] \in jobs'
    BY <1>2 DEF Hide, At, To
  <2>2. [j EXCEPT !.pc = "add"].pc = "add"
    BY <1>1 DEF Job
  <2>3. NestedComesBack'
    BY <2>1, <2>2 DEF NestedComesBack
  <2>4. QED
    BY <1>1, <2>1, <2>3 DEF Repository
<1>3. CASE Add(j)
  <2>1. /\ UNCHANGED <<hidden, links, cut, stranded>> /\ [j EXCEPT !.pc = "show"] \in jobs'
    BY <1>3 DEF Add, At, To
  <2>2. [j EXCEPT !.pc = "show"].pc = "show"
    BY <1>1 DEF Job
  <2>3. NestedComesBack'
    BY <2>1, <2>2 DEF NestedComesBack
  <2>4. linked' \in BOOLEAN
    <3>1. linked' = ~hidden \/ linked' = linked
      BY <1>3 DEF Add
    <3>2. QED
      BY <1>1, <3>1
  <2>5. QED
    BY <1>1, <2>1, <2>3, <2>4 DEF Repository
<1>4. CASE Show(j)
  <2>1. hidden' = FALSE /\ stranded' = FALSE /\ UNCHANGED <<linked, links, cut>>
    BY <1>4 DEF Show, At
  <2>2. QED
    BY <1>1, <2>1 DEF Repository, NestedComesBack
<1>5. CASE Commit(j)
  <2>1. /\ UNCHANGED <<hidden, linked, cut, stranded>> /\ j.pc = "commit"
        /\ links' = IF linked THEN links \cup {j.for} ELSE links
        /\ \A k \in jobs : k # j => k \in jobs'
    BY <1>5 DEF Commit, At, To
  <2>2. j.for \in 1..MaxMessages
    <3>1. j.for \in 0..MaxMessages /\ j.for # 0
      BY <2>1, WorkParts DEF Serves
    <3>2. QED
      BY <3>1, Bounds
  <2>3. links' \subseteq 1..MaxMessages
    BY <1>1, <2>1, <2>2
  <2>4. NestedComesBack'
    BY <1>1, <2>1 DEF NestedComesBack
  <2>5. QED
    BY <1>1, <2>1, <2>3, <2>4 DEF Repository
<1>6. CASE CommitFails(j)
  <2>1. UNCHANGED <<hidden, linked, links, cut, stranded>>
        /\ \A k \in jobs : k.pc \in {"add", "show"} => k \in jobs'
    BY <1>6 DEF CommitFails, At, repo
  <2>2. QED
    BY <2>1, RepositoryStands
<1>7. CASE LandBackground(j) \/ LandFirst(j) \/ LandCompletion(j) \/ LandNews(j)
  <2>1. j.pc = "land" /\ UNCHANGED <<hidden, linked, links, cut, stranded>>
    BY <1>7 DEF LandBackground, LandFirst, LandCompletion, LandNews, Landing, At, repo
  <2>2. \A k \in jobs : k # j => k \in jobs'
    BY <1>7 DEF LandBackground, LandFirst, LandCompletion, LandNews, To
  <2>3. QED
    BY <2>1, <2>2, RepositoryStands
<1>8. QED
  BY <1>2, <1>3, <1>4, <1>5, <1>6, <1>7 DEF JobStep

LEMMA RestoringRepository ==
    ASSUME Inv, restore.task # 0, RestoringStep(restore.task)
    PROVE  Repository'
<1> DEFINE n == restore.task
<1>1. /\ hidden \in BOOLEAN /\ linked \in BOOLEAN /\ links \subseteq 1..MaxMessages
      /\ cut \subseteq 1..MaxMessages /\ stranded \in BOOLEAN /\ NestedComesBack
  BY DEF Inv, Repository
<1>2. UNCHANGED <<hidden, links, jobs, stranded>> /\ NestedComesBack'
  <2>1. UNCHANGED <<hidden, links, jobs, stranded>>
    BY DEF RestoringStep, RestoreReset, RestoreFails, RestoreSkips, RestoreCut, RestoreDone, RestoreStep
  <2>2. QED
    BY <1>1, <2>1 DEF NestedComesBack
<1>3. CASE RestoreReset(n)
  <2>1. linked' \in BOOLEAN /\ cut' = cut
    BY <1>3 DEF RestoreReset
  <2>2. QED
    BY <1>1, <1>2, <2>1 DEF Repository
<1>4. CASE RestoreFails(n) \/ RestoreSkips(n) \/ RestoreDone
  <2>1. linked' = linked /\ cut' = cut
    BY <1>4 DEF RestoreFails, RestoreSkips, RestoreDone
  <2>2. QED
    BY <1>1, <1>2, <2>1 DEF Repository
<1>5. CASE RestoreCut(n)
  <2> DEFINE msgs == task[n].messages
             kept == SubSeq(msgs, 1, Smaller(restore.at, Len(msgs)))
  <2>1. linked' = linked /\ cut' = cut \cup (Ids(msgs) \ Ids(kept)) /\ restore.pc # "none"
    BY <1>5 DEF RestoreCut, RestoreStep
  <2>2. msgs \in Seq(Message)
    BY <2>1, RestoringParts DEF Sound
  <2> HIDE DEF msgs
  <2>3. Ids(msgs) \subseteq 1..MaxMessages
    <3>1. \A i \in DOMAIN msgs : msgs[i] \in Message
      BY <2>2
    <3>2. \A i \in DOMAIN msgs : msgs[i].id \in 1..MaxMessages
      BY <3>1, MessageParts
    <3>3. QED
      BY <3>2 DEF Ids
  <2> HIDE DEF kept
  <2>4. cut' \subseteq 1..MaxMessages
    BY <1>1, <2>1, <2>3
  <2>5. QED
    BY <1>1, <1>2, <2>1, <2>4 DEF Repository
<1>6. QED
  BY <1>3, <1>4, <1>5 DEF RestoringStep

-----------------------------------------------------------------------------
(* The invariant. *)

LEMMA InitInv == Init => Inv
<1> SUFFICES ASSUME Init PROVE Inv
  OBVIOUS
<1> DEFINE t == [Opened(saved, "none") EXCEPT !.warn = TRUE, !.pc = "starting"]
<1>1. /\ saved = <<>> /\ said = 0 /\ noted = "none" /\ task = <<t>>
      /\ hidden = FALSE /\ linked = FALSE /\ links = {}
      /\ jobs = {} /\ restore = NoRestore /\ cut = {} /\ stranded = FALSE
  BY DEF Init
<1>2. Sound(saved, said) /\ said \in 0..MaxMessages
  BY <1>1, Bounds DEF Sound
<1>3. t \in Task /\ t.messages = saved /\ t.trouble = "none"
  BY <1>2 DEF Sound, Task, Opened, Troubles
<1> HIDE DEF t
<1>4. GoodTask(t, said)
  BY <1>2, <1>3 DEF GoodTask
<1>5. task \in Seq(Task) /\ made = 1 /\ task[1] = t
  BY <1>1, <1>3 DEF made
<1>6. Conversation
  BY <1>1, <1>2, <1>4, <1>5, Bounds DEF Conversation, Troubles
<1>7. AtWork
  BY <1>1 DEF AtWork
<1>8. NoRestore \in Restore /\ NoRestore.task = 0 /\ NoRestore.pc = "none"
  BY Bounds DEF NoRestore, Restore, Restores
<1>9. Restoring
  BY <1>1, <1>5, <1>8 DEF Restoring, RestoredTogether
<1>10. Repository
  BY <1>1 DEF Repository, NestedComesBack
<1>11. QED
  BY <1>6, <1>7, <1>9, <1>10 DEF Inv

LEMMA InvStep == Inv /\ [Next]_vars => Inv'
<1> SUFFICES ASSUME Inv, [Next]_vars PROVE Inv'
  OBVIOUS
<1>0. made \in 1..made
  BY Bounds DEF Inv, Conversation
<1>1. CASE UNCHANGED vars
  <2>1. UNCHANGED <<task, saved, noted, said, hidden, linked, links, jobs, restore, cut, stranded>>
    BY <1>1 DEF vars, repo
  <2>2. Conversation' /\ AtWork' /\ Restoring'
    BY <2>1 DEF Inv, Conversation, AtWork, Restoring, RestoredTogether, made
  <2>3. Repository'
    BY <2>1, RepositoryStands
  <2>4. QED
    BY <2>2, <2>3 DEF Inv
<1>2. CASE AgentStep(made)
  <2>1. Conversation' /\ AtWork' /\ Restoring'
    BY <1>0, <1>2, SayKeeps, SaveCheckpointKeeps, CompleteKeeps, ResumeKeeps DEF AgentStep
  <2>2. UNCHANGED <<hidden, linked, links, cut, stranded>> /\ jobs \subseteq jobs'
    BY <1>2 DEF AgentStep, Say, SaveCheckpoint, Complete, Resume, Begin, repo
  <2>3. QED
    BY <2>1, <2>2, RepositoryStands DEF Inv
<1>3. ASSUME NEW n \in 1..made, TrackerStep(n) PROVE Inv'
  <2>1. Conversation' /\ AtWork' /\ Restoring'
    BY <1>3, TrackerReadyKeeps, TrackerEndsKeeps, WarnedKeeps DEF TrackerStep
  <2>2. UNCHANGED <<hidden, linked, links, cut, stranded>> /\ jobs \subseteq jobs'
    BY <1>3 DEF TrackerStep, TrackerReady, TrackerFails, TrackerTimesOut, Warned, Starting, Begin, repo
  <2>3. QED
    BY <2>1, <2>2, RepositoryStands DEF Inv
<1>4. ASSUME NEW j \in jobs, JobStep(j) PROVE Inv'
  <2>1. Conversation' /\ AtWork' /\ Restoring'
    BY <1>4, WorkMovesKeeps, CommitFailsKeeps, LandBackgroundKeeps, LandFirstKeeps,
       LandCompletionKeeps, LandNewsKeeps DEF JobStep
  <2>2. QED
    BY <1>4, <2>1, WorkRepository DEF Inv
<1>5. CASE restore.task # 0 /\ RestoringStep(restore.task)
  <2>1. Conversation' /\ AtWork' /\ Restoring'
    BY <1>5, RestoreResetKeeps, RestoreFailsKeeps, RestoreSkipsKeeps, RestoreCutKeeps,
       RestoreDoneKeeps DEF RestoringStep
  <2>2. QED
    BY <1>5, <2>1, RestoringRepository DEF Inv
<1>6. CASE Cancel \/ CheckpointRestore
  <2>1. Conversation' /\ AtWork' /\ Restoring'
    BY <1>6, CancelKeeps, CheckpointRestoreKeeps
  <2>2. UNCHANGED <<hidden, linked, links, cut, stranded>> /\ jobs' = jobs
    BY <1>6 DEF Cancel, CheckpointRestore, repo
  <2>3. QED
    BY <2>1, <2>2, RepositoryStands DEF Inv
<1>7. CASE Crash
  <2>1. /\ UNCHANGED <<hidden, linked, links, cut>> /\ stranded' = hidden
    BY <1>7 DEF Crash, repo
  <2>2. Repository'
    BY <2>1 DEF Inv, Repository, NestedComesBack
  <2>3. QED
    BY <1>7, <2>2, CrashKeeps DEF Inv
<1>8. QED
  BY <1>1, <1>2, <1>3, <1>4, <1>5, <1>6, <1>7 DEF Next

\* Messages are in order, none with a commit for a later one; work in the shadow
\* repository is for a message that its Task object still has, or a later one of its
\* kind follows; a Task object that is restored has no work under way.
THEOREM CheckpointsInvariant == Spec => []Inv
<1>1. Init => Inv
  BY InitInv
<1>2. Inv /\ [Next]_vars => Inv'
  BY InvStep
<1>3. QED
  BY <1>1, <1>2, PTL DEF Spec

\* The state of a conversation, its commits and its restoring stay of their types.
THEOREM CheckpointsTypeCorrect == Spec => []TypeOK
<1>1. Inv => TypeOK
  BY DEF Inv, Conversation, AtWork, Restoring, Repository, Sound, TypeOK
<1>2. QED
  BY <1>1, CheckpointsInvariant, PTL

\* Task objects of one conversation commit in the background, land on whatever
\* message they find and save over each other: the commit that the file has for a
\* message was still not begun for a later one.
THEOREM RestoringNeverGoesForward == Spec => []NeverForward
<1>1. Inv => NeverForward
  BY DEF Inv, Conversation, Sound, NeverForward
<1>2. QED
  BY <1>1, CheckpointsInvariant, PTL

\* Whatever fails while files are added, and however many do it at once: the user's
\* nested repositories are without their .git only while somebody will put it back,
\* or the extension host died meanwhile.
THEOREM NestedRepositoriesComeBack == Spec => []NestedComesBack
<1>1. Inv => NestedComesBack
  BY DEF Inv, Repository
<1>2. QED
  BY <1>1, CheckpointsInvariant, PTL

\* A restoring that goes on to the conversation has reset the workspace, unless its
\* Task object carries earlier trouble of its tracker.
THEOREM RestoringIsWhole == Spec => []RestoredTogether
<1>1. Inv => RestoredTogether
  BY DEF Inv, Restoring
<1>2. QED
  BY <1>1, CheckpointsInvariant, PTL

\* After a timeout of the tracker's making, no work is begun for the Task object.
THEOREM NoWorkAfterTimeout == Spec => []TimedOutIsOff
<1>1. Inv => TimedOutIsOff
  BY DEF Inv, AtWork, Serves, TimedOutIsOff
<1>2. QED
  BY <1>1, CheckpointsInvariant, PTL
-----------------------------------------------------------------------------
(* Nested repositories whose files are missing from a commit. *)

\* As long as no two pieces of work add files at the same time, files are added
\* with the nested repositories renamed, and no commit has a link.
Alone ==
    ~crossed => /\ links = {} /\ linked = FALSE
                /\ \A j, k \in Adding(jobs) : j = k
                /\ \A j \in jobs : j.pc = "add" => hidden = TRUE

\* What can be counted as at most one is one.
LEMMA AtMostOne ==
    ASSUME NEW S, NEW a, NEW b, S \subseteq {a} \cup {b},
           Cardinality(S) <= 1 \/ ~(Cardinality(S) > 1), NEW x \in S, NEW y \in S
    PROVE  x = y
<1> SUFFICES ASSUME x # y PROVE FALSE
  OBVIOUS
<1>1. IsFiniteSet({x}) /\ Cardinality({x}) = 1 /\ IsFiniteSet({a})
  BY FS_Singleton
<1>2. IsFiniteSet({a} \cup {b})
  BY <1>1, FS_AddElement
<1>3. IsFiniteSet(S)
  BY <1>2, FS_Subset
<1>4. Cardinality({x} \cup {y}) = 2
  <2>1. y \notin {x}
    OBVIOUS
  <2>2. Cardinality({x} \cup {y}) = Cardinality({x}) + 1
    BY <1>1, <2>1, FS_AddElement
  <2>3. QED
    BY <1>1, <2>2
<1>5. {x} \cup {y} \subseteq S
  OBVIOUS
<1>6. Cardinality({x} \cup {y}) <= Cardinality(S)
  BY <1>3, <1>5, FS_Subset
<1>7. Cardinality(S) \in Nat
  BY <1>3, FS_CardinalityType
<1>8. QED
  BY <1>4, <1>6, <1>7

\* A step begins or moves one piece of work at most.
LEMMA OneMoves ==
    ASSUME [Next]_vars
    PROVE  \E k : jobs' \subseteq jobs \cup {k}
<1>1. ASSUME NEW n, NEW op, NEW for, Begin(n, op, for)
      PROVE  \E k : jobs' \subseteq jobs \cup {k}
  BY <1>1 DEF Begin
<1>2. ASSUME jobs' \subseteq jobs PROVE \E k : jobs' \subseteq jobs \cup {k}
  BY <1>2
<1>3. CASE UNCHANGED vars
  BY <1>2, <1>3 DEF vars
<1>4. CASE AgentStep(made)
  BY <1>1, <1>2, <1>4 DEF AgentStep, Say, SaveCheckpoint, Complete, Resume
<1>5. ASSUME NEW n \in 1..made, TrackerStep(n) PROVE \E k : jobs' \subseteq jobs \cup {k}
  BY <1>1, <1>2, <1>5 DEF TrackerStep, TrackerReady, TrackerFails, TrackerTimesOut, Warned
<1>6. ASSUME NEW j \in jobs, JobStep(j) PROVE \E k : jobs' \subseteq jobs \cup {k}
  <2>1. ASSUME NEW k, To(j, k) PROVE \E l : jobs' \subseteq jobs \cup {l}
    BY <2>1 DEF To
  <2>2. QED
    BY <1>2, <1>6, <2>1 DEF JobStep, Hide, Add, Show, Commit, CommitFails, LandBackground, LandFirst,
       LandCompletion, LandNews
<1>7. CASE restore.task # 0 /\ RestoringStep(restore.task)
  BY <1>2, <1>7 DEF RestoringStep, RestoreReset, RestoreFails, RestoreSkips, RestoreCut, RestoreDone,
     RestoreStep
<1>8. CASE Cancel \/ CheckpointRestore \/ Crash
  BY <1>2, <1>8 DEF Cancel, CheckpointRestore, Crash
<1>9. QED
  BY <1>3, <1>4, <1>5, <1>6, <1>7, <1>8 DEF Next

\* Only one piece of work still adds files.
LEMMA AloneStep ==
    ASSUME Alone, [MCNext]_<<vars, calm, crossed, late>>, ~crossed'
    PROVE  ~crossed /\ \A j, k \in Adding(jobs') : j = k
<1>1. CASE UNCHANGED <<vars, calm, crossed, late>>
  BY <1>1 DEF Alone, vars
<1>2. CASE MCNext
  <2>1. ~crossed /\ ~(Cardinality(Adding(jobs')) > 1)
    BY <1>2 DEF MCNext
  <2>2. PICK k : jobs' \subseteq jobs \cup {k}
    BY <1>2, OneMoves DEF MCNext
  <2>3. PICK a : Adding(jobs) \subseteq {a}
    BY <2>1 DEF Alone
  <2>4. Adding(jobs') \subseteq {a} \cup {k}
    BY <2>2, <2>3 DEF Adding
  <2>5. QED
    BY <2>1, <2>4, AtMostOne
<1>3. QED
  BY <1>1, <1>2

\* Nothing that adds files begins to.
LEMMA NoneAdds ==
    ASSUME Alone, ~crossed, \A j, k \in Adding(jobs') : j = k, UNCHANGED <<hidden, linked, links>>,
           \A j \in jobs' : j.pc = "add" => j \in jobs
    PROVE  Alone'
  BY DEF Alone

LEMMA WorkAlone ==
    ASSUME Inv, Alone, ~crossed, \A j, k \in Adding(jobs') : j = k, NEW j \in jobs, JobStep(j)
    PROVE  Alone'
<1>1. /\ links = {} /\ linked = FALSE /\ \A k \in jobs : k.pc = "add" => hidden = TRUE
      /\ \A k, l \in Adding(jobs) : k = l
  BY DEF Alone
<1>2. \A pc : [j EXCEPT !.pc = pc].pc = pc
  BY WorkParts DEF Job
<1>3. CASE Hide(j)
  <2>1. hidden' = TRUE /\ UNCHANGED <<linked, links>>
    BY <1>3 DEF Hide
  <2>2. QED
    BY <1>1, <2>1 DEF Alone
<1>4. CASE Add(j)
  <2>1. UNCHANGED <<hidden, links>> /\ hidden = TRUE /\ (linked' = ~hidden \/ linked' = linked)
        /\ jobs' = (jobs \ {j}) \cup {[j EXCEPT !.pc = "show"]}
    BY <1>1, <1>4 DEF Add, At, To
  <2>2. linked' = FALSE /\ \A k \in jobs' : k.pc = "add" => k \in jobs
    BY <1>1, <1>2, <2>1
  <2>3. QED
    BY <1>1, <2>1, <2>2 DEF Alone
<1>5. CASE Show(j)
  <2> DEFINE pc == IF j.op \in Committing THEN "commit" ELSE "land"
  <2>1. UNCHANGED <<linked, links>> /\ j.pc = "show" /\ pc # "add"
        /\ jobs' = (jobs \ {j}) \cup {[j EXCEPT !.pc = pc]}
    BY <1>5 DEF Show, At, To
  <2> HIDE DEF pc
  <2>2. \A k \in jobs \ {j} : k.pc # "add"
    BY <1>1, <2>1 DEF Adding
  <2>3. \A k \in jobs' : k.pc # "add"
    BY <1>2, <2>1, <2>2
  <2>4. QED
    BY <1>1, <2>1, <2>3 DEF Alone
<1>6. CASE Commit(j)
  <2>1. UNCHANGED <<hidden, linked, links>> /\ jobs' = (jobs \ {j}) \cup {[j EXCEPT !.pc = "land"]}
    BY <1>1, <1>6 DEF Commit, To
  <2>2. \A k \in jobs' : k.pc = "add" => k \in jobs
    BY <1>2, <2>1
  <2>3. QED
    BY <2>1, <2>2, NoneAdds
<1>7. CASE CommitFails(j)
  <2>1. UNCHANGED <<hidden, linked, links>> /\ jobs' \subseteq jobs
    BY <1>7 DEF CommitFails, repo
  <2>2. QED
    BY <2>1, NoneAdds
<1>8. CASE LandBackground(j) \/ LandFirst(j) \/ LandCompletion(j) \/ LandNews(j)
  <2> DEFINE k == [j EXCEPT !.op = "news", !.for = 0, !.pc = "hide"]
  <2>1. UNCHANGED <<hidden, linked, links>> /\ jobs' \subseteq jobs \cup {k}
    BY <1>8 DEF LandBackground, LandFirst, LandCompletion, LandNews, Landing, To, repo
  <2>2. k.pc = "hide"
    BY WorkParts DEF Job
  <2> HIDE DEF k
  <2>3. \A l \in jobs' : l.pc = "add" => l \in jobs
    BY <2>1, <2>2
  <2>4. QED
    BY <2>1, <2>3, NoneAdds
<1>9. QED
  BY <1>3, <1>4, <1>5, <1>6, <1>7, <1>8 DEF JobStep

LEMMA FilesStep ==
    ASSUME Inv, Alone, [MCNext]_<<vars, calm, crossed, late>>
    PROVE  Alone'
<1> SUFFICES ASSUME ~crossed' PROVE Alone'
  BY DEF Alone
<1>1. ~crossed /\ \A j, k \in Adding(jobs') : j = k
  BY AloneStep
<1>2. [Next]_vars
  BY DEF MCNext, vars
<1>3. CASE UNCHANGED vars
  BY <1>1, <1>3, NoneAdds DEF vars, repo
<1>4. CASE \E j \in jobs : JobStep(j)
  BY <1>1, <1>4, WorkAlone
<1>5. ASSUME NEW n, NEW op, NEW for, Begin(n, op, for)
      PROVE  \A j \in jobs' : j.pc = "add" => j \in jobs
  BY <1>5 DEF Begin
<1>6. CASE AgentStep(made) \/ \E n \in 1..made : TrackerStep(n)
  <2>1. UNCHANGED <<hidden, linked, links>>
    BY <1>6 DEF AgentStep, Say, SaveCheckpoint, Complete, Resume, TrackerStep, TrackerReady,
       TrackerFails, TrackerTimesOut, Warned, Starting, repo
  <2>2. ASSUME AgentStep(made) PROVE jobs' = jobs \/ \E op, for : Begin(made, op, for)
    BY <2>2 DEF AgentStep, Say, SaveCheckpoint, Complete, Resume
  <2>3. ASSUME NEW n \in 1..made, TrackerStep(n)
        PROVE  jobs' = jobs \/ \E op, for : Begin(n, op, for)
    BY <2>3 DEF TrackerStep, TrackerReady, TrackerFails, TrackerTimesOut, Warned
  <2>4. \A j \in jobs' : j.pc = "add" => j \in jobs
    BY <1>5, <1>6, <2>2, <2>3
  <2>5. QED
    BY <1>1, <2>1, <2>4, NoneAdds
<1>7. CASE restore.task # 0 /\ RestoringStep(restore.task)
  <2>1. UNCHANGED <<hidden, links, jobs>>
    BY <1>7 DEF RestoringStep, RestoreReset, RestoreFails, RestoreSkips, RestoreCut, RestoreDone,
       RestoreStep
  <2>2. links = {} /\ linked = FALSE
    BY <1>1 DEF Alone
  <2>3. ASSUME RestoreReset(restore.task) PROVE linked' = FALSE
    <3>1. PICK x : linked' = (x \in links)
      BY <2>3 DEF RestoreReset
    <3>2. (x \in links) = FALSE
      BY <2>2
    <3>3. QED
      BY <3>1, <3>2
  <2>4. linked' = FALSE
    <3>1. RestoreReset(restore.task) \/ linked' = linked
      BY <1>7 DEF RestoringStep, RestoreFails, RestoreSkips, RestoreCut, RestoreDone
    <3>2. QED
      BY <2>2, <2>3, <3>1
  <2>5. QED
    BY <1>1, <2>1, <2>4 DEF Alone
<1>8. CASE Cancel \/ CheckpointRestore \/ Crash
  <2>1. UNCHANGED <<hidden, linked, links>> /\ jobs' \subseteq jobs
    BY <1>8 DEF Cancel, CheckpointRestore, Crash, repo
  <2>2. QED
    BY <1>1, <2>1, NoneAdds
<1>9. QED
  BY <1>2, <1>3, <1>4, <1>6, <1>7, <1>8 DEF Next

-----------------------------------------------------------------------------
(* Messages that a restoring cut off. *)

\* The Task objects that may still save their messages: the one on display, the one
\* that is restored, and those that await more than their first commit.
Saving(n) ==
    n = made \/ n = restore.task \/ \E j \in jobs : j.task = n /\ j.op # "first"

\* As long as nothing was cut off while other work meant to save it, no Task object
\* that may save has a message that was cut off, and no first checkpoint is one.
Clean ==
    ~late => /\ cut \subseteq 1..said /\ Ids(saved) \cap cut = {}
             /\ \A n \in 1..made : Saving(n) => Ids(task[n].messages) \cap cut = {}
             /\ \A j \in jobs : j.op = "first" => j.for \notin cut

LEMMA IdsAppend ==
    ASSUME NEW msgs \in Seq(Message), NEW m
    PROVE  Ids(Append(msgs, m)) \subseteq Ids(msgs) \cup {m.id}
<1>1. /\ DOMAIN Append(msgs, m) = 1..Len(msgs) + 1 /\ DOMAIN msgs = 1..Len(msgs) /\ Len(msgs) \in Nat
      /\ Append(msgs, m)[Len(msgs) + 1] = m
      /\ \A i \in 1..Len(msgs) : Append(msgs, m)[i] = msgs[i]
  OBVIOUS
<1>2. ASSUME NEW i \in 1..Len(msgs) + 1 PROVE Append(msgs, m)[i].id \in Ids(msgs) \cup {m.id}
  <2>1. CASE i = Len(msgs) + 1
    BY <1>1, <2>1
  <2>2. CASE i \in 1..Len(msgs)
    BY <1>1, <2>2 DEF Ids
  <2>3. QED
    BY <1>1, <2>1, <2>2
<1>3. QED
  BY <1>1, <1>2 DEF Ids

LEMMA IdsMark ==
    ASSUME NEW msgs \in Seq(Message), NEW i \in DOMAIN msgs, NEW h
    PROVE  Ids([msgs EXCEPT ![i].hash = h]) \subseteq Ids(msgs)
<1> DEFINE marked == [msgs EXCEPT ![i].hash = h]
<1>1. msgs[i] \in Message
  OBVIOUS
<1>2. [msgs[i] EXCEPT !.hash = h].id = msgs[i].id
  BY <1>1 DEF Message
<1>3. /\ DOMAIN marked = DOMAIN msgs /\ marked[i] = [msgs[i] EXCEPT !.hash = h]
      /\ \A k \in DOMAIN msgs : k # i => marked[k] = msgs[k]
  OBVIOUS
<1> HIDE DEF marked
<1>4. \A k \in DOMAIN msgs : marked[k].id = msgs[k].id
  BY <1>2, <1>3
<1>5. Ids(marked) \subseteq Ids(msgs)
  BY <1>3, <1>4 DEF Ids
<1>6. QED
  BY <1>5 DEF marked

LEMMA IdsCut ==
    ASSUME NEW msgs \in Seq(Message), NEW k \in Nat
    PROVE  Ids(SubSeq(msgs, 1, Smaller(k, Len(msgs)))) \subseteq Ids(msgs)
<1> DEFINE e == Smaller(k, Len(msgs))
           kept == SubSeq(msgs, 1, e)
<1>1. Len(msgs) \in Nat /\ DOMAIN msgs = 1..Len(msgs)
  OBVIOUS
<1>2. e \in 0..Len(msgs)
  BY <1>1 DEF Smaller
<1> HIDE DEF e
<1>3. DOMAIN kept = 1..e /\ \A i \in 1..e : kept[i] = msgs[i]
  BY <1>1, <1>2
<1>4. \A i \in 1..e : i \in DOMAIN msgs
  BY <1>1, <1>2
<1> HIDE DEF kept
<1>5. Ids(kept) \subseteq Ids(msgs)
  BY <1>3, <1>4 DEF Ids
<1>6. QED
  BY <1>5 DEF kept, e

\* The messages said so far are counted.
LEMMA IdsSaid ==
    ASSUME NEW msgs, NEW s \in Nat, Sound(msgs, s)
    PROVE  Ids(msgs) \subseteq 1..s
<1>1. \A i \in DOMAIN msgs : msgs[i] \in Message /\ msgs[i].id <= s
  BY DEF Sound
<1>2. \A i \in DOMAIN msgs : msgs[i].id \in 1..s
  <2> TAKE i \in DOMAIN msgs
  <2>1. msgs[i].id \in Nat /\ msgs[i].id \in 1..MaxMessages /\ msgs[i].id <= s
    BY <1>1, MessageParts
  <2>2. QED
    BY <2>1, Bounds
<1>3. QED
  BY <1>2 DEF Ids

\* The next message is none that was cut off.
LEMMA NextIsNew ==
    ASSUME Inv, cut \subseteq 1..said
    PROVE  /\ said \in Nat /\ said + 1 \notin cut
           /\ \A r \in Nat : said <= r => cut \subseteq 1..r
<1>1. said \in Nat
  BY Bounds DEF Inv, Conversation
<1>2. QED
  BY <1>1

\* One Task object is exchanged for another value.
LEMMA Exchanged ==
    ASSUME NEW S, task \in Seq(S), NEW n \in 1..made, NEW t, task' = [task EXCEPT ![n] = t]
    PROVE  /\ made' = made /\ task'[n] = t
           /\ \A k \in 1..made : k # n => task'[k] = task[k]
<1> DEFINE T == S \cup {t}
           old == task
<1>1. old \in Seq(T) /\ t \in T /\ Len(old) \in Nat /\ n \in 1..Len(old)
  <2>1. \A i \in 1..Len(old) : old[i] \in T
    OBVIOUS
  <2>2. Len(old) \in Nat /\ n \in 1..Len(old) /\ old \in [1..Len(old) -> T]
    BY <2>1 DEF made
  <2>3. QED
    BY <2>2
<1>2. task' = [old EXCEPT ![n] = t]
  OBVIOUS
<1> HIDE DEF T, old
<1>3. /\ Len(task') = Len(old) /\ task'[n] = t
      /\ \A k \in 1..Len(old) : k # n => task'[k] = old[k]
  BY <1>1, <1>2
<1>4. QED
  BY <1>3 DEF made, old

\* One Task object changes, and nothing is cut off.
LEMMA CleanChange ==
    ASSUME Inv, Clean, ~late, NEW n \in 1..made, NEW t, task' = [task EXCEPT ![n] = t],
           cut' = cut, said' \in Nat, said <= said', restore'.task \in {restore.task, 0},
           Saving(n)' => Ids(t.messages) \cap cut = {},
           saved' = saved \/ (saved' = t.messages /\ Ids(t.messages) \cap cut = {}),
           \A j \in jobs' : j \in jobs \/ (j.task = n /\ (j.op = "first" => j.for \notin cut))
    PROVE  Clean'
<1>1. /\ cut \subseteq 1..said /\ Ids(saved) \cap cut = {}
      /\ \A k \in 1..made : Saving(k) => Ids(task[k].messages) \cap cut = {}
      /\ \A j \in jobs : j.op = "first" => j.for \notin cut
  BY DEF Clean
<1>2. task \in Seq(Task) /\ made \in Nat /\ DOMAIN task = 1..made
  BY Bounds DEF Inv, Conversation, made
<1>3. made' = made /\ task'[n] = t /\ \A k \in 1..made : k # n => task'[k] = task[k]
  BY <1>2, Exchanged
<1>4. ASSUME NEW k \in 1..made, k # n, Saving(k)' PROVE Ids(task'[k].messages) \cap cut = {}
  <2>1. k # 0
    BY <1>2
  <2>2. Saving(k)
    BY <1>3, <1>4, <2>1 DEF Saving
  <2>3. QED
    BY <1>1, <1>3, <1>4, <2>2
<1>5. \A k \in 1..made' : Saving(k)' => Ids(task'[k].messages) \cap cut' = {}
  BY <1>3, <1>4
<1>6. Ids(saved') \cap cut' = {} /\ cut' \subseteq 1..said'
  BY <1>1, NextIsNew
<1>7. \A j \in jobs' : j.op = "first" => j.for \notin cut'
  BY <1>1
<1>8. QED
  BY <1>5, <1>6, <1>7 DEF Clean, Ids

\* What is put is what the Task object then has, and what is saved.
LEMMA PutParts ==
    ASSUME Inv, NEW n \in 1..made, NEW u \in Task, NEW msgs, NEW ts,
           ts = [task EXCEPT ![n] = u], Put(n, msgs, ts)
    PROVE  /\ task' = [task EXCEPT ![n] = [u EXCEPT !.messages = msgs]]
           /\ [u EXCEPT !.messages = msgs].messages = msgs /\ saved' = msgs
<1>1. task \in Seq(Task) /\ DOMAIN task = 1..made
  BY DEF Inv, Conversation, made
<1>2. ts[n] = u /\ task' = [ts EXCEPT ![n] = [ts[n] EXCEPT !.messages = msgs]]
  BY <1>1 DEF Put
<1>3. task' = [task EXCEPT ![n] = [u EXCEPT !.messages = msgs]]
  BY <1>1, <1>2
<1>4. [u EXCEPT !.messages = msgs].messages = msgs
  BY DEF Task
<1>5. saved' = msgs
  BY <1>1, <1>3, <1>4 DEF Put, Save
<1>6. QED
  BY <1>3, <1>4, <1>5

\* The Task object on display is one that may save.
LEMMA OnDisplay ==
    ASSUME Inv, Clean, ~late
    PROVE  /\ made \in 1..made /\ task[made] \in Task /\ task[made].messages \in Seq(Message)
           /\ task = [task EXCEPT ![made] = task[made]]
           /\ Ids(task[made].messages) \cap cut = {}
           /\ said \in Nat /\ said + 1 \notin cut
<1>1. made \in 1..made /\ task \in Seq(Task) /\ DOMAIN task = 1..made
  BY Bounds DEF Inv, Conversation, made
<1>2. task[made] \in Task /\ task[made].messages \in Seq(Message)
  BY <1>1 DEF Inv, Conversation, GoodTask, Sound
<1>3. task = [task EXCEPT ![made] = task[made]]
  BY <1>1
<1>4. Ids(task[made].messages) \cap cut = {}
  BY <1>1 DEF Clean, Saving
<1>5. said \in Nat /\ said + 1 \notin cut
  BY NextIsNew DEF Clean
<1>6. QED
  BY <1>1, <1>2, <1>3, <1>4, <1>5

\* The agent says a message.
LEMMA CleanSaid ==
    ASSUME Inv, Clean, ~late, NEW u \in Task, NEW m, u.messages = task[made].messages, m.id = said + 1,
           NEW ts, ts = [task EXCEPT ![made] = u], Put(made, Append(u.messages, m), ts),
           cut' = cut, said' = said + 1, restore' = restore,
           \A j \in jobs' : j \in jobs \/ (j.task = made /\ j.op # "first")
    PROVE  Clean'
<1> DEFINE msgs == Append(u.messages, m)
           t == [u EXCEPT !.messages = msgs]
<1>1. /\ made \in 1..made /\ u.messages \in Seq(Message) /\ Ids(u.messages) \cap cut = {}
      /\ said \in Nat /\ said + 1 \notin cut
  BY OnDisplay
<1>2. Ids(msgs) \subseteq Ids(u.messages) \cup {said + 1}
  BY <1>1, IdsAppend
<1>3. Put(made, msgs, ts)
  OBVIOUS
<1> HIDE DEF msgs
<1>4. task' = [task EXCEPT ![made] = t] /\ t.messages = msgs /\ saved' = msgs
  BY <1>1, <1>3, PutParts
<1> HIDE DEF t
<1>5. Ids(t.messages) \cap cut = {}
  BY <1>1, <1>2, <1>4
<1>6. said' \in Nat /\ said <= said' /\ restore'.task \in {restore.task, 0}
  BY <1>1
<1>7. QED
  BY <1>1, <1>4, <1>5, <1>6, CleanChange

\* The Task object on display changes, but not what it has said.
LEMMA CleanSilent ==
    ASSUME Inv, Clean, ~late, NEW n \in 1..made, NEW t, task' = [task EXCEPT ![n] = t],
           t.messages = task[n].messages, UNCHANGED <<saved, cut>>, said' \in {said, said + 1},
           restore' = restore,
           \A j \in jobs' : j \in jobs \/ (j.op = "first" /\ j.task = n /\ j.for = said + 1)
    PROVE  Clean'
<1>1. said \in Nat /\ said + 1 \notin cut
  BY NextIsNew DEF Clean
<1>2. Saving(n)' => Ids(t.messages) \cap cut = {}
  <2>1. task \in Seq(Task) /\ DOMAIN task = 1..made /\ made' = made
    BY DEF Inv, Conversation, made
  <2>2. Saving(n)' => Saving(n)
    BY <2>1 DEF Saving
  <2>3. QED
    BY <2>2 DEF Clean
<1>3. said' \in Nat /\ said <= said' /\ restore'.task \in {restore.task, 0}
  BY <1>1
<1>4. \A j \in jobs' : j \in jobs \/ (j.task = n /\ (j.op = "first" => j.for \notin cut))
  BY <1>1
<1>5. saved' = saved
  OBVIOUS
<1>6. QED
  BY <1>2, <1>3, <1>4, <1>5, CleanChange

LEMMA AgentClean ==
    ASSUME Inv, Clean, ~late, AgentStep(made)
    PROVE  Clean'
<1>0. /\ made \in 1..made /\ task[made] \in Task /\ task = [task EXCEPT ![made] = task[made]]
  BY OnDisplay
<1>1. ASSUME NEW kind PROVE Said(kind).id = said + 1
  BY DEF Said
<1>2. ASSUME NEW op, op # "first", NEW for, Begin(made, op, for)
      PROVE  \A j \in jobs' : j \in jobs \/ (j.task = made /\ j.op # "first")
  BY <1>2 DEF Begin
<1>3. ASSUME NEW left \in Troubles, NEW t \in Creating(made, left)
      PROVE  t \in Task /\ t.messages = task[made].messages
  BY <1>0, <1>3 DEF Creating, Task
<1>4. CASE Say(made)
  <2>1. /\ Put(made, Append(task[made].messages, Said("other")), task) /\ said' = said + 1
        /\ UNCHANGED <<jobs, restore, cut>>
    BY <1>4 DEF Say
  <2>2. QED
    BY <1>0, <1>1, <2>1, CleanSaid
<1>5. CASE SaveCheckpoint(made)
  <2>1. PICK t \in Creating(made, "failed") :
          IF t.tracker
           THEN /\ said' = said + 1
                /\ Put(made, Append(t.messages, Said("checkpoint")), [task EXCEPT ![made] = t])
                /\ Begin(made, "background", said + 1)
           ELSE task' = [task EXCEPT ![made] = t] /\ UNCHANGED <<saved, noted, said, jobs>>
    BY <1>5 DEF SaveCheckpoint
  <2>2. restore' = restore /\ cut' = cut
    BY <1>5 DEF SaveCheckpoint
  <2>3. t \in Task /\ t.messages = task[made].messages
    BY <1>3 DEF Troubles
  <2>4. CASE t.tracker
    <3>1. /\ said' = said + 1 /\ Begin(made, "background", said + 1)
          /\ Put(made, Append(t.messages, Said("checkpoint")), [task EXCEPT ![made] = t])
      BY <2>1, <2>4
    <3>2. \A j \in jobs' : j \in jobs \/ (j.task = made /\ j.op # "first")
      BY <1>2, <3>1
    <3>3. QED
      BY <1>1, <2>2, <2>3, <3>1, <3>2, CleanSaid
  <2>5. CASE ~t.tracker
    <3>1. task' = [task EXCEPT ![made] = t] /\ UNCHANGED <<saved, said, jobs>>
      BY <2>1, <2>5
    <3>2. QED
      BY <1>0, <2>2, <2>3, <3>1, CleanSilent
  <2>6. QED
    BY <2>4, <2>5
<1>6. CASE Complete(made)
  <2>1. PICK t \in (IF task[made].trouble = "timedout" THEN {task[made]}
                     ELSE Creating(made, task[made].trouble)) :
         LET on == t.tracker /\ t.trouble # "timedout"
         IN  /\ Put(made, Append(t.messages, Said("completion")),
                    [task EXCEPT ![made] = [t EXCEPT !.pc = IF on THEN "saving" ELSE "ready"]])
             /\ IF on THEN Begin(made, "completion", said + 1) ELSE UNCHANGED jobs
    BY <1>6 DEF Complete
  <2>2. restore' = restore /\ cut' = cut /\ said' = said + 1
    BY <1>6 DEF Complete
  <2>3. t \in Task /\ t.messages = task[made].messages
    <3>1. task[made].trouble \in Troubles
      BY <1>0, TaskParts
    <3>2. QED
      BY <1>0, <1>3, <3>1
  <2>4. PICK pc \in {"saving", "ready"} :
          Put(made, Append(t.messages, Said("completion")), [task EXCEPT ![made] = [t EXCEPT !.pc = pc]])
    BY <2>1
  <2>5. Begin(made, "completion", said + 1) \/ jobs' = jobs
    BY <2>1
  <2>6. \A j \in jobs' : j \in jobs \/ (j.task = made /\ j.op # "first")
    BY <1>2, <2>5
  <2> DEFINE u == [t EXCEPT !.pc = pc]
  <2>7. u \in Task /\ u.messages = t.messages
    BY <2>3 DEF Task
  <2>8. Put(made, Append(u.messages, Said("completion")), [task EXCEPT ![made] = u])
    BY <2>4, <2>7
  <2> HIDE DEF u
  <2>9. QED
    BY <1>1, <2>2, <2>3, <2>6, <2>7, <2>8, CleanSaid
<1>7. CASE Resume(made)
  <2>1. task' = [task EXCEPT ![made] = [task[made] EXCEPT !.pc = "ready"]]
        /\ UNCHANGED <<saved, said, jobs, restore, cut>>
    BY <1>0, <1>7 DEF Resume
  <2>2. [task[made] EXCEPT !.pc = "ready"].messages = task[made].messages
    BY <1>0 DEF Task
  <2>3. QED
    BY <1>0, <2>1, <2>2, CleanSilent
<1>8. QED
  BY <1>4, <1>5, <1>6, <1>7 DEF AgentStep

\* What becomes of the tracker leaves the messages alone.
LEMMA TrackerSilent ==
    ASSUME Inv, NEW n \in 1..made, TrackerStep(n)
    PROVE  \E t : task' = [task EXCEPT ![n] = t] /\ t.messages = task[n].messages
<1>1. task[n] \in Task
  BY DEF Inv, Conversation, GoodTask
<1>2. CASE TrackerReady(n)
  <2>1. task' = [task EXCEPT ![n] = [task[n] EXCEPT !.tracker = TRUE, !.warn = FALSE, !.pc = "saving"]]
    BY <1>2 DEF TrackerReady
  <2>2. [task[n] EXCEPT !.tracker = TRUE, !.warn = FALSE, !.pc = "saving"].messages = task[n].messages
    BY <1>1 DEF Task
  <2>3. QED
    BY <2>1, <2>2
<1>3. CASE TrackerFails(n)
  <2>1. task' = [task EXCEPT ![n] = [task[n] EXCEPT !.trouble = "failed", !.pc = Released(n)]]
    BY <1>3 DEF TrackerFails
  <2>2. [task[n] EXCEPT !.trouble = "failed", !.pc = Released(n)].messages = task[n].messages
    BY <1>1 DEF Task
  <2>3. QED
    BY <2>1, <2>2
<1>4. CASE TrackerTimesOut(n)
  <2>1. task' = [task EXCEPT ![n] = [task[n] EXCEPT !.trouble = "timedout", !.pc = Released(n)]]
    BY <1>4 DEF TrackerTimesOut
  <2>2. [task[n] EXCEPT !.trouble = "timedout", !.pc = Released(n)].messages = task[n].messages
    BY <1>1 DEF Task
  <2>3. QED
    BY <2>1, <2>2
<1>5. CASE Warned(n)
  <2>1. task' = [task EXCEPT ![n] = [task[n] EXCEPT !.warn = FALSE, !.trouble = "slow"]]
    BY <1>5 DEF Warned
  <2>2. [task[n] EXCEPT !.warn = FALSE, !.trouble = "slow"].messages = task[n].messages
    BY <1>1 DEF Task
  <2>3. QED
    BY <2>1, <2>2
<1>6. QED
  BY <1>2, <1>3, <1>4, <1>5 DEF TrackerStep

LEMMA TrackerClean ==
    ASSUME Inv, Clean, ~late, NEW n \in 1..made, TrackerStep(n)
    PROVE  Clean'
<1>1. /\ task[n] \in Task /\ UNCHANGED <<saved, cut, restore>>
  BY DEF Inv, Conversation, GoodTask, TrackerStep, TrackerReady, TrackerFails, TrackerTimesOut,
     Warned, Starting
<1>2. PICK t : task' = [task EXCEPT ![n] = t] /\ t.messages = task[n].messages
  BY TrackerSilent
<1>3. CASE TrackerReady(n)
  <2>1. said' = said + 1 /\ Begin(n, "first", said + 1)
    BY <1>3 DEF TrackerReady
  <2>2. \A j \in jobs' : j \in jobs \/ (j.op = "first" /\ j.task = n /\ j.for = said + 1)
    BY <2>1 DEF Begin
  <2>3. QED
    BY <1>1, <1>2, <2>1, <2>2, CleanSilent
<1>4. CASE ~TrackerReady(n)
  <2>1. UNCHANGED <<said, jobs>>
    BY <1>4 DEF TrackerStep, TrackerFails, TrackerTimesOut, Warned
  <2>2. QED
    BY <1>1, <1>2, <2>1, CleanSilent
<1>5. QED
  BY <1>3, <1>4

\* A piece of work lands: its Task object saves no message that was cut off.
LEMMA CleanLanded ==
    ASSUME Inv, Clean, ~late, NEW j \in jobs, NEW u \in Task, NEW msgs,
           NEW ts, ts = [task EXCEPT ![j.task] = u], Put(j.task, msgs, ts), Ids(msgs) \cap cut = {},
           cut' = cut, said' = said, restore' = restore,
           \A k \in jobs' : k \in jobs \/ (k.task = j.task /\ k.op # "first")
    PROVE  Clean'
<1> DEFINE t == [u EXCEPT !.messages = msgs]
<1>1. j.task \in 1..made /\ said \in Nat
  BY WorkParts, Bounds DEF Inv, Conversation
<1>2. task' = [task EXCEPT ![j.task] = t] /\ t.messages = msgs /\ saved' = msgs
  BY <1>1, PutParts
<1> HIDE DEF t
<1>3. Ids(t.messages) \cap cut = {} /\ saved' = t.messages
  BY <1>2
<1>4. said' \in Nat /\ said <= said' /\ restore'.task \in {restore.task, 0}
  BY <1>1
<1>5. QED
  BY <1>1, <1>2, <1>3, <1>4, CleanChange

LEMMA WorkClean ==
    ASSUME Inv, Clean, ~late, NEW j \in jobs, JobStep(j)
    PROVE  Clean'
<1> DEFINE n == j.task
           msgs == task[n].messages
<1>1. /\ n \in 1..made /\ task[n] \in Task /\ msgs \in Seq(Message) /\ Sound(msgs, said)
      /\ task = [task EXCEPT ![n] = task[n]] /\ j \in Job
  <2>1. n \in 1..made /\ task[n] \in Task /\ Sound(msgs, said) /\ j \in Job
    BY WorkParts
  <2>2. task \in Seq(Task)
    BY DEF Inv, Conversation
  <2>3. QED
    BY <2>1, <2>2 DEF Sound
<1>2. UNCHANGED <<said, restore, cut>>
  BY DEF JobStep, Hide, Add, Show, Commit, CommitFails, LandBackground, LandFirst, LandCompletion,
     LandNews, Landing, At, Still
<1>3. j.op # "first" => Ids(msgs) \cap cut = {}
  BY <1>1 DEF Clean, Saving
<1>4. CASE Hide(j) \/ Add(j) \/ Show(j) \/ Commit(j)
  <2>1. PICK pc : jobs' = (jobs \ {j}) \cup {[j EXCEPT !.pc = pc]}
    BY <1>4 DEF Hide, Add, Show, Commit, To
  <2> DEFINE k == [j EXCEPT !.pc = pc]
  <2>2. UNCHANGED <<task, saved>>
    BY <1>4 DEF Hide, Add, Show, Commit, Still
  <2>3. k.task = n /\ k.op = j.op /\ k.for = j.for
    BY <1>1 DEF Job
  <2> HIDE DEF k
  <2>4. jobs' = (jobs \ {j}) \cup {k}
    BY <2>1 DEF k
  <2> HIDE DEF n
  <2>5. /\ cut \subseteq 1..said /\ Ids(saved) \cap cut = {}
        /\ \A m \in 1..made : Saving(m) => Ids(task[m].messages) \cap cut = {}
        /\ \A l \in jobs : l.op = "first" => l.for \notin cut
    BY DEF Clean
  <2>6. made' = made /\ \A m \in 1..made : Saving(m)' => Saving(m)
    BY <1>2, <2>2, <2>3, <2>4 DEF Saving, made, n
  <2>7. \A l \in jobs' : l.op = "first" => l.for \notin cut
    BY <2>3, <2>4, <2>5
  <2>8. QED
    BY <1>2, <2>2, <2>5, <2>6, <2>7 DEF Clean
<1>5. CASE CommitFails(j)
  <2>1. PICK pc : task' = [task EXCEPT ![n] = [task[n] EXCEPT !.pc = pc]]
    BY <1>1, <1>5 DEF CommitFails
  <2>2. [task[n] EXCEPT !.pc = pc].messages = task[n].messages
    BY <1>1 DEF Task
  <2>3. saved' = saved /\ jobs' \subseteq jobs
    BY <1>5 DEF CommitFails
  <2> HIDE DEF n
  <2>4. QED
    BY <1>1, <1>2, <2>1, <2>2, <2>3, CleanSilent
<1>6. CASE LandBackground(j)
  <2> DEFINE at == Of(msgs, "checkpoint")
             marked == [msgs EXCEPT ![Latest(at)].hash = j.for]
  <2>1. /\ jobs' = jobs \ {j} /\ j.op = "background"
        /\ IF at = {} THEN UNCHANGED <<task, saved, noted>> ELSE Put(n, marked, task)
    BY <1>6 DEF LandBackground, Landing
  <2>2. CASE at = {}
    <3>1. task' = [task EXCEPT ![n] = task[n]] /\ saved' = saved
      BY <1>1, <2>1, <2>2
    <3> HIDE DEF n
    <3>2. QED
      BY <1>1, <1>2, <2>1, <3>1, CleanSilent
  <2>3. CASE at # {}
    <3>1. Latest(at) \in DOMAIN msgs
      <4>1. PICK i \in at : TRUE
        BY <2>3
      <4> HIDE DEF msgs
      <4>2. said \in Nat
        BY Bounds DEF Inv, Conversation
      <4>3. QED
        BY <1>1, <4>1, <4>2, LatestIsLast
    <3>2. Ids(marked) \cap cut = {} /\ Put(n, marked, task)
      <4>1. Ids(marked) \subseteq Ids(msgs)
        BY <1>1, <3>1, IdsMark
      <4>2. QED
        BY <1>3, <2>1, <2>3, <4>1
    <3> HIDE DEF marked
    <3>3. QED
      BY <1>1, <1>2, <2>1, <3>2, CleanLanded
  <2>4. QED
    BY <2>2, <2>3
<1>7. CASE LandFirst(j)
  <2> DEFINE m == [id |-> j.for, kind |-> "checkpoint", hash |-> j.for]
  <2>1. /\ jobs' = jobs \ {j} /\ j.op = "first"
        /\ IF n = made
             THEN Put(n, Append(msgs, m), [task EXCEPT ![n].pc = "ready"])
             ELSE task' = [task EXCEPT ![n].pc = "ended"] /\ UNCHANGED <<saved, noted>>
    BY <1>7 DEF LandFirst, Landing
  <2>2. CASE n = made
    <3> DEFINE u == [task[n] EXCEPT !.pc = "ready"]
               ts == [task EXCEPT ![n] = u]
               more == Append(msgs, m)
    <3>1. Put(n, more, ts) /\ u \in Task
      BY <1>1, <2>1, <2>2 DEF Task
    <3>2. Ids(msgs) \cap cut = {}
      BY <1>1, <2>2 DEF Clean, Saving
    <3>3. j.for \notin cut
      BY <2>1 DEF Clean
    <3>4. Ids(more) \cap cut = {}
      <4>1. Ids(more) \subseteq Ids(msgs) \cup {m.id}
        BY <1>1, IdsAppend
      <4>2. QED
        BY <3>2, <3>3, <4>1
    <3> HIDE DEF u, more
    <3>5. QED
      BY <1>2, <2>1, <3>1, <3>4, CleanLanded
  <2>3. CASE n # made
    <3>1. task' = [task EXCEPT ![n] = [task[n] EXCEPT !.pc = "ended"]] /\ saved' = saved
      BY <2>1, <2>3
    <3>2. [task[n] EXCEPT !.pc = "ended"].messages = task[n].messages
      BY <1>1 DEF Task
    <3> HIDE DEF n
    <3>3. QED
      BY <1>1, <1>2, <2>1, <3>1, <3>2, CleanSilent
  <2>4. QED
    BY <2>2, <2>3
<1>8. CASE LandNews(j)
  <2> DEFINE t == [task[n] EXCEPT !.pc = Released(n)]
  <2>1. /\ jobs' = jobs \ {j} /\ j.op = "news" /\ task' = [task EXCEPT ![n] = t]
        /\ Save(n) \/ UNCHANGED <<saved, noted>>
    BY <1>8 DEF LandNews, Landing
  <2>2. t.messages = msgs
    BY <1>1 DEF Task
  <2>3. task'[n] = t
    BY <1>1, <2>1 DEF Inv, Conversation, made
  <2> HIDE DEF t
  <2>4. saved' = saved \/ saved' = t.messages
    BY <2>1, <2>3 DEF Save
  <2>5. Ids(t.messages) \cap cut = {}
    BY <1>3, <2>1, <2>2
  <2>6. said' \in Nat /\ said <= said' /\ restore'.task \in {restore.task, 0}
    BY <1>2, Bounds DEF Inv, Conversation
  <2> HIDE DEF n
  <2>7. QED
    BY <1>1, <1>2, <2>1, <2>4, <2>5, <2>6, CleanChange
<1>9. CASE LandCompletion(j)
  <2> DEFINE results == Of(msgs, "completion")
             last == Latest(results)
             marked == [msgs EXCEPT ![last].hash = j.for]
             u == [task[n] EXCEPT !.pc = Released(n)]
             k == [j EXCEPT !.op = "news", !.for = 0, !.pc = "hide"]
  <2>1. /\ j.op = "completion"
        /\ \/ /\ results = {} /\ task' = [task EXCEPT ![n] = u]
              /\ UNCHANGED <<saved, noted>> /\ jobs' = jobs \ {j}
           \/ /\ results # {} /\ Put(n, marked, [task EXCEPT ![n] = u]) /\ jobs' = jobs \ {j}
           \/ /\ results # {} /\ Put(n, marked, task) /\ jobs' = (jobs \ {j}) \cup {k}
    BY <1>9 DEF LandCompletion, Landing, To
  <2>2. u.messages = msgs
    BY <1>1 DEF Task
  <2>3. u \in Task
    BY <1>1 DEF Task, Released
  <2>4. \A l \in jobs' : l \in jobs \/ (l.task = j.task /\ l.op # "first")
    <3>1. k.task = j.task /\ k.op # "first"
      BY <1>1 DEF Job
    <3> HIDE DEF k
    <3>2. QED
      BY <2>1, <3>1
  <2>5. CASE results = {}
    <3>1. task' = [task EXCEPT ![n] = u] /\ saved' = saved /\ jobs' = jobs \ {j}
      BY <2>1, <2>5
    <3> HIDE DEF n, u
    <3>2. QED
      BY <1>1, <1>2, <2>2, <3>1, CleanSilent
  <2>6. CASE results # {}
    <3>1. last \in DOMAIN msgs
      <4>1. PICK i \in results : TRUE
        BY <2>6
      <4> HIDE DEF msgs
      <4>2. said \in Nat
        BY Bounds DEF Inv, Conversation
      <4>3. QED
        BY <1>1, <4>1, <4>2, LatestIsLast
    <3>2. Ids(marked) \cap cut = {}
      <4>1. Ids(marked) \subseteq Ids(msgs)
        BY <1>1, <3>1, IdsMark
      <4>2. QED
        BY <1>3, <2>1, <4>1
    <3>3. Put(n, marked, [task EXCEPT ![n] = u]) \/ Put(n, marked, task)
      BY <2>1, <2>6
    <3> HIDE DEF u, marked
    <3>4. QED
      BY <1>1, <1>2, <2>3, <2>4, <3>2, <3>3, CleanLanded
  <2>7. QED
    BY <2>5, <2>6
<1>10. QED
  BY <1>4, <1>5, <1>6, <1>7, <1>8, <1>9 DEF JobStep

\* A Task object made from the file has nothing that was cut off.
LEMMA CleanReopened ==
    ASSUME Inv, Clean, ~late, NEW f \in {made, made + 1}, Reopen(f), UNCHANGED <<saved, said, cut, jobs>>,
           restore'.task \in {restore.task, 0, f}, f = made => \A j \in jobs : j.task # made
    PROVE  Clean'
<1>1. /\ made \in Nat /\ 1 <= made /\ f \in Nat /\ 1 <= f /\ \A n \in 1..f : n = f \/ n \in 1..made
  BY Bounds DEF Inv, Conversation
<1>2. /\ made' = f /\ task'[f] = Opened(saved, noted)
      /\ \A n \in 1..f : n # f => task'[n] = Aborted(task[n])
  BY <1>1 DEF Reopen, made
<1>3. Ids(task'[f].messages) \cap cut = {}
  BY <1>2 DEF Clean, Opened
<1>4. ASSUME NEW n \in 1..f, n # f, Saving(n)' PROVE Ids(task'[n].messages) \cap cut = {}
  <2>1. n \in 1..made /\ n # 0
    BY <1>1, <1>4
  <2>2. Saving(n)
    BY <1>2, <1>4, <2>1 DEF Saving
  <2>3. task[n] \in Task
    BY <2>1 DEF Inv, Conversation, GoodTask
  <2>4. task'[n].messages = task[n].messages
    <3>1. task'[n] = Aborted(task[n])
      BY <1>2, <1>4
    <3>2. Aborted(task[n]).messages = task[n].messages
      BY <2>3 DEF Aborted, Task
    <3>3. QED
      BY <3>1, <3>2
  <2>5. QED
    BY <2>1, <2>2, <2>4 DEF Clean
<1>5. \A n \in 1..made' : Saving(n)' => Ids(task'[n].messages) \cap cut' = {}
  BY <1>2, <1>3, <1>4
<1>6. /\ cut' \subseteq 1..said' /\ Ids(saved') \cap cut' = {}
      /\ \A j \in jobs' : j.op = "first" => j.for \notin cut'
  BY DEF Clean
<1>7. QED
  BY <1>5, <1>6 DEF Clean, Ids

LEMMA ReopeningClean ==
    ASSUME Inv, Clean, ~late, Cancel \/ CheckpointRestore \/ RestoreDone
    PROVE  Clean'
<1>1. PICK f : Reopen(f) /\ (f = Successor \/ f = Fresh(Working(made)))
               /\ restore'.task \in {restore.task, 0, f}
  <2>1. CASE Cancel
    BY <2>1 DEF Cancel
  <2>2. CASE CheckpointRestore
    <3>1. Reopen(Successor) /\ restore'.task = Successor
      BY <2>2 DEF CheckpointRestore
    <3>2. QED
      BY <3>1
  <2>3. CASE RestoreDone
    BY <2>3 DEF RestoreDone, NoRestore
  <2>4. QED
    BY <2>1, <2>2, <2>3
<1>2. f \in {made, made + 1} /\ (f = made => \A j \in jobs : j.task # made)
  <2>1. PICK kept \in BOOLEAN : f = Fresh(kept) /\ (~kept => ~Working(made))
    <3>1. Successor = Fresh(Working(made) \/ restore.task = made)
      BY DEF Successor
    <3>2. Working(made) \in BOOLEAN /\ (Working(made) \/ restore.task = made) \in BOOLEAN
      BY DEF Working
    <3>3. CASE f = Successor
      BY <3>1, <3>2, <3>3
    <3>4. CASE f = Fresh(Working(made))
      BY <3>2, <3>4
    <3>5. QED
      BY <1>1, <3>3, <3>4
  <2>2. QED
    BY <2>1, FreshIsIdle
<1>3. UNCHANGED <<saved, said, cut, jobs>>
  BY DEF Cancel, CheckpointRestore, RestoreDone, RestoreStep
<1>4. QED
  BY <1>1, <1>2, <1>3, CleanReopened

LEMMA CrashClean ==
    ASSUME Inv, Clean, ~late, Crash
    PROVE  Clean'
<1>1. /\ task' = <<Opened(saved, noted)>> /\ jobs' = {} /\ UNCHANGED <<saved, said, cut>>
  BY DEF Crash
<1>2. made' = 1 /\ task'[1].messages = saved
  BY <1>1 DEF made, Opened
<1>3. \A n \in 1..made' : Ids(task'[n].messages) \cap cut' = {}
  <2>1. \A n \in 1..1 : n = 1
    OBVIOUS
  <2>2. QED
    BY <1>1, <1>2, <2>1 DEF Clean
<1>4. QED
  BY <1>1, <1>3 DEF Clean

\* What a restoring does before it cuts leaves the messages alone.
LEMMA ResettingSilent ==
    ASSUME NEW n \in 1..made, task[n] \in Task, task = [task EXCEPT ![n] = task[n]],
           RestoreReset(n) \/ RestoreFails(n) \/ RestoreSkips(n)
    PROVE  \E t : task' = [task EXCEPT ![n] = t] /\ t.messages = task[n].messages
<1>1. task[n] \in Task /\ task = [task EXCEPT ![n] = task[n]]
  OBVIOUS
<1>2. CASE RestoreReset(n)
  <2>1. task' = [task EXCEPT ![n] = [task[n] EXCEPT !.tracker = TRUE]]
    BY <1>2 DEF RestoreReset
  <2>2. [task[n] EXCEPT !.tracker = TRUE].messages = task[n].messages
    BY <1>1 DEF Task
  <2>3. QED
    BY <2>1, <2>2
<1>3. CASE RestoreFails(n)
  <2>1. PICK t \in (IF task[n].trouble = "none" THEN Creating(n, "failed") ELSE {task[n]}) :
           task' = [task EXCEPT ![n] = t]
    BY <1>3 DEF RestoreFails
  <2>2. t = task[n] \/ t = [task[n] EXCEPT !.tracker = TRUE] \/ t = [task[n] EXCEPT !.trouble = "failed"]
    BY <2>1 DEF Creating
  <2>3. t.messages = task[n].messages
    BY <1>1, <2>2 DEF Task
  <2>4. QED
    BY <2>1, <2>3
<1>4. CASE RestoreSkips(n)
  BY <1>1, <1>4 DEF RestoreSkips
<1>5. QED
  BY <1>2, <1>3, <1>4

LEMMA ResettingClean ==
    ASSUME Inv, Clean, ~late, NEW n, n = restore.task,
           RestoreReset(n) \/ RestoreFails(n) \/ RestoreSkips(n)
    PROVE  Clean'
<1>1. restore.pc # "none" /\ UNCHANGED <<said, jobs, cut>>
  BY DEF RestoreReset, RestoreFails, RestoreSkips, RestoreStep
<1>2. /\ n \in 1..made /\ restore \in Restore /\ task[n] \in Task /\ said \in Nat
      /\ task = [task EXCEPT ![n] = task[n]]
  <2>1. n \in 1..made /\ restore \in Restore /\ task[n] \in Task
    BY <1>1, RestoringParts
  <2>2. task \in Seq(Task) /\ said \in Nat
    BY Bounds DEF Inv, Conversation
  <2>3. QED
    BY <2>1, <2>2
<1>3. PICK t : task' = [task EXCEPT ![n] = t] /\ t.messages = task[n].messages
  BY <1>2, ResettingSilent
<1>4. restore'.task \in {restore.task, 0} /\ (saved' = saved \/ Save(n))
  <2>1. ASSUME NEW reset \in BOOLEAN, Onwards(n, reset)
        PROVE  restore'.task = restore.task /\ (saved' = saved \/ Save(n))
    BY <1>2, <2>1, OnwardsParts
  <2>2. CASE RestoreFails(n)
    BY <2>2 DEF RestoreFails, NoRestore
  <2>3. CASE RestoreReset(n)
    BY <2>1, <2>3 DEF RestoreReset
  <2>4. CASE RestoreSkips(n)
    BY <2>1, <2>4 DEF RestoreSkips
  <2>5. QED
    BY <2>2, <2>3, <2>4
<1>5. Ids(t.messages) \cap cut = {}
  BY <1>2, <1>3 DEF Clean, Saving
<1>6. saved' = saved \/ saved' = t.messages
  <2>1. task \in Seq(Task) /\ task' = [task EXCEPT ![n] = t]
    BY <1>3 DEF Inv, Conversation
  <2>2. task'[n] = t
    BY <1>2, <2>1, Exchanged
  <2>3. QED
    BY <1>4, <2>2 DEF Save
<1>7. said' \in Nat /\ said <= said'
  BY <1>1, <1>2
<1>8. QED
  BY <1>1, <1>2, <1>3, <1>4, <1>5, <1>6, <1>7, CleanChange

\* The messages are cut off with nothing else under way, or there were none left.
LEMMA CuttingClean ==
    ASSUME Inv, Clean, ~late, NEW n, n = restore.task, RestoreCut(n),
           cut' = cut \/ (n = made /\ jobs = {})
    PROVE  Clean'
<1> DEFINE msgs == task[n].messages
           kept == SubSeq(msgs, 1, Smaller(restore.at, Len(msgs)))
           t == [task[n] EXCEPT !.messages = kept]
<1>1. /\ restore.pc # "none" /\ UNCHANGED <<said, jobs>> /\ Put(n, kept, task)
      /\ cut' = cut \cup (Ids(msgs) \ Ids(kept))
      /\ restore' = IF n = made THEN [restore EXCEPT !.pc = "cancel"] ELSE NoRestore
  BY DEF RestoreCut, RestoreStep
<1>2. /\ n \in 1..made /\ restore \in Restore /\ task[n] \in Task /\ said \in Nat
      /\ Sound(msgs, said) /\ task = [task EXCEPT ![n] = task[n]] /\ DOMAIN task = 1..made
  <2>1. n \in 1..made /\ restore \in Restore /\ task[n] \in Task /\ Sound(msgs, said)
    BY <1>1, RestoringParts
  <2>2. task \in Seq(Task) /\ said \in Nat
    BY Bounds DEF Inv, Conversation
  <2>3. QED
    BY <2>1, <2>2 DEF made
<1>3. Ids(kept) \subseteq Ids(msgs) /\ Ids(msgs) \subseteq 1..said
  <2>1. msgs \in Seq(Message) /\ restore.at \in Nat
    BY <1>2 DEF Sound, Restore
  <2> HIDE DEF msgs
  <2>2. QED
    BY <1>2, <2>1, IdsCut, IdsSaid
<1>4. Ids(msgs) \cap cut = {} /\ cut \subseteq 1..said
  BY <1>2 DEF Clean, Saving
<1>5. Ids(kept) \cap cut' = {} /\ cut' \subseteq 1..said
  BY <1>1, <1>3, <1>4
<1> HIDE DEF kept
<1>6. task' = [task EXCEPT ![n] = t] /\ t.messages = kept /\ saved' = kept
  BY <1>1, <1>2, PutParts
<1> HIDE DEF t, msgs
<1>7. restore'.task \in {restore.task, 0}
  BY <1>1, <1>2 DEF NoRestore, Restore
<1>8. CASE cut' = cut
  <2>1. said' \in Nat /\ said <= said'
    BY <1>1, <1>2
  <2>2. QED
    BY <1>1, <1>2, <1>5, <1>6, <1>7, <1>8, <2>1, CleanChange
<1>9. CASE n = made /\ jobs = {}
  <2>1. task' = [task EXCEPT ![n] = t] /\ n \in DOMAIN task
    BY <1>2, <1>6
  <2>2. made' = made /\ task'[n] = t
    BY <2>1 DEF Inv, Conversation, made
  <2>3. \A k \in 1..made : Saving(k)' => k = n
    <3>1. \A k \in 1..made : k # 0
      BY <1>2 DEF Inv, Conversation
    <3>2. jobs' = {}
      BY <1>1, <1>9
    <3>3. QED
      BY <1>7, <1>9, <2>2, <3>1, <3>2 DEF Saving
  <2>4. \A k \in 1..made' : Saving(k)' => Ids(task'[k].messages) \cap cut' = {}
    BY <1>5, <1>6, <2>2, <2>3
  <2>5. cut' \subseteq 1..said' /\ Ids(saved') \cap cut' = {}
    BY <1>1, <1>5, <1>6
  <2>6. QED
    BY <1>1, <1>9, <2>4, <2>5 DEF Clean, Ids
<1>10. QED
  BY <1>8, <1>9

LEMMA CleanStep ==
    ASSUME Inv, Clean, [MCNext]_<<vars, calm, crossed, late>>
    PROVE  Clean'
<1> SUFFICES ASSUME ~late' PROVE Clean'
  BY DEF Clean
<1>1. CASE UNCHANGED <<vars, calm, crossed, late>>
  <2>1. UNCHANGED <<task, saved, said, jobs, restore, cut, late>>
    BY <1>1 DEF vars
  <2>2. made' = made
    BY <2>1 DEF made
  <2>3. \A n \in 1..made : Saving(n)' => Saving(n)
    BY <2>1, <2>2 DEF Saving
  <2>4. QED
    BY <2>1, <2>2, <2>3 DEF Clean
<1>2. CASE MCNext
  <2>1. ~late /\ Next /\ (cut' = cut \/ (restore.task = made /\ jobs = {}))
    BY <1>2 DEF MCNext
  <2>2. CASE restore.task # 0 /\ RestoringStep(restore.task)
    BY <2>1, <2>2, ResettingClean, CuttingClean, ReopeningClean DEF RestoringStep
  <2>3. QED
    BY <2>1, <2>2, AgentClean, TrackerClean, WorkClean, ReopeningClean, CrashClean DEF Next
<1>3. QED
  BY <1>1, <1>2

-----------------------------------------------------------------------------
(* Commits that do not meet. *)

\* No message carries the commit of another one.
Own(msgs) == \A i \in DOMAIN msgs : msgs[i].hash # 0 => msgs[i].hash = msgs[i].id

\* Moreover, every checkpoint message carries one.
Ripe(msgs) == Own(msgs) /\ \A i \in Of(msgs, "checkpoint") : msgs[i].hash # 0

\* The last message of the kind a commit lands on is its own; a checkpoint message
\* without a commit is that one.
Due(msgs, j) ==
    \E p \in Of(msgs, MarkedKind(j.op)) :
        /\ msgs[p].id = j.for /\ \A k \in Of(msgs, MarkedKind(j.op)) : k <= p
        /\ j.op = "background" =>
             \A i \in Of(msgs, "checkpoint") : msgs[i].hash = 0 => i = p

Behind == \E j \in jobs : j.op = "background"
Settled == Ripe(saved) /\ \A n \in 1..made : Ripe(task[n].messages)
Half == /\ Own(saved) /\ Own(task[made].messages)
        /\ \A n \in 1..made : n # made => Ripe(task[n].messages)

\* As long as commits do not meet, all checkpoint messages carry their own, but for
\* the one that a commit in the background is on its way to.
Marks ==
    calm => /\ \A j, k \in Making(jobs) : j = k
            /\ Half /\ (~Behind => Settled)
            /\ \A j \in jobs : j.op \in {"background", "completion"} =>
                               j.task = made /\ Due(task[made].messages, j)

LEMMA Appended ==
    ASSUME NEW msgs \in Seq(Message), NEW m
    PROVE  /\ DOMAIN msgs = 1..Len(msgs) /\ Len(msgs) \in Nat
           /\ DOMAIN Append(msgs, m) = 1..Len(msgs) + 1
           /\ Append(msgs, m)[Len(msgs) + 1] = m
           /\ \A i \in 1..Len(msgs) : Append(msgs, m)[i] = msgs[i]
           /\ \A i \in 1..Len(msgs) + 1 : i \in 1..Len(msgs) \/ i = Len(msgs) + 1
           /\ Len(msgs) + 1 \in 1..Len(msgs) + 1
           /\ \A i \in 1..Len(msgs) : i <= Len(msgs) + 1 /\ i \in 1..Len(msgs) + 1
  OBVIOUS

LEMMA OwnAppend ==
    ASSUME NEW msgs \in Seq(Message), NEW m, Own(msgs), m.hash \in {0, m.id}
    PROVE  /\ Own(Append(msgs, m))
           /\ Ripe(msgs) /\ (m.kind = "checkpoint" => m.hash # 0) => Ripe(Append(msgs, m))
<1> DEFINE more == Append(msgs, m)
<1>1. /\ DOMAIN more = 1..Len(msgs) + 1 /\ DOMAIN msgs = 1..Len(msgs) /\ more[Len(msgs) + 1] = m
      /\ \A i \in 1..Len(msgs) : more[i] = msgs[i]
      /\ \A i \in 1..Len(msgs) + 1 : i \in 1..Len(msgs) \/ i = Len(msgs) + 1
  BY Appended
<1> HIDE DEF more
<1>2. Own(more)
  BY <1>1 DEF Own
<1>3. Ripe(msgs) /\ (m.kind = "checkpoint" => m.hash # 0) => Ripe(more)
  BY <1>1, <1>2 DEF Ripe, Of
<1>4. QED
  BY <1>2, <1>3 DEF more

\* A message of another kind is no matter.
LEMMA DueAppend ==
    ASSUME NEW msgs \in Seq(Message), NEW m, NEW j, Due(msgs, j), m.kind # MarkedKind(j.op)
    PROVE  Due(Append(msgs, m), j)
<1> DEFINE more == Append(msgs, m)
<1>1. /\ DOMAIN more = 1..Len(msgs) + 1 /\ DOMAIN msgs = 1..Len(msgs) /\ more[Len(msgs) + 1] = m
      /\ \A i \in 1..Len(msgs) : more[i] = msgs[i]
      /\ \A i \in 1..Len(msgs) + 1 : i \in 1..Len(msgs) \/ i = Len(msgs) + 1
      /\ \A i \in 1..Len(msgs) : i \in 1..Len(msgs) + 1
  BY Appended
<1> HIDE DEF more
<1>2. Of(more, MarkedKind(j.op)) = Of(msgs, MarkedKind(j.op))
  BY <1>1 DEF Of
<1>3. \A i \in Of(more, MarkedKind(j.op)) : more[i] = msgs[i]
  BY <1>1, <1>2 DEF Of
<1>4. j.op = "background" => MarkedKind(j.op) = "checkpoint"
  BY DEF MarkedKind
<1>5. Due(more, j)
  BY <1>2, <1>3, <1>4 DEF Due
<1>6. QED
  BY <1>5 DEF more

\* A message is said, and its commit begun.
LEMMA DueFresh ==
    ASSUME NEW msgs \in Seq(Message), NEW m, NEW j, Ripe(msgs),
           m.kind = MarkedKind(j.op), m.id = j.for
    PROVE  Due(Append(msgs, m), j)
<1> DEFINE more == Append(msgs, m)
           p == Len(msgs) + 1
<1>1. /\ DOMAIN more = 1..p /\ DOMAIN msgs = 1..Len(msgs) /\ more[p] = m
      /\ \A i \in 1..Len(msgs) : more[i] = msgs[i]
      /\ \A i \in 1..p : i \in 1..Len(msgs) \/ i = p
      /\ \A i \in 1..p : i <= p
      /\ p \in 1..p
  <2>1. Len(msgs) \in Nat
    BY Appended
  <2>2. \A i \in 1..p : i <= p
    BY <2>1
  <2>3. QED
    BY <2>2, Appended
<1> HIDE DEF more, p
<1>2. p \in Of(more, MarkedKind(j.op)) /\ more[p].id = j.for
  BY <1>1 DEF Of
<1>3. \A k \in Of(more, MarkedKind(j.op)) : k <= p
  BY <1>1 DEF Of
<1>4. \A i \in Of(more, "checkpoint") : more[i].hash = 0 => i = p
  BY <1>1 DEF Of, Ripe
<1>5. Due(more, j)
  BY <1>2, <1>3, <1>4 DEF Due
<1>6. QED
  BY <1>5 DEF more

\* A commit lands on its own message.
LEMMA DueLands ==
    ASSUME NEW msgs \in Seq(Message), NEW j, j.op \in {"background", "completion"},
           j.for # 0, Own(msgs), Due(msgs, j), j.op = "completion" => Ripe(msgs),
           NEW kind, kind = MarkedKind(j.op)
    PROVE  /\ Of(msgs, kind) # {}
           /\ Ripe([msgs EXCEPT ![Latest(Of(msgs, kind))].hash = j.for])
<1> DEFINE last == Latest(Of(msgs, kind))
           marked == [msgs EXCEPT ![last].hash = j.for]
<1>1. PICK p \in Of(msgs, kind) :
        /\ msgs[p].id = j.for /\ \A k \in Of(msgs, kind) : k <= p
        /\ j.op = "background" => \A i \in Of(msgs, "checkpoint") : msgs[i].hash = 0 => i = p
  BY DEF Due
<1>2. \A i \in DOMAIN msgs : i \in Nat
  OBVIOUS
<1>3. last = p
  <2>1. \A k \in Of(msgs, kind) : k \in Nat
    BY <1>2 DEF Of
  <2>2. last \in Of(msgs, kind) /\ \A k \in Of(msgs, kind) : k <= last
    BY <1>1 DEF Latest
  <2>3. last <= p /\ p <= last
    BY <1>1, <2>2
  <2>4. QED
    BY <2>1, <2>2, <2>3
<1>4. p \in DOMAIN msgs /\ msgs[p] \in Message
  BY DEF Of
<1> HIDE DEF last
<1>5. /\ DOMAIN marked = DOMAIN msgs /\ marked[p] = [msgs[p] EXCEPT !.hash = j.for]
      /\ \A k \in DOMAIN msgs : k # p => marked[k] = msgs[k]
  BY <1>3, <1>4
<1>6. marked[p].hash = j.for /\ marked[p].id = j.for /\ marked[p].kind = msgs[p].kind
  BY <1>1, <1>4, <1>5 DEF Message
<1> HIDE DEF marked
<1>7. Own(marked)
  BY <1>5, <1>6 DEF Own
<1>8. \A i \in Of(marked, "checkpoint") : i # p => msgs[i].hash # 0 /\ marked[i] = msgs[i]
  BY <1>1, <1>5, <1>6 DEF Of, Ripe
<1>9. Ripe(marked)
  BY <1>6, <1>7, <1>8 DEF Ripe
<1>10. Of(msgs, kind) # {}
  BY <1>1
<1>11. QED
  BY <1>9, <1>10 DEF marked, last

LEMMA RipeCut ==
    ASSUME NEW msgs \in Seq(Message), NEW k \in Nat, Ripe(msgs)
    PROVE  Ripe(SubSeq(msgs, 1, Smaller(k, Len(msgs))))
<1> DEFINE e == Smaller(k, Len(msgs))
           kept == SubSeq(msgs, 1, e)
<1>1. Len(msgs) \in Nat /\ DOMAIN msgs = 1..Len(msgs)
  OBVIOUS
<1>2. e \in 0..Len(msgs)
  BY <1>1 DEF Smaller
<1> HIDE DEF e
<1>3. DOMAIN kept = 1..e /\ \A i \in 1..e : kept[i] = msgs[i]
  BY <1>1, <1>2
<1>4. \A i \in 1..e : i \in DOMAIN msgs
  BY <1>1, <1>2
<1> HIDE DEF kept
<1>5. Ripe(kept)
  BY <1>3, <1>4 DEF Ripe, Own, Of
<1>6. QED
  BY <1>5 DEF kept, e

\* One Task object changes what it has, and maybe saves it.
LEMMA MarkChange ==
    ASSUME Inv, Half, ~Behind => Settled, NEW n \in 1..made, NEW t, task' = [task EXCEPT ![n] = t],
           Own(t.messages), Ripe(t.messages) \/ (n = made /\ Behind'),
           \/ (Behind => Behind') /\ (saved' = saved \/ saved' = t.messages)
           \/ n = made /\ saved' = t.messages
    PROVE  Half' /\ (~Behind' => Settled') /\ made' = made /\ task'[n] = t
<1>1. task \in Seq(Task) /\ made \in Nat /\ DOMAIN task = 1..made /\ made \in 1..made
  BY Bounds DEF Inv, Conversation, made
<1>2. made' = made /\ task'[n] = t /\ \A k \in 1..made : k # n => task'[k] = task[k]
  BY <1>1, Exchanged
<1>3. Own(saved') /\ Own(task'[made'].messages)
  BY <1>1, <1>2 DEF Half
<1>4. \A k \in 1..made' : k # made' => Ripe(task'[k].messages)
  BY <1>2 DEF Half
<1>5. Half'
  BY <1>3, <1>4 DEF Half, Own, Ripe, Of
<1>6. ASSUME ~Behind' PROVE Settled'
  <2>1. Ripe(t.messages)
    BY <1>6
  <2>2. Ripe(saved') /\ \A k \in 1..made' : Ripe(task'[k].messages)
    <3>1. CASE (Behind => Behind') /\ (saved' = saved \/ saved' = t.messages)
      BY <1>2, <1>6, <2>1, <3>1 DEF Settled
    <3>2. CASE n = made /\ saved' = t.messages
      BY <1>2, <2>1, <3>2 DEF Half
    <3>3. QED
      BY <3>1, <3>2
  <2>3. QED
    BY <2>2 DEF Settled, Ripe, Own, Of
<1>7. QED
  BY <1>2, <1>5, <1>6

\* A step after which commits still do not meet.
Calm == calm /\ ~Disturbed /\ \A j, k \in Making(jobs') : j = k

\* What holds before such a step.
LEMMA MarkParts ==
    ASSUME Inv, Marks, Calm
    PROVE  /\ made \in 1..made /\ task[made] \in Task /\ task[made].messages \in Seq(Message)
           /\ task = [task EXCEPT ![made] = task[made]] /\ Half /\ (~Behind => Settled)
           /\ Own(task[made].messages) /\ (Ripe(task[made].messages) \/ Behind)
           /\ \A j, k \in Making(jobs) : j = k
           /\ \A j \in jobs : j.op \in {"background", "completion"} =>
                              j.task = made /\ Due(task[made].messages, j)
<1>1. made \in 1..made /\ task \in Seq(Task)
  BY Bounds DEF Inv, Conversation
<1>2. task[made] \in Task /\ task[made].messages \in Seq(Message)
  BY <1>1 DEF Inv, Conversation, GoodTask, Sound
<1>3. task = [task EXCEPT ![made] = task[made]]
  BY <1>1
<1>4. /\ Half /\ (~Behind => Settled) /\ \A j, k \in Making(jobs) : j = k
      /\ \A j \in jobs : j.op \in {"background", "completion"} =>
                         j.task = made /\ Due(task[made].messages, j)
  BY DEF Marks, Calm
<1>5. Own(task[made].messages) /\ (Ripe(task[made].messages) \/ Behind)
  BY <1>1, <1>4 DEF Half, Settled
<1>6. QED
  BY <1>1, <1>2, <1>3, <1>4, <1>5

\* Nothing is said, and no commit begins or ends.
LEMMA MarksSilent ==
    ASSUME Inv, Marks, Calm, NEW n \in 1..made, NEW t, task' = [task EXCEPT ![n] = t],
           t.messages = task[n].messages, saved' = saved \/ saved' = t.messages,
           Behind => Behind',
           \A j \in jobs' : j.op \in {"background", "completion"} =>
             \E k \in jobs : k.op = j.op /\ k.task = j.task /\ k.for = j.for
    PROVE  Marks'
<1>0. /\ Half /\ (~Behind => Settled)
      /\ \A j \in jobs : j.op \in {"background", "completion"} =>
                         j.task = made /\ Due(task[made].messages, j)
  BY MarkParts
<1>1. Own(t.messages) /\ (Ripe(t.messages) \/ (n = made /\ Behind'))
  <2>1. CASE Behind
    BY <1>0, <2>1 DEF Half, Ripe
  <2>2. CASE ~Behind
    BY <1>0, <2>2 DEF Settled, Ripe
  <2>3. QED
    BY <2>1, <2>2
<1>2. Half' /\ (~Behind' => Settled') /\ made' = made /\ task'[n] = t
  BY <1>0, <1>1, MarkChange
<1>3. task'[made].messages = task[made].messages
  <2>1. task \in Seq(Task)
    BY DEF Inv, Conversation
  <2>2. made \in 1..made
    BY MarkParts
  <2>3. QED
    BY <2>1, <2>2, Exchanged
<1>4. ASSUME NEW j \in jobs', j.op \in {"background", "completion"}
      PROVE  j.task = made' /\ Due(task'[made'].messages, j)
  <2>1. PICK k \in jobs : k.op = j.op /\ k.task = j.task /\ k.for = j.for
    BY <1>4
  <2>2. k.task = made /\ Due(task[made].messages, k)
    BY <1>0, <1>4, <2>1
  <2>3. Due(task[made].messages, j)
    BY <2>1, <2>2 DEF Due
  <2>4. QED
    BY <1>2, <1>3, <2>1, <2>2, <2>3
<1>5. \A j, k \in Making(jobs') : j = k
  BY DEF Calm
<1>6. QED
  BY <1>2, <1>4, <1>5 DEF Marks, Making, Due, Of

\* A message is said that no commit is for.
LEMMA MarksSaid ==
    ASSUME Inv, Marks, Calm, NEW u \in Task, NEW m, u.messages = task[made].messages,
           m.hash = 0, m.kind # "checkpoint", NEW ts, ts = [task EXCEPT ![made] = u],
           Put(made, Append(u.messages, m), ts), jobs' = jobs, task[made].pc = "ready"
    PROVE  Marks'
<1> DEFINE msgs == Append(u.messages, m)
           t == [u EXCEPT !.messages = msgs]
<1>0. /\ Half /\ (~Behind => Settled) /\ made \in 1..made /\ u.messages \in Seq(Message)
      /\ Own(u.messages) /\ (Ripe(u.messages) \/ Behind)
      /\ \A j \in jobs : j.op \in {"background", "completion"} =>
                         j.task = made /\ Due(u.messages, j)
  BY MarkParts
<1>1. Own(msgs) /\ (Ripe(u.messages) => Ripe(msgs))
  BY <1>0, OwnAppend
<1>2. Put(made, msgs, ts)
  OBVIOUS
<1>3. \A j \in jobs : j.op # "completion"
  <2> SUFFICES ASSUME NEW j \in jobs, j.op = "completion" PROVE FALSE
    OBVIOUS
  <2>1. j.task = made
    BY <1>0
  <2>2. Serves(j, task[made], said)
    BY <2>1, WorkParts
  <2>3. QED
    BY <2>2 DEF Serves, Awaited
<1>4. \A j \in jobs : j.op = "background" => Due(msgs, j)
  <2> SUFFICES ASSUME NEW j \in jobs, j.op = "background" PROVE Due(msgs, j)
    OBVIOUS
  <2>1. Due(u.messages, j) /\ m.kind # MarkedKind(j.op)
    BY <1>0 DEF MarkedKind
  <2>2. QED
    BY <1>0, <2>1, DueAppend
<1> HIDE DEF msgs
<1>5. task' = [task EXCEPT ![made] = t] /\ t.messages = msgs /\ saved' = msgs
  BY <1>0, <1>2, PutParts
<1> HIDE DEF t
<1>6. Behind' = Behind
  BY DEF Behind
<1>7. Own(t.messages) /\ (Ripe(t.messages) \/ Behind') /\ saved' = t.messages
  BY <1>0, <1>1, <1>5, <1>6
<1>8. Half' /\ (~Behind' => Settled') /\ made' = made /\ task'[made] = t
  BY <1>0, <1>5, <1>7, MarkChange
<1>9. \A j \in jobs' : j.op \in {"background", "completion"} =>
                       j.task = made' /\ Due(task'[made'].messages, j)
  BY <1>0, <1>3, <1>4, <1>5, <1>8
<1>10. \A j, k \in Making(jobs') : j = k
  BY DEF Calm
<1>11. QED
  BY <1>8, <1>9, <1>10 DEF Marks, Making, Due, Of

\* A message is said and its commit begun: there is no other under way.
LEMMA MarksBegun ==
    ASSUME Inv, Marks, Calm, NEW u \in Task, NEW m, u.messages = task[made].messages,
           NEW op \in {"background", "completion"}, m.kind = MarkedKind(op), m.id = said + 1,
           m.hash = 0, NEW ts, ts = [task EXCEPT ![made] = u],
           Put(made, Append(u.messages, m), ts), Begin(made, op, said + 1)
    PROVE  Marks'
<1> DEFINE msgs == Append(u.messages, m)
           t == [u EXCEPT !.messages = msgs]
           k == [task |-> made, op |-> op, for |-> said + 1, pc |-> "hide"]
<1>0. /\ Half /\ (~Behind => Settled) /\ made \in 1..made /\ u.messages \in Seq(Message)
      /\ Own(u.messages) /\ (Ripe(u.messages) \/ Behind)
  BY MarkParts
<1>1. /\ jobs' = jobs \cup {k} /\ k.task = made /\ k.op = op /\ k.for = said + 1
  BY DEF Begin
<1> HIDE DEF k
<1>2. Making(jobs) = {}
  <2> SUFFICES ASSUME NEW j \in Making(jobs) PROVE FALSE
    OBVIOUS
  <2>1. j \in jobs /\ j.op \in Committing
    BY DEF Making
  <2>2. j.for <= said /\ j.for \in Nat /\ said \in Nat
    BY <2>1, WorkParts, Bounds DEF Serves, Inv, Conversation
  <2>3. j # k
    BY <1>1, <2>2
  <2>4. j \in Making(jobs') /\ k \in Making(jobs')
    BY <1>1, <2>1 DEF Making, Committing
  <2>5. QED
    BY <2>3, <2>4 DEF Calm
<1>3. \A j \in jobs : j.op \notin {"background", "completion"}
  BY <1>2 DEF Making, Committing
<1>4. ~Behind /\ Ripe(u.messages)
  BY <1>0, <1>3 DEF Behind
<1>5. Own(msgs) /\ (op = "completion" => Ripe(msgs))
  BY <1>0, <1>4, OwnAppend DEF MarkedKind
<1>6. Due(msgs, k)
  BY <1>0, <1>1, <1>4, DueFresh
<1>7. Put(made, msgs, ts)
  OBVIOUS
<1> HIDE DEF msgs
<1>8. task' = [task EXCEPT ![made] = t] /\ t.messages = msgs /\ saved' = msgs
  BY <1>0, <1>7, PutParts
<1> HIDE DEF t
<1>9. op = "background" => Behind'
  BY <1>1 DEF Behind
<1>10. Own(t.messages) /\ (Ripe(t.messages) \/ Behind') /\ saved' = t.messages
  BY <1>5, <1>8, <1>9
<1>11. Half' /\ (~Behind' => Settled') /\ made' = made /\ task'[made] = t
  BY <1>0, <1>8, <1>10, MarkChange
<1>12. \A j \in jobs' : j.op \in {"background", "completion"} =>
                       j.task = made' /\ Due(task'[made'].messages, j)
  BY <1>1, <1>3, <1>6, <1>8, <1>11
<1>13. \A j, l \in Making(jobs') : j = l
  BY DEF Calm
<1>14. QED
  BY <1>11, <1>12, <1>13 DEF Marks, Making, Due, Of

LEMMA AgentMarks ==
    ASSUME Inv, Marks, Calm, AgentStep(made)
    PROVE  Marks'
<1>0. /\ made \in 1..made /\ task[made] \in Task /\ task = [task EXCEPT ![made] = task[made]]
  BY MarkParts
<1>1. \A kind : Said(kind).id = said + 1 /\ Said(kind).kind = kind /\ Said(kind).hash = 0
  BY DEF Said
<1>2. ASSUME NEW left \in Troubles, NEW t \in Creating(made, left)
      PROVE  t \in Task /\ t.messages = task[made].messages
  BY <1>0, <1>2 DEF Creating, Task
<1>3. ASSUME jobs' = jobs
      PROVE  /\ Behind => Behind'
             /\ \A j \in jobs' : \E k \in jobs : k.op = j.op /\ k.task = j.task /\ k.for = j.for
  BY <1>3 DEF Behind
<1>4. CASE Say(made)
  <2>1. /\ Put(made, Append(task[made].messages, Said("other")), task)
        /\ jobs' = jobs /\ task[made].pc = "ready"
    BY <1>4 DEF Say
  <2>2. QED
    BY <1>0, <1>1, <2>1, MarksSaid
<1>5. CASE SaveCheckpoint(made)
  <2>1. PICK t \in Creating(made, "failed") :
          IF t.tracker
           THEN /\ said' = said + 1
                /\ Put(made, Append(t.messages, Said("checkpoint")), [task EXCEPT ![made] = t])
                /\ Begin(made, "background", said + 1)
           ELSE task' = [task EXCEPT ![made] = t] /\ UNCHANGED <<saved, noted, said, jobs>>
    BY <1>5 DEF SaveCheckpoint
  <2>2. t \in Task /\ t.messages = task[made].messages
    BY <1>2 DEF Troubles
  <2>3. CASE t.tracker
    <3>1. /\ Begin(made, "background", said + 1)
          /\ Put(made, Append(t.messages, Said("checkpoint")), [task EXCEPT ![made] = t])
      BY <2>1, <2>3
    <3>2. Said("checkpoint").kind = MarkedKind("background")
      BY <1>1 DEF MarkedKind
    <3>3. QED
      BY <1>1, <2>2, <3>1, <3>2, MarksBegun
  <2>4. CASE ~t.tracker
    <3>1. task' = [task EXCEPT ![made] = t] /\ saved' = saved /\ jobs' = jobs
      BY <2>1, <2>4
    <3>2. QED
      BY <1>0, <1>3, <2>2, <3>1, MarksSilent
  <2>5. QED
    BY <2>3, <2>4
<1>6. CASE Complete(made)
  <2>1. PICK t \in (IF task[made].trouble = "timedout" THEN {task[made]}
                     ELSE Creating(made, task[made].trouble)) :
         LET on == t.tracker /\ t.trouble # "timedout"
         IN  /\ Put(made, Append(t.messages, Said("completion")),
                    [task EXCEPT ![made] = [t EXCEPT !.pc = IF on THEN "saving" ELSE "ready"]])
             /\ IF on THEN Begin(made, "completion", said + 1) ELSE UNCHANGED jobs
    BY <1>6 DEF Complete
  <2>2. task[made].pc = "ready"
    BY <1>6 DEF Complete
  <2>3. t \in Task /\ t.messages = task[made].messages
    <3>1. task[made].trouble \in Troubles
      BY <1>0, TaskParts
    <3>2. QED
      BY <1>0, <1>2, <3>1
  <2>4. PICK pc \in {"saving", "ready"} :
          Put(made, Append(t.messages, Said("completion")), [task EXCEPT ![made] = [t EXCEPT !.pc = pc]])
    BY <2>1
  <2>5. Begin(made, "completion", said + 1) \/ jobs' = jobs
    BY <2>1
  <2> DEFINE u == [t EXCEPT !.pc = pc]
  <2>6. u \in Task /\ u.messages = t.messages
    BY <2>3 DEF Task
  <2>7. Put(made, Append(u.messages, Said("completion")), [task EXCEPT ![made] = u])
    BY <2>4, <2>6
  <2> HIDE DEF u
  <2>8. CASE Begin(made, "completion", said + 1)
    <3>1. Said("completion").kind = MarkedKind("completion")
      BY <1>1 DEF MarkedKind
    <3>2. QED
      BY <1>1, <2>3, <2>6, <2>7, <2>8, <3>1, MarksBegun
  <2>9. CASE jobs' = jobs
    BY <1>1, <2>2, <2>3, <2>6, <2>7, <2>9, MarksSaid
  <2>10. QED
    BY <2>5, <2>8, <2>9
<1>7. CASE Resume(made)
  <2>1. task' = [task EXCEPT ![made] = [task[made] EXCEPT !.pc = "ready"]]
        /\ UNCHANGED <<saved, jobs>>
    BY <1>0, <1>7 DEF Resume
  <2>2. [task[made] EXCEPT !.pc = "ready"].messages = task[made].messages
    BY <1>0 DEF Task
  <2>3. QED
    BY <1>0, <1>3, <2>1, <2>2, MarksSilent
<1>8. QED
  BY <1>4, <1>5, <1>6, <1>7 DEF AgentStep

LEMMA TrackerMarks ==
    ASSUME Inv, Marks, Calm, NEW n \in 1..made, TrackerStep(n)
    PROVE  Marks'
<1>1. saved' = saved
  BY DEF TrackerStep, TrackerReady, TrackerFails, TrackerTimesOut, Warned, Starting
<1>2. PICK t : task' = [task EXCEPT ![n] = t] /\ t.messages = task[n].messages
  BY TrackerSilent
<1>3. jobs' = jobs \/ Begin(n, "first", said + 1)
  BY DEF TrackerStep, TrackerReady, TrackerFails, TrackerTimesOut, Warned
<1>4. \A j \in jobs' : j.op \in {"background", "completion"} => j \in jobs
  BY <1>3 DEF Begin
<1>5. Behind => Behind'
  BY <1>3 DEF Begin, Behind
<1>6. QED
  BY <1>1, <1>2, <1>4, <1>5, MarksSilent

\* The one commit there was ends.
LEMMA MarksEnd ==
    ASSUME Inv, Marks, Calm, NEW j \in jobs, j.op \in Committing, NEW u \in Task, NEW msgs,
           NEW ts, ts = [task EXCEPT ![made] = u], Put(made, msgs, ts), Ripe(msgs),
           \A k \in jobs' : k.op \in Committing => k \in jobs /\ k # j
    PROVE  Marks'
<1> DEFINE t == [u EXCEPT !.messages = msgs]
<1>0. /\ Half /\ (~Behind => Settled) /\ made \in 1..made
      /\ \A k \in Making(jobs) : k = j
  BY MarkParts DEF Making
<1>1. task' = [task EXCEPT ![made] = t] /\ t.messages = msgs /\ saved' = msgs
  BY <1>0, PutParts
<1> HIDE DEF t
<1>2. \A k \in jobs' : k.op \notin Committing
  BY <1>0 DEF Making
<1>3. Own(t.messages) /\ Ripe(t.messages) /\ saved' = t.messages
  BY <1>1 DEF Ripe
<1>4. Half' /\ (~Behind' => Settled')
  BY <1>0, <1>1, <1>3, MarkChange
<1>5. \A k \in jobs' : k.op \notin {"background", "completion"}
  BY <1>2 DEF Committing
<1>6. \A k, l \in Making(jobs') : k = l
  BY DEF Calm
<1>7. QED
  BY <1>4, <1>5, <1>6 DEF Marks, Making

LEMMA WorkMarks ==
    ASSUME Inv, Marks, Calm, NEW j \in jobs, JobStep(j)
    PROVE  Marks'
<1> DEFINE n == j.task
           msgs == task[n].messages
<1>0. /\ Half /\ (~Behind => Settled) /\ \A k, l \in Making(jobs) : k = l
      /\ \A k \in jobs : k.op \in {"background", "completion"} =>
                         k.task = made /\ Due(task[made].messages, k)
      /\ Own(task[made].messages)
  BY MarkParts
<1>1. /\ n \in 1..made /\ task[n] \in Task /\ msgs \in Seq(Message) /\ j \in Job
      /\ task = [task EXCEPT ![n] = task[n]] /\ Serves(j, task[n], said)
  <2>1. n \in 1..made /\ task[n] \in Task /\ Sound(msgs, said) /\ j \in Job /\ Serves(j, task[n], said)
    BY WorkParts
  <2>2. task \in Seq(Task)
    BY DEF Inv, Conversation
  <2>3. QED
    BY <2>1, <2>2 DEF Sound
<1>2. j.op \in Committing /\ j.op # "background" => Settled
  <2> SUFFICES ASSUME j.op \in Committing, j.op # "background" PROVE ~Behind
    BY <1>0
  <2>1. \A k \in jobs : k.op = "background" => k \in Making(jobs)
    BY DEF Making, Committing
  <2>2. j \in Making(jobs)
    BY DEF Making
  <2>3. QED
    BY <1>0, <2>1, <2>2 DEF Behind
<1>3. j.op \in Committing => j.for # 0
  BY <1>1 DEF Serves
<1>4. CASE Hide(j) \/ Add(j) \/ Show(j) \/ Commit(j)
  <2>1. PICK pc : jobs' = (jobs \ {j}) \cup {[j EXCEPT !.pc = pc]}
    BY <1>4 DEF Hide, Add, Show, Commit, To
  <2> DEFINE k == [j EXCEPT !.pc = pc]
  <2>2. UNCHANGED <<task, saved>>
    BY <1>4 DEF Hide, Add, Show, Commit, Still
  <2>3. k.task = n /\ k.op = j.op /\ k.for = j.for
    BY <1>1 DEF Job
  <2> HIDE DEF k
  <2>4. jobs' = (jobs \ {j}) \cup {k}
    BY <2>1 DEF k
  <2>5. \A l \in jobs' : \E m \in jobs : m.op = l.op /\ m.task = l.task /\ m.for = l.for
    BY <2>3, <2>4
  <2>6. Behind => Behind'
    BY <2>3, <2>4 DEF Behind
  <2>7. task' = [task EXCEPT ![n] = task[n]]
    BY <1>1, <2>2
  <2> HIDE DEF n
  <2>8. QED
    BY <1>1, <2>2, <2>5, <2>6, <2>7, MarksSilent
<1>5. CASE CommitFails(j)
  <2>1. j.pc = "commit"
    BY <1>5 DEF CommitFails, At
  <2>2. j \in Making(jobs)
    BY <1>1, <2>1 DEF Making, Serves
  <2>3. QED
    BY <1>5, <2>2 DEF Calm, Disturbed
<1>6. CASE LandBackground(j)
  <2> DEFINE at == Of(msgs, "checkpoint")
             marked == [msgs EXCEPT ![Latest(at)].hash = j.for]
  <2>1. /\ jobs' = jobs \ {j} /\ j.op = "background"
        /\ IF at = {} THEN UNCHANGED <<task, saved, noted>> ELSE Put(n, marked, task)
    BY <1>6 DEF LandBackground, Landing
  <2>2. j.op \in Committing /\ MarkedKind(j.op) = "checkpoint" /\ n = made
    BY <1>0, <2>1 DEF Committing, MarkedKind
  <2>3. at # {} /\ Ripe(marked)
    <3>1. Due(msgs, j) /\ Own(msgs) /\ j.for # 0
      BY <1>0, <1>3, <2>1, <2>2
    <3> HIDE DEF msgs
    <3>2. QED
      BY <1>1, <2>1, <2>2, <3>1, DueLands
  <2>4. Put(made, marked, task)
    BY <2>1, <2>2, <2>3
  <2> HIDE DEF marked
  <2>5. QED
    BY <1>1, <2>1, <2>2, <2>3, <2>4, MarksEnd
<1>7. CASE LandFirst(j)
  <2> DEFINE m == [id |-> j.for, kind |-> "checkpoint", hash |-> j.for]
  <2>1. /\ jobs' = jobs \ {j} /\ j.op = "first"
        /\ IF n = made
             THEN Put(n, Append(msgs, m), [task EXCEPT ![n].pc = "ready"])
             ELSE task' = [task EXCEPT ![n].pc = "ended"] /\ UNCHANGED <<saved, noted>>
    BY <1>7 DEF LandFirst, Landing
  <2>2. j.op \in Committing /\ Settled
    BY <1>2, <2>1 DEF Committing
  <2>3. CASE n = made
    <3> DEFINE u == [task[n] EXCEPT !.pc = "ready"]
               ts == [task EXCEPT ![n] = u]
               more == Append(msgs, m)
    <3>1. Put(made, more, ts) /\ u \in Task /\ ts = [task EXCEPT ![made] = u]
      BY <1>1, <2>1, <2>3 DEF Task
    <3>2. Ripe(more)
      <4>1. Own(msgs) /\ Ripe(msgs)
        BY <1>1, <2>2 DEF Settled, Ripe
      <4>2. m.hash \in {0, m.id} /\ m.hash # 0
        BY <1>3, <2>2
      <4> HIDE DEF m, msgs
      <4>3. QED
        BY <1>1, <4>1, <4>2, OwnAppend
    <3> HIDE DEF u, more, ts
    <3>3. QED
      BY <2>1, <2>2, <3>1, <3>2, MarksEnd
  <2>4. CASE n # made
    <3>1. task' = [task EXCEPT ![n] = [task[n] EXCEPT !.pc = "ended"]] /\ saved' = saved
      BY <2>1, <2>4
    <3>2. [task[n] EXCEPT !.pc = "ended"].messages = task[n].messages
      BY <1>1 DEF Task
    <3>3. Behind => Behind'
      BY <2>1 DEF Behind
    <3> HIDE DEF n
    <3>4. QED
      BY <1>1, <2>1, <3>1, <3>2, <3>3, MarksSilent
  <2>5. QED
    BY <2>3, <2>4
<1>8. CASE LandNews(j)
  <2> DEFINE t == [task[n] EXCEPT !.pc = Released(n)]
  <2>1. /\ jobs' = jobs \ {j} /\ j.op = "news" /\ task' = [task EXCEPT ![n] = t]
        /\ Save(n) \/ UNCHANGED <<saved, noted>>
    BY <1>8 DEF LandNews, Landing
  <2>2. t.messages = msgs
    BY <1>1 DEF Task
  <2>3. task'[n] = t
    <3>1. task \in Seq(Task)
      BY DEF Inv, Conversation
    <3> HIDE DEF t, n
    <3>2. QED
      BY <1>1, <2>1, <3>1, Exchanged
  <2> HIDE DEF t
  <2>4. saved' = saved \/ saved' = t.messages
    BY <2>1, <2>3 DEF Save
  <2>5. Behind => Behind'
    BY <2>1 DEF Behind
  <2> HIDE DEF n
  <2>6. QED
    BY <1>1, <2>1, <2>2, <2>4, <2>5, MarksSilent DEF n
<1>9. CASE LandCompletion(j)
  <2> DEFINE results == Of(msgs, "completion")
             last == Latest(results)
             marked == [msgs EXCEPT ![last].hash = j.for]
             u == [task[n] EXCEPT !.pc = Released(n)]
             k == [j EXCEPT !.op = "news", !.for = 0, !.pc = "hide"]
  <2>1. /\ j.op = "completion"
        /\ \/ results = {}
           \/ /\ Put(n, marked, [task EXCEPT ![n] = u]) /\ jobs' = jobs \ {j}
           \/ /\ Put(n, marked, task) /\ jobs' = (jobs \ {j}) \cup {k}
    BY <1>9 DEF LandCompletion, Landing, To
  <2>2. j.op \in Committing /\ MarkedKind(j.op) = "completion" /\ n = made /\ Settled
    BY <1>0, <1>2, <2>1 DEF Committing, MarkedKind
  <2>3. results # {} /\ Ripe(marked)
    <3>1. Due(msgs, j) /\ Own(msgs) /\ j.for # 0 /\ Ripe(msgs)
      BY <1>0, <1>1, <1>3, <2>1, <2>2 DEF Settled
    <3> HIDE DEF msgs
    <3>2. QED
      BY <1>1, <2>1, <2>2, <3>1, DueLands
  <2>4. u \in Task
    BY <1>1 DEF Task, Released
  <2>5. \A l \in jobs' : l.op \in Committing => l \in jobs /\ l # j
    <3>1. k.op = "news"
      BY <1>1 DEF Job
    <3> HIDE DEF k, marked, u, results
    <3>2. jobs' \subseteq (jobs \ {j}) \cup {k}
      BY <2>1, <2>3
    <3>3. QED
      BY <3>1, <3>2 DEF Committing
  <2>6. Put(made, marked, [task EXCEPT ![made] = u]) \/ Put(made, marked, task)
    BY <2>1, <2>2, <2>3
  <2>7. task[made] \in Task /\ task = [task EXCEPT ![made] = task[made]]
    BY MarkParts
  <2> HIDE DEF marked, u
  <2>8. QED
    BY <2>2, <2>3, <2>4, <2>5, <2>6, <2>7, MarksEnd
<1>10. QED
  BY <1>4, <1>5, <1>6, <1>7, <1>8, <1>9 DEF JobStep

\* What the user does meets no commit.
LEMMA UserMeetsNone ==
    ASSUME Inv, Marks, Calm,
           \/ Cancel \/ CheckpointRestore \/ Crash
           \/ restore.task # 0 /\ RestoringStep(restore.task)
    PROVE  Making(jobs) = {} /\ Settled
<1>1. restore \in Restore /\ NoRestore.pc = "none"
  BY DEF Inv, Restoring, NoRestore
<1>2. ASSUME NEW n, NEW reset, Onwards(n, reset), restore.pc = "reset" PROVE restore' # restore
  <2> DEFINE pc == IF restore.kind = "workspace" THEN "cancel" ELSE "cut"
  <2>1. restore' = [restore EXCEPT !.reset = reset, !.pc = pc] /\ pc # "reset"
    BY <1>2 DEF Onwards
  <2> HIDE DEF pc
  <2>2. restore'.pc = pc
    BY <1>1, <2>1 DEF Restore
  <2>3. QED
    BY <1>2, <2>1, <2>2
<1>3. ASSUME restore.task # 0, RestoringStep(restore.task) PROVE restore' # restore
  <2> DEFINE n == restore.task
  <2>1. CASE RestoreReset(n) \/ RestoreSkips(n)
    BY <1>2, <2>1 DEF RestoreReset, RestoreSkips, RestoreStep
  <2>2. CASE RestoreFails(n) \/ RestoreDone
    <3>1. restore' = NoRestore /\ restore.pc \in {"reset", "cancel"}
      BY <2>2 DEF RestoreFails, RestoreDone, RestoreStep
    <3>2. QED
      BY <1>1, <3>1
  <2>3. CASE RestoreCut(n)
    <3>1. /\ restore.pc = "cut"
          /\ restore' = [restore EXCEPT !.pc = "cancel"] \/ restore' = NoRestore
      BY <2>3 DEF RestoreCut, RestoreStep
    <3>2. [restore EXCEPT !.pc = "cancel"].pc = "cancel"
      BY <1>1 DEF Restore
    <3>3. QED
      BY <1>1, <3>1, <3>2
  <2>4. restore' # restore
    BY <1>3, <2>1, <2>2, <2>3 DEF RestoringStep
  <2>5. QED
    BY <2>4
<1>4. ASSUME CheckpointRestore PROVE restore' # restore
  <2>1. restore.pc = "none" /\ restore'.pc \in {"cut", "reset"}
    BY <1>4 DEF CheckpointRestore
  <2>2. restore' # restore
    BY <2>1
  <2>3. QED
    BY <2>2
<1>5. Making(jobs) = {}
  BY <1>3, <1>4 DEF Calm, Disturbed
<1>6. ~Behind
  BY <1>5 DEF Behind, Making, Committing
<1>7. QED
  BY <1>5, <1>6, MarkParts

\* With no commit under way, what is in order stays in order.
LEMMA MarksSettled ==
    ASSUME Making(jobs) = {}, jobs' \subseteq jobs, Ripe(saved'),
           \A n \in 1..made' : Ripe(task'[n].messages), made' \in 1..made'
    PROVE  Marks'
<1>1. \A j \in jobs' : j.op \notin Committing
  BY DEF Making
<1>2. \A j \in jobs' : j.op \notin {"background", "completion"}
  BY <1>1 DEF Committing
<1>3. Settled' /\ Half'
  BY DEF Settled, Half, Ripe, Own, Of
<1>4. QED
  BY <1>1, <1>2, <1>3 DEF Marks, Making

LEMMA ReopeningMarks ==
    ASSUME Inv, Marks, Calm, Settled, Making(jobs) = {}, Cancel \/ CheckpointRestore \/ RestoreDone
    PROVE  Marks'
<1>1. PICK f : Reopen(f) /\ (f = Successor \/ f = Fresh(Working(made)))
  BY DEF Cancel, CheckpointRestore, RestoreDone
<1>2. f \in {made, made + 1}
  BY <1>1 DEF Successor, Fresh
<1>3. UNCHANGED <<saved, jobs>>
  BY DEF Cancel, CheckpointRestore, RestoreDone, RestoreStep
<1>4. /\ made \in Nat /\ 1 <= made /\ f \in Nat /\ 1 <= f /\ \A n \in 1..f : n = f \/ n \in 1..made
  BY <1>2, Bounds DEF Inv, Conversation
<1>5. /\ made' = f /\ task'[f] = Opened(saved, noted)
      /\ \A n \in 1..f : n # f => task'[n] = Aborted(task[n])
  BY <1>1, <1>4 DEF Reopen, made
<1>6. Ripe(task'[f].messages)
  BY <1>5 DEF Settled, Opened
<1>7. ASSUME NEW n \in 1..f, n # f PROVE Ripe(task'[n].messages)
  <2>1. n \in 1..made /\ task[n] \in Task
    BY <1>4, <1>7 DEF Inv, Conversation, GoodTask
  <2>2. Aborted(task[n]).messages = task[n].messages
    BY <2>1 DEF Aborted, Task
  <2>3. QED
    BY <1>5, <1>7, <2>1, <2>2 DEF Settled
<1>8. Ripe(saved') /\ made' \in 1..made' /\ \A n \in 1..made' : Ripe(task'[n].messages)
  BY <1>3, <1>4, <1>5, <1>6, <1>7 DEF Settled
<1>9. QED
  BY <1>3, <1>8, MarksSettled

LEMMA CrashMarks ==
    ASSUME Inv, Marks, Calm, Settled, Making(jobs) = {}, Crash
    PROVE  Marks'
<1>1. /\ task' = <<Opened(saved, noted)>> /\ jobs' = {} /\ saved' = saved
  BY DEF Crash
<1>2. made' = 1 /\ task'[1].messages = saved /\ \A n \in 1..1 : n = 1
  BY <1>1 DEF made, Opened
<1>3. Ripe(saved') /\ made' \in 1..made' /\ \A n \in 1..made' : Ripe(task'[n].messages)
  BY <1>1, <1>2 DEF Settled
<1>4. QED
  BY <1>1, <1>3, MarksSettled

LEMMA RestoringMarks ==
    ASSUME Inv, Marks, Calm, Settled, Making(jobs) = {}, NEW n, n = restore.task,
           RestoreReset(n) \/ RestoreFails(n) \/ RestoreSkips(n) \/ RestoreCut(n)
    PROVE  Marks'
<1>1. restore.pc # "none" /\ jobs' = jobs
  BY DEF RestoreReset, RestoreFails, RestoreSkips, RestoreCut, RestoreStep
<1>2. /\ n \in 1..made /\ restore \in Restore /\ task[n] \in Task /\ task[n].messages \in Seq(Message)
      /\ restore.at \in Nat /\ task = [task EXCEPT ![n] = task[n]] /\ task \in Seq(Task)
  <2>1. n \in 1..made /\ restore \in Restore /\ task[n] \in Task /\ Sound(task[n].messages, said)
    BY <1>1, RestoringParts
  <2>2. task \in Seq(Task)
    BY DEF Inv, Conversation
  <2>3. QED
    BY <2>1, <2>2 DEF Sound, Restore
<1>3. PICK t : task' = [task EXCEPT ![n] = t] /\ Ripe(t.messages)
  <2>0. Ripe(task[n].messages)
    BY <1>2 DEF Settled
  <2>1. CASE RestoreCut(n)
    <3> DEFINE kept == SubSeq(task[n].messages, 1, Smaller(restore.at, Len(task[n].messages)))
    <3>1. Put(n, kept, task)
      BY <2>1 DEF RestoreCut
    <3>2. Ripe(kept)
      BY <1>2, <2>0, RipeCut
    <3> HIDE DEF kept
    <3> DEFINE u == [task[n] EXCEPT !.messages = kept]
    <3>3. task' = [task EXCEPT ![n] = u] /\ u.messages = kept
      BY <1>2, <3>1, PutParts
    <3> HIDE DEF u
    <3>4. QED
      BY <3>2, <3>3
  <2>2. CASE ~RestoreCut(n)
    <3>1. \E t : task' = [task EXCEPT ![n] = t] /\ t.messages = task[n].messages
      BY <1>2, <2>2, ResettingSilent
    <3>2. QED
      BY <2>0, <3>1
  <2>3. QED
    BY <2>1, <2>2
<1>4. saved' = saved \/ saved' = task'[n].messages
  BY DEF RestoreReset, RestoreFails, RestoreSkips, RestoreCut, Onwards, Put, Save
<1>5. made' = made /\ task'[n] = t /\ \A k \in 1..made : k # n => task'[k] = task[k]
  BY <1>2, <1>3, Exchanged
<1>6. made \in 1..made
  BY MarkParts
<1>7. Ripe(saved') /\ made' \in 1..made' /\ \A k \in 1..made' : Ripe(task'[k].messages)
  BY <1>3, <1>4, <1>5, <1>6 DEF Settled
<1>8. QED
  BY <1>1, <1>7, MarksSettled

LEMMA MarksStep ==
    ASSUME Inv, Marks, [MCNext]_<<vars, calm, crossed, late>>
    PROVE  Marks'
<1> SUFFICES ASSUME calm' PROVE Marks'
  BY DEF Marks
<1>1. CASE UNCHANGED <<vars, calm, crossed, late>>
  <2>1. UNCHANGED <<task, saved, jobs, calm>>
    BY <1>1 DEF vars
  <2>2. made' = made
    BY <2>1 DEF made
  <2>3. Half' = Half /\ Settled' = Settled /\ Behind' = Behind
    BY <2>1, <2>2 DEF Half, Settled, Behind
  <2>4. QED
    BY <2>1, <2>2, <2>3 DEF Marks
<1>2. CASE MCNext
  <2>1. Next /\ calm /\ ~Disturbed /\ Cardinality(Making(jobs')) <= 1
    BY <1>2 DEF MCNext
  <2>2. \A j, k \in Making(jobs') : j = k
    <3>1. PICK k : jobs' \subseteq jobs \cup {k}
      BY <2>1, OneMoves
    <3>2. PICK a : Making(jobs) \subseteq {a}
      BY <2>1 DEF Marks
    <3>3. Making(jobs') \subseteq {a} \cup {k}
      BY <3>1, <3>2 DEF Making
    <3>4. QED
      BY <2>1, <3>3, AtMostOne
  <2>3. Calm
    BY <2>1, <2>2 DEF Calm
  <2>4. CASE restore.task # 0 /\ RestoringStep(restore.task)
    <3>1. Making(jobs) = {} /\ Settled
      BY <2>3, <2>4, UserMeetsNone
    <3>2. QED
      BY <2>3, <2>4, <3>1, RestoringMarks, ReopeningMarks DEF RestoringStep
  <2>5. CASE Cancel \/ CheckpointRestore \/ Crash
    <3>1. Making(jobs) = {} /\ Settled
      BY <2>3, <2>5, UserMeetsNone
    <3>2. QED
      BY <2>3, <2>5, <3>1, CrashMarks, ReopeningMarks
  <2>6. QED
    BY <2>1, <2>3, <2>4, <2>5, AgentMarks, TrackerMarks, WorkMarks DEF Next
<1>3. QED
  BY <1>1, <1>2

-----------------------------------------------------------------------------
(* The history variables. *)

\* As long as no two pieces of work add files at the same time, no commit has a link;
\* as long as nothing is cut off while other work means to save it, no Task object
\* that may still save has a message that was cut off; as long as commits do not meet,
\* all checkpoint messages carry their own, but for one that is on its way.
THEOREM UndisturbedInvariant == MCSpec => [](Inv /\ Alone /\ Clean /\ Marks)
<1>1. MCInit => Inv /\ Alone /\ Clean /\ Marks
  <2> SUFFICES ASSUME MCInit PROVE Inv /\ Alone /\ Clean /\ Marks
    OBVIOUS
  <2>1. Init
    BY DEF MCInit
  <2>2. Inv /\ links = {} /\ linked = FALSE /\ jobs = {} /\ cut = {}
    BY <2>1, InitInv DEF Init
  <2>3. Alone /\ Clean
    BY <2>2 DEF Alone, Clean, Adding
  <2>4. saved = <<>> /\ made = 1 /\ task[1].messages = saved
    BY <2>1 DEF Init, made, Opened
  <2>5. Ripe(saved) /\ \A n \in 1..1 : n = 1
    BY <2>4 DEF Ripe, Own, Of
  <2>6. Half /\ Settled
    BY <2>4, <2>5 DEF Half, Settled, Ripe
  <2>7. QED
    BY <2>2, <2>3, <2>6 DEF Marks, Making
<1>2. Inv /\ Alone /\ Clean /\ Marks /\ [MCNext]_<<vars, calm, crossed, late>> => (Inv /\ Alone /\ Clean /\ Marks)'
  <2> SUFFICES ASSUME Inv, Alone, Clean, Marks, [MCNext]_<<vars, calm, crossed, late>>
               PROVE  (Inv /\ Alone /\ Clean /\ Marks)'
    OBVIOUS
  <2>1. [Next]_vars
    BY DEF MCNext, vars
  <2>2. Inv'
    BY <2>1, InvStep
  <2>3. Alone' /\ Clean' /\ Marks'
    BY FilesStep, CleanStep, MarksStep
  <2>4. QED
    BY <2>2, <2>3
<1>3. QED
  BY <1>1, <1>2, PTL DEF MCSpec

\* Nested repositories are committed as links, without their files, only after two
\* pieces of work added files at the same time.
THEOREM FilesAreInHolds == MCSpec => []FilesAreIn
<1>1. Alone => FilesAreIn
  BY DEF Alone, FilesAreIn
<1>2. QED
  BY <1>1, UndisturbedInvariant, PTL

\* Unless a restoring cuts the conversation while other work means to save it, what it
\* cut off comes back neither to the file nor to the display.
THEOREM CutStaysCutHolds == MCSpec => []CutStaysCut
<1>1. Inv /\ Clean => CutStaysCut
  <2> SUFFICES ASSUME Inv, Clean, ~late
               PROVE  (Ids(saved) \cup Ids(task[made].messages)) \cap cut = {}
    BY DEF CutStaysCut
  <2>1. Ids(task[made].messages) \cap cut = {} /\ Ids(saved) \cap cut = {}
    BY OnDisplay DEF Clean
  <2>2. QED
    BY <2>1
<1>2. QED
  BY <1>1, UndisturbedInvariant, PTL

\* As long as commits are made one at a time, and each is seen to its end, every message
\* carries the commit made for it, and a checkpoint message lacks it only for a while.
THEOREM MarkedByOwnHolds == MCSpec => []MarkedByOwn
<1>1. Inv /\ Marks => MarkedByOwn
  <2> SUFFICES ASSUME Inv, Marks, calm, NEW i \in DOMAIN task[made].messages
               PROVE  LET m == task[made].messages[i]
                      IN  IF m.hash # 0 THEN m.hash = m.id
                          ELSE m.kind = "checkpoint" => Making(jobs) # {}
    BY DEF MarkedByOwn
  <2> DEFINE msgs == task[made].messages
  <2>1. Half /\ (~Behind => Settled)
    BY DEF Marks
  <2>2. msgs[i].hash # 0 => msgs[i].hash = msgs[i].id
    BY <2>1 DEF Half, Own
  <2>3. CASE Behind
    <3>1. Making(jobs) # {}
      BY <2>3 DEF Behind, Making, Committing
    <3>2. QED
      BY <2>2, <3>1
  <2>4. CASE ~Behind
    <3>1. made \in 1..made
      BY Bounds DEF Inv, Conversation
    <3>2. Ripe(msgs)
      BY <2>1, <2>4, <3>1 DEF Settled
    <3>3. msgs[i].kind = "checkpoint" => msgs[i].hash # 0
      BY <3>2 DEF Ripe, Of
    <3>4. QED
      BY <2>2, <3>3
  <2>5. QED
    BY <2>3, <2>4
<1>2. QED
  BY <1>1, UndisturbedInvariant, PTL
=============================================================================
