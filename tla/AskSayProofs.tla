----------------------------- MODULE AskSayProofs ---------------------------
(***************************************************************************)
(* Proofs about AskSay, for any number of messages and milliseconds.       *)
(*                                                                         *)
(* A question is known by its place in the list.  That this is sound rests *)
(* on two facts: only an unfinished message is ever taken out of the list, *)
(* and the stamps of the list grow.                                        *)
(***************************************************************************)
EXTENDS MCAskSay, FiniteSetTheorems, TLAPS

\* A list whose stamps grow, up to the last one given.
Ordered(msgs, t) ==
    /\ msgs \in Seq(Message)
    /\ \A i \in DOMAIN msgs : msgs[i].ts <= t
    /\ \A i, k \in DOMAIN msgs : i < k => msgs[i].ts <= msgs[k].ts

\* Finished messages stay as they are, at their place.
Stays(old, new) ==
    \A i \in DOMAIN old : ~old[i].partial => i \in DOMAIN new /\ new[i] = old[i]

\* What a speaker leaves: the last message has the last stamp.
Spoke(msgs, t) == msgs # <<>> /\ t = msgs[Len(msgs)].ts

\* The list has room for what a poll may make the command ask.
Fits ==
    /\ Len(log) <= MaxLog + 2
    /\ command.output => Len(log) <= MaxLog
    /\ ~command.didContinue => Len(log) <= MaxLog + 1

Conversation ==
    /\ Ordered(log, lastTs) /\ lastTs \in 0..MaxTime /\ Fits
    /\ agent \in {"free", "awaiting"} /\ command \in Command /\ abort \in BOOLEAN

Finished == {0} \cup {i \in DOMAIN log : ~log[i].partial}

\* A question that is waited for is a finished one of the list.
Waiting ==
    /\ asking \in [Callers -> Nat]
    /\ \A c \in Callers : Waits(c) =>
         asking[c] \in DOMAIN log /\ ~log[asking[c]].partial /\ log[asking[c]].kind = "ask"

\* An answer is for a finished question: the one that is waited for, a later one,
\* or one that was answered before.
Answers ==
    /\ response \cup transit \cup answered \subseteq Finished
    /\ \A r, q \in response : r = q
    /\ \A c \in Callers : Waits(c) =>
         \A r \in response \cup transit : r \in meanwhile[c] \/ asking[c] <= r

\* As long as nobody spoke, a question is the last message, with the last stamp.
Silence ==
    \A c \in Callers : Waits(c) /\ ~spoken[c] => asking[c] = Len(log) /\ Spoke(log, lastTs)

Histories ==
    /\ meanwhile \in [Callers -> SUBSET Nat] /\ spoken \in [Callers -> BOOLEAN]

Inv == Conversation /\ Waiting /\ Answers /\ Silence /\ Histories

-----------------------------------------------------------------------------
(* Lists of messages. *)

LEMMA Bounds == MaxLog \in Nat /\ MaxTime \in Nat /\ 1 <= MaxLog
  BY BoundAssumption

LEMMA OrderedParts ==
    ASSUME NEW msgs, NEW t \in 0..MaxTime, Ordered(msgs, t)
    PROVE  /\ msgs \in Seq(Message) /\ Len(msgs) \in Nat /\ DOMAIN msgs = 1..Len(msgs)
           /\ \A i \in DOMAIN msgs : /\ i \in Nat /\ msgs[i] \in Message /\ msgs[i].ts \in 0..MaxTime
                                     /\ msgs[i].ts \in Nat /\ msgs[i].ts <= t
           /\ t \in Nat
<1>1. msgs \in Seq(Message) /\ Len(msgs) \in Nat /\ DOMAIN msgs = 1..Len(msgs)
  BY DEF Ordered
<1>2. \A i \in DOMAIN msgs : i \in Nat /\ msgs[i] \in Message
  BY <1>1
<1>3. \A m \in Message : m.ts \in 0..MaxTime /\ m.ts \in Nat
  BY Bounds DEF Message
<1>4. QED
  BY <1>1, <1>2, <1>3, Bounds DEF Ordered

LEMMA StaysTwice ==
    ASSUME NEW a1, NEW b1, NEW c1, Stays(a1, b1), Stays(b1, c1)
    PROVE  Stays(a1, c1)
  BY DEF Stays

LEMMA StaysSame == \A msgs : Stays(msgs, msgs)
  BY DEF Stays

\* A message is appended.
LEMMA Appended ==
    ASSUME NEW msgs, NEW t \in 0..MaxTime, Ordered(msgs, t), NEW m \in Message, t <= m.ts
    PROVE  /\ Ordered(Append(msgs, m), m.ts) /\ Stays(msgs, Append(msgs, m))
           /\ Len(Append(msgs, m)) = Len(msgs) + 1 /\ Append(msgs, m)[Len(msgs) + 1] = m
           /\ Len(msgs) + 1 \in DOMAIN Append(msgs, m) /\ m.ts \in 0..MaxTime
<1> DEFINE new == Append(msgs, m)
<1>1. /\ msgs \in Seq(Message) /\ Len(msgs) \in Nat /\ DOMAIN msgs = 1..Len(msgs) /\ t \in Nat
      /\ \A i \in DOMAIN msgs : msgs[i].ts \in Nat /\ msgs[i].ts <= t
  BY OrderedParts
<1>2. m.ts \in 0..MaxTime /\ m.ts \in Nat
  BY Bounds DEF Message
<1>3. /\ new \in Seq(Message) /\ Len(new) = Len(msgs) + 1 /\ DOMAIN new = 1..Len(msgs) + 1
      /\ new[Len(msgs) + 1] = m /\ \A i \in 1..Len(msgs) : new[i] = msgs[i]
  BY <1>1
<1> HIDE DEF new
<1>4. \A i \in 1..Len(msgs) + 1 : new[i].ts <= m.ts
  <2> TAKE i \in 1..Len(msgs) + 1
  <2>1. CASE i = Len(msgs) + 1
    BY <1>2, <1>3, <2>1
  <2>2. CASE i \in 1..Len(msgs)
    <3>1. new[i].ts = msgs[i].ts /\ msgs[i].ts \in Nat /\ msgs[i].ts <= t
      BY <1>1, <1>3, <2>2
    <3>2. QED
      BY <1>1, <1>2, <3>1
  <2>3. QED
    BY <1>1, <2>1, <2>2
<1>5. \A i, k \in 1..Len(msgs) + 1 : i < k => new[i].ts <= new[k].ts
  <2> TAKE i, k \in 1..Len(msgs) + 1
  <2> HAVE i < k
  <2>1. i \in 1..Len(msgs)
    BY <1>1
  <2>2. CASE k = Len(msgs) + 1
    BY <1>3, <1>4, <2>2
  <2>3. CASE k \in 1..Len(msgs)
    BY <1>1, <1>3, <2>1, <2>3 DEF Ordered
  <2>4. QED
    BY <1>1, <2>2, <2>3
<1>6. Ordered(new, m.ts) /\ Stays(msgs, new) /\ Len(msgs) + 1 \in DOMAIN new
  <2>1. 1..Len(msgs) \subseteq 1..Len(msgs) + 1 /\ Len(msgs) + 1 \in 1..Len(msgs) + 1
    BY <1>1
  <2>2. QED
    BY <1>1, <1>3, <1>4, <1>5, <2>1 DEF Ordered, Stays
<1>7. QED
  BY <1>2, <1>3, <1>6 DEF new

\* The unfinished message at the end is finished, or taken out.
LEMMA Finishes ==
    ASSUME NEW msgs, NEW t \in 0..MaxTime, Ordered(msgs, t),
           msgs # <<>>, msgs[Len(msgs)].partial
    PROVE  /\ LET new == [msgs EXCEPT ![Len(msgs)].partial = FALSE]
              IN  /\ Ordered(new, msgs[Len(msgs)].ts) /\ Stays(msgs, new) /\ Len(new) = Len(msgs)
                  /\ Len(new) \in DOMAIN new /\ ~new[Len(new)].partial
                  /\ new[Len(new)].kind = msgs[Len(msgs)].kind
                  /\ new[Len(new)].ts = msgs[Len(msgs)].ts
           /\ LET cut == SubSeq(msgs, 1, Len(msgs) - 1)
              IN  Ordered(cut, t) /\ Stays(msgs, cut) /\ Len(cut) = Len(msgs) - 1
           /\ msgs[Len(msgs)].ts \in 0..MaxTime
<1> DEFINE n == Len(msgs)
           m == [msgs[n] EXCEPT !.partial = FALSE]
           new == [msgs EXCEPT ![n] = m]
           cut == SubSeq(msgs, 1, n - 1)
<1>1. /\ msgs \in Seq(Message) /\ n \in Nat /\ DOMAIN msgs = 1..n /\ t \in Nat
      /\ \A i \in DOMAIN msgs : msgs[i] \in Message /\ msgs[i].ts \in Nat /\ msgs[i].ts <= t
                                /\ msgs[i].ts \in 0..MaxTime
  BY OrderedParts
<1>2. n # 0 /\ n \in 1..n /\ msgs[n] \in Message /\ msgs[n].partial
  BY <1>1
<1>3. /\ m \in Message /\ m.kind = msgs[n].kind /\ m.ts = msgs[n].ts /\ m.partial = FALSE
  BY <1>2 DEF Message
<1> HIDE DEF m
<1>4. /\ new \in Seq(Message) /\ Len(new) = n /\ DOMAIN new = 1..n /\ new[n] = m
      /\ \A i \in 1..n : i # n => new[i] = msgs[i]
  BY <1>1, <1>2, <1>3
<1>5. \A i \in 1..n : new[i].ts = msgs[i].ts
  BY <1>3, <1>4
<1>6. \A i \in 1..n : msgs[i].ts <= msgs[n].ts
  <2> TAKE i \in 1..n
  <2>1. CASE i = n
    BY <1>1, <1>2, <2>1
  <2>2. CASE i # n
    <3> HIDE DEF n
    <3>1. i < n
      BY <1>1, <2>2
    <3>2. QED
      BY <1>1, <1>2, <3>1 DEF Ordered
  <2>3. QED
    BY <2>1, <2>2
<1> HIDE DEF new
<1>7. Ordered(new, msgs[n].ts)
  BY <1>1, <1>4, <1>5, <1>6 DEF Ordered
<1>8. Stays(msgs, new)
  BY <1>1, <1>4 DEF Stays
<1>9. new = [msgs EXCEPT ![n].partial = FALSE]
  BY DEF new, m
<1>10. /\ cut \in Seq(Message) /\ Len(cut) = n - 1 /\ DOMAIN cut = 1..n - 1
       /\ \A i \in 1..n - 1 : cut[i] = msgs[i]
  BY <1>1, <1>2
<1>11. 1..n - 1 \subseteq 1..n /\ \A i \in 1..n : i # n => i \in 1..n - 1
  <2> HIDE DEF n
  <2>1. QED
    BY <1>1, <1>2
<1> HIDE DEF cut
<1>12. Ordered(cut, t) /\ Stays(msgs, cut)
  <2> HIDE DEF n
  <2>1. \A i \in DOMAIN cut : i \in DOMAIN msgs /\ cut[i] = msgs[i]
    BY <1>1, <1>10, <1>11
  <2>2. \A i \in DOMAIN msgs : ~msgs[i].partial => i \in DOMAIN cut
    BY <1>1, <1>2, <1>10, <1>11
  <2>3. Ordered(cut, t)
    BY <1>10, <2>1 DEF Ordered
  <2>4. QED
    BY <2>1, <2>2, <2>3 DEF Stays
<1> HIDE DEF n
<1>13. QED
  BY <1>1, <1>2, <1>3, <1>4, <1>7, <1>8, <1>9, <1>10, <1>12 DEF n, cut

-----------------------------------------------------------------------------
(* What a speaker does to the list. *)

\* The list after somebody spoke: ordered, and nothing finished is lost.
Says(msgs) ==
    /\ Ordered(log', lastTs') /\ lastTs' \in 0..MaxTime /\ Spoke(log', lastTs')
    /\ Stays(msgs, log') /\ Len(log') \in DOMAIN log' /\ Len(log') <= Len(msgs) + 1

LEMMA AddSays ==
    ASSUME NEW msgs, lastTs \in 0..MaxTime, Ordered(msgs, lastTs),
           NEW c \in Speakers, NEW kind \in {"ask", "say"}, NEW partial \in BOOLEAN,
           Add(msgs, c, kind, partial)
    PROVE  /\ Says(msgs)
           /\ log'[Len(log')].partial = partial /\ log'[Len(log')].kind = kind
<1>1. PICK t \in {lastTs, lastTs + 1} \cap 0..MaxTime :
         lastTs' = t /\ log' = Append(msgs, New(c, kind, partial, t))
  BY DEF Add
<1> DEFINE m == New(c, kind, partial, t)
<1>2. m \in Message /\ m.ts = t /\ m.partial = partial /\ m.kind = kind
  BY DEF Message, New
<1>3. lastTs \in Nat /\ lastTs <= t
  BY <1>1, Bounds
<1>4. log' = Append(msgs, m)
  BY <1>1
<1> HIDE DEF m
<1>5. /\ Ordered(log', m.ts) /\ Stays(msgs, log')
      /\ Len(log') = Len(msgs) + 1 /\ log'[Len(msgs) + 1] = m
      /\ Len(msgs) + 1 \in DOMAIN log' /\ m.ts \in 0..MaxTime
  BY <1>2, <1>3, <1>4, Appended
<1>6. log' # <<>>
  BY <1>5 DEF Ordered
<1>7. Len(msgs) \in Nat
  BY OrderedParts
<1>8. QED
  BY <1>1, <1>2, <1>5, <1>6, <1>7 DEF Says, Spoke

LEMMA PostSays ==
    ASSUME NEW msgs, lastTs \in 0..MaxTime, Ordered(msgs, lastTs),
           NEW c \in Speakers, NEW kind \in {"ask", "say"}, Post(msgs, c, kind)
    PROVE  /\ Says(msgs)
           /\ ~log'[Len(log')].partial /\ log'[Len(log')].kind = kind
<1>1. CASE EndsPartial(msgs, c, kind)
  <2>1. /\ msgs # <<>> /\ msgs[Len(msgs)].partial /\ msgs[Len(msgs)].kind = kind
        /\ log' = [msgs EXCEPT ![Len(msgs)].partial = FALSE]
        /\ lastTs' = msgs[Len(msgs)].ts
    BY <1>1 DEF Post, EndsPartial, Complete
  <2>2. /\ Ordered(log', lastTs') /\ Stays(msgs, log') /\ Len(log') = Len(msgs)
        /\ Len(log') \in DOMAIN log' /\ ~log'[Len(log')].partial
        /\ log'[Len(log')].kind = kind /\ log'[Len(log')].ts = lastTs'
        /\ lastTs' \in 0..MaxTime
    BY <2>1, Finishes
  <2>3. log' # <<>> /\ Len(log') <= Len(msgs) + 1
    <3>1. Len(msgs) \in Nat
      BY OrderedParts
    <3>2. QED
      BY <2>2, <3>1 DEF Ordered
  <2>4. QED
    BY <2>2, <2>3 DEF Says, Spoke
<1>2. CASE ~EndsPartial(msgs, c, kind)
  <2>1. Add(msgs, c, kind, FALSE)
    BY <1>2 DEF Post
  <2>2. FALSE \in BOOLEAN
    OBVIOUS
  <2>3. QED
    BY <2>1, <2>2, AddSays
<1>3. QED
  BY <1>1, <1>2

LEMMA RemovedStays ==
    ASSUME lastTs \in 0..MaxTime, Ordered(log, lastTs), NEW kind
    PROVE  Ordered(Removed(kind), lastTs) /\ Stays(log, Removed(kind)) /\ Len(Removed(kind)) <= Len(log)
<1>1. CASE EndsPartial(log, "agent", kind)
  <2> DEFINE short == SubSeq(log, 1, Len(log) - 1)
  <2>1. log # <<>> /\ log[Len(log)].partial /\ Removed(kind) = short
    BY <1>1 DEF EndsPartial, Removed
  <2>2. Ordered(short, lastTs) /\ Stays(log, short) /\ Len(short) = Len(log) - 1
    BY <2>1, Finishes
  <2> HIDE DEF short
  <2>3. Len(log) \in Nat
    BY OrderedParts
  <2>4. QED
    BY <2>1, <2>2, <2>3
<1>2. CASE ~EndsPartial(log, "agent", kind)
  <2>1. Removed(kind) = log
    BY <1>2 DEF Removed
  <2>2. Len(log) \in Nat
    BY OrderedParts
  <2>3. QED
    BY <2>1, <2>2, StaysSame
<1>3. QED
  BY <1>1, <1>2

\* A question is asked.
Asks(c) ==
    /\ asking'[c] = Len(log') /\ Len(log') \in DOMAIN log' /\ Spoke(log', lastTs')
    /\ ~log'[Len(log')].partial /\ log'[Len(log')].kind = "ask"
    /\ response' = {} /\ transit' = transit

-----------------------------------------------------------------------------
(* Questions and answers. *)

\* Every step: the list is as it was or somebody spoke; a question that is waited for
\* still is, or no longer, or a new one is; answers come from the user.
Shape ==
    /\ Ordered(log', lastTs') /\ Stays(log, log')
    /\ Silent \/ Spoke(log', lastTs')
    /\ asking' \in [Callers -> Nat]
    /\ \A c \in Callers : asking'[c] \in {asking[c], 0} \/ Asks(c)
    /\ response' \cup transit' \cup answered' \subseteq Finished
    /\ \A r, q \in response' : r = q
    /\ \A r \in response' \cup transit' :
         r \in response \cup transit \/ \A c \in Callers : Waits(c) => asking[c] <= r

LEMMA ShapeKeeps ==
    ASSUME Inv, MCNext, Shape
    PROVE  Waiting' /\ Answers' /\ Silence' /\ Histories'
<1>1. Waiting'
  <2> SUFFICES ASSUME NEW c \in Callers, asking'[c] # 0
               PROVE  asking'[c] \in DOMAIN log' /\ ~log'[asking'[c]].partial
                      /\ log'[asking'[c]].kind = "ask"
    BY DEF Waiting, Waits, Shape
  <2>1. CASE asking'[c] = asking[c]
    <3>1. asking[c] \in DOMAIN log /\ ~log[asking[c]].partial /\ log[asking[c]].kind = "ask"
      BY <2>1 DEF Inv, Waiting, Waits
    <3>2. QED
      BY <2>1, <3>1 DEF Shape, Stays
  <2>2. CASE Asks(c)
    BY <2>2 DEF Asks
  <2>3. QED
    BY <2>1, <2>2 DEF Shape
<1>2. /\ meanwhile' = [c \in Callers |-> IF Posed(c) THEN transit
                                         ELSE IF asking'[c] = 0 THEN {} ELSE meanwhile[c]]
      /\ spoken' = [c \in Callers |-> asking'[c] # 0 /\ ~Posed(c)
                                      /\ (spoken[c] \/ log' # log)]
  BY DEF MCNext
<1>3. Finished \subseteq Finished' /\ Finished \subseteq Nat
  <2>1. Finished \subseteq Finished'
    BY DEF Shape, Stays, Finished
  <2>2. DOMAIN log \subseteq Nat
    BY DEF Inv, Conversation, Ordered
  <2>3. QED
    BY <2>1, <2>2 DEF Finished
<1>4. Answers'
  <2>1. (response \cup transit \cup answered)' \subseteq Finished'
    BY <1>3 DEF Shape
  <2>2. ASSUME NEW c \in Callers, asking'[c] # 0, NEW r \in response' \cup transit'
        PROVE  r \in meanwhile'[c] \/ asking'[c] <= r
    <3>1. CASE asking'[c] = asking[c]
      <4>1. ~Posed(c) /\ meanwhile'[c] = meanwhile[c]
        BY <1>2, <2>2, <3>1 DEF Posed
      <4>2. CASE r \in response \cup transit
        BY <2>2, <3>1, <4>1, <4>2 DEF Inv, Answers, Waits
      <4>3. CASE \A k \in Callers : Waits(k) => asking[k] <= r
        BY <2>2, <3>1, <4>3 DEF Waits
      <4>4. QED
        BY <4>2, <4>3 DEF Shape
    <3>2. CASE Asks(c) /\ asking'[c] # asking[c]
      <4>1. meanwhile'[c] = transit
        BY <1>2, <2>2, <3>2 DEF Posed
      <4>2. r \in transit
        BY <3>2 DEF Asks
      <4>3. QED
        BY <4>1, <4>2
    <3>3. QED
      BY <2>2, <3>1, <3>2 DEF Shape
  <2>3. \A r, q \in response' : r = q
    BY DEF Shape
  <2>4. QED
    BY <2>1, <2>2, <2>3 DEF Answers, Waits
<1>5. Silence'
  <2> SUFFICES ASSUME NEW c \in Callers, asking'[c] # 0, ~spoken'[c]
               PROVE  asking'[c] = Len(log') /\ Spoke(log', lastTs')
    BY DEF Silence, Waits
  <2>1. CASE asking'[c] = asking[c]
    <3>1. ~spoken[c] /\ log' = log
      BY <1>2, <2>1 DEF Posed
    <3>2. asking[c] = Len(log) /\ Spoke(log, lastTs)
      BY <2>1, <3>1 DEF Inv, Silence, Waits
    <3>3. Spoke(log', lastTs')
      BY <3>1, <3>2 DEF Shape, Silent
    <3>4. QED
      BY <2>1, <3>1, <3>2, <3>3
  <2>2. CASE Asks(c)
    BY <2>2 DEF Asks
  <2>3. QED
    BY <2>1, <2>2 DEF Shape
<1>6. Histories'
  <2>1. transit \subseteq Nat
    BY <1>3 DEF Inv, Answers
  <2>2. \A c \in Callers : (IF Posed(c) THEN transit ELSE IF asking'[c] = 0 THEN {} ELSE meanwhile[c])
                            \in SUBSET Nat
    BY <2>1 DEF Inv, Histories
  <2>3. meanwhile' \in [Callers -> SUBSET Nat]
    BY <1>2, <2>2
  <2>4. spoken' \in [Callers -> BOOLEAN]
    BY <1>2
  <2>5. QED
    BY <2>3, <2>4 DEF Histories
<1>7. QED
  BY <1>1, <1>4, <1>5, <1>6

\* Somebody spoke, and asked nothing.
LEMMA SpeaksShape ==
    ASSUME Inv, NEW msgs, Stays(log, msgs), Says(msgs),
           UNCHANGED <<response, asking, transit, answered>>
    PROVE  Shape
<1>1. Ordered(log', lastTs') /\ Stays(log, log') /\ Spoke(log', lastTs')
  BY StaysTwice DEF Says
<1>2. asking' \in [Callers -> Nat]
  BY DEF Inv, Waiting
<1>3. \A c \in Callers : Asks(c) => response' = {} /\ transit' = transit
  BY DEF Asks
<1>4. QED
  BY <1>1, <1>2, <1>3 DEF Shape, Inv, Answers

\* A question was asked.
LEMMA AsksShape ==
    ASSUME Inv, NEW msgs, Stays(log, msgs), Says(msgs), NEW c \in Callers,
           ~log'[Len(log')].partial, log'[Len(log')].kind = "ask",
           asking' = [asking EXCEPT ![c] = Len(log')], response' = {},
           UNCHANGED <<transit, answered>>
    PROVE  Shape
<1>1. Ordered(log', lastTs') /\ Stays(log, log') /\ Spoke(log', lastTs') /\ Len(log') \in Nat
  BY StaysTwice DEF Says, Ordered
<1>2. asking' \in [Callers -> Nat] /\ Asks(c) /\ \A k \in Callers : k # c => asking'[k] = asking[k]
  BY <1>1 DEF Inv, Waiting, Asks, Says
<1>3. QED
  BY <1>1, <1>2 DEF Shape, Inv, Answers

\* Nobody spoke; a wait may have ended.
LEMMA StillShape ==
    ASSUME Inv, UNCHANGED <<log, lastTs, transit, answered>>, response' \subseteq response,
           asking' \in [Callers -> Nat], \A c \in Callers : asking'[c] \in {asking[c], 0}
    PROVE  Shape
<1>1. Stays(log, log') /\ Silent
  BY StaysSame DEF Silent
<1>2. \A c \in Callers : Asks(c) => c \in Callers /\ response' = {} /\ transit' = transit
  BY DEF Asks
<1>3. QED
  BY <1>1, <1>2 DEF Shape, Inv, Conversation, Answers

LEMMA EndedAsking ==
    ASSUME Inv, NEW c \in Callers, Ended(c)
    PROVE  asking' \in [Callers -> Nat] /\ \A k \in Callers : asking'[k] \in {asking[k], 0}
  BY DEF Inv, Waiting, Ended

LEMMA Kept ==
    ASSUME Inv
    PROVE  /\ Ordered(log, lastTs) /\ lastTs \in 0..MaxTime /\ Len(log) \in Nat /\ Stays(log, log)
           /\ asking \in [Callers -> Nat] /\ command \in Command
  BY StaysSame DEF Inv, Conversation, Waiting, Ordered

\* While there is room, one more message does no harm.
LEMMA RoomFits ==
    ASSUME Inv, NEW msgs, Len(msgs) \in Nat, Len(msgs) <= Len(log), Room, Says(msgs)
    PROVE  Fits'
<1>1. Len(log') \in Nat /\ Len(log') <= MaxLog
  BY Kept, Bounds DEF Room, Says, Ordered
<1>2. QED
  BY <1>1, Bounds DEF Fits

-----------------------------------------------------------------------------
(* The agent. *)

LEMMA AgentSpeaks ==
    ASSUME Inv, AgentStreams \/ AgentSaysTool \/ AgentSays \/ Notify
    PROVE  Conversation' /\ Shape
<1>1. /\ Room /\ UNCHANGED <<response, asking, agent, command, abort, transit, answered>>
  BY DEF AgentStreams, AgentSaysTool, AgentSays, Notify, AgentActs, Elsewhere, Say
<1>2. \E msgs : Stays(log, msgs) /\ Len(msgs) \in Nat /\ Len(msgs) <= Len(log) /\ Says(msgs)
  <2>0. /\ Ordered(log, lastTs) /\ lastTs \in 0..MaxTime /\ Len(log) \in Nat /\ Stays(log, log)
        /\ Len(log) <= Len(log) /\ "agent" \in Speakers /\ "server" \in Speakers
    BY Kept DEF Speakers, Callers
  <2>1. CASE AgentStreams
    <3>1. PICK kind \in {"ask", "say"} : Add(Removed(Other(kind)), "agent", kind, TRUE)
      BY <2>1 DEF AgentStreams
    <3> DEFINE msgs == Removed(Other(kind))
    <3>2. Ordered(msgs, lastTs) /\ Stays(log, msgs) /\ Len(msgs) <= Len(log)
      BY <2>0, RemovedStays
    <3> HIDE DEF msgs
    <3>3. Add(msgs, "agent", kind, TRUE) /\ TRUE \in BOOLEAN /\ Len(msgs) \in Nat
      <4>1. Len(msgs) \in Nat
        BY <3>2 DEF Ordered
      <4>2. Add(msgs, "agent", kind, TRUE)
        BY <3>1 DEF msgs
      <4>3. QED
        BY <4>1, <4>2
    <3>4. Says(msgs)
      BY <2>0, <3>2, <3>3, AddSays
    <3>5. QED
      BY <3>2, <3>3, <3>4
  <2>2. CASE AgentSaysTool
    <3> DEFINE msgs == Removed("ask")
    <3>1. Ordered(msgs, lastTs) /\ Stays(log, msgs) /\ Len(msgs) <= Len(log)
      BY <2>0, RemovedStays
    <3> HIDE DEF msgs
    <3>2. Post(msgs, "agent", "say") /\ "say" \in {"ask", "say"} /\ Len(msgs) \in Nat
      BY <2>2, <3>1 DEF msgs, AgentSaysTool, Say, Ordered
    <3>3. Says(msgs)
      BY <2>0, <3>1, <3>2, PostSays
    <3>4. QED
      BY <3>1, <3>2, <3>3
  <2>3. CASE AgentSays \/ Notify
    <3>1. PICK c \in {"agent", "server"} : Add(log, c, "say", FALSE)
      BY <2>3 DEF AgentSays, Notify
    <3>2. c \in Speakers /\ "say" \in {"ask", "say"} /\ FALSE \in BOOLEAN
      BY <2>0
    <3>3. Says(log)
      BY <2>0, <3>1, <3>2, AddSays
    <3>4. QED
      BY <2>0, <3>3
  <2>4. QED
    BY <2>1, <2>2, <2>3
<1>3. PICK msgs : Stays(log, msgs) /\ Len(msgs) \in Nat /\ Len(msgs) <= Len(log) /\ Says(msgs)
  BY <1>2
<1>4. Shape
  BY <1>1, <1>3, SpeaksShape
<1>5. Fits'
  BY <1>1, <1>3, RoomFits
<1>6. QED
  BY <1>1, <1>3, <1>4, <1>5 DEF Inv, Conversation, Says

LEMMA AgentQuestions ==
    ASSUME Inv, AgentAsksTool \/ AgentAsks
    PROVE  Conversation' /\ Shape
<1>1. /\ Room /\ UNCHANGED <<agent, command, abort, transit, answered>>
      /\ response' = {} /\ asking' = [asking EXCEPT !["agent"] = Len(log')]
  BY DEF AgentAsksTool, AgentAsks, AgentActs, Elsewhere, Ask
<1>2. \E msgs : /\ Stays(log, msgs) /\ Len(msgs) \in Nat /\ Len(msgs) <= Len(log) /\ Says(msgs)
                /\ ~log'[Len(log')].partial /\ log'[Len(log')].kind = "ask"
  <2>0. /\ Ordered(log, lastTs) /\ lastTs \in 0..MaxTime /\ Len(log) \in Nat /\ Stays(log, log)
        /\ Len(log) <= Len(log) /\ "agent" \in Speakers /\ "ask" \in {"ask", "say"}
    BY Kept DEF Speakers, Callers
  <2>1. CASE AgentAsksTool
    <3> DEFINE msgs == Removed("say")
    <3>1. Ordered(msgs, lastTs) /\ Stays(log, msgs) /\ Len(msgs) <= Len(log)
      BY <2>0, RemovedStays
    <3> HIDE DEF msgs
    <3>2. Post(msgs, "agent", "ask") /\ Len(msgs) \in Nat
      BY <2>1, <3>1 DEF msgs, AgentAsksTool, Ask, Ordered
    <3>3. Says(msgs) /\ ~log'[Len(log')].partial /\ log'[Len(log')].kind = "ask"
      BY <2>0, <3>1, <3>2, PostSays
    <3>4. QED
      BY <3>1, <3>2, <3>3
  <2>2. CASE AgentAsks
    <3>1. Add(log, "agent", "ask", FALSE) /\ FALSE \in BOOLEAN
      BY <2>2 DEF AgentAsks
    <3>2. Says(log) /\ log'[Len(log')].partial = FALSE /\ log'[Len(log')].kind = "ask"
      BY <2>0, <3>1, AddSays
    <3>3. QED
      BY <2>0, <3>2
  <2>3. QED
    BY <2>1, <2>2
<1>3. PICK msgs : /\ Stays(log, msgs) /\ Len(msgs) \in Nat /\ Len(msgs) <= Len(log) /\ Says(msgs)
                  /\ ~log'[Len(log')].partial /\ log'[Len(log')].kind = "ask"
  BY <1>2
<1>4. Shape
  <2>1. "agent" \in Callers
    BY DEF Callers
  <2>2. QED
    BY <1>1, <1>3, <2>1, AsksShape
<1>5. Fits'
  BY <1>1, <1>3, RoomFits
<1>6. QED
  BY <1>1, <1>3, <1>4, <1>5 DEF Inv, Conversation, Says

LEMMA AgentWaits ==
    ASSUME Inv, AgentPolls \/ RunCommand
    PROVE  Conversation' /\ Shape
<1>1. /\ UNCHANGED <<log, lastTs, abort, transit, answered>> /\ response' \subseteq response
  BY DEF AgentPolls, RunCommand, Silent, Elsewhere
<1>2. asking' \in [Callers -> Nat] /\ \A k \in Callers : asking'[k] \in {asking[k], 0}
  <2>1. CASE AgentPolls
    <3>1. "agent" \in Callers /\ Ended("agent")
      BY <2>1 DEF Callers, AgentPolls
    <3>2. QED
      BY <3>1, EndedAsking
  <2>2. CASE RunCommand
    BY <2>2, Kept DEF RunCommand
  <2>3. QED
    BY <2>1, <2>2
<1>3. /\ agent' \in {"free", "awaiting"} /\ command' \in Command /\ command'.output = command.output
      /\ command'.didContinue = command.didContinue
  <2>1. CASE AgentPolls
    BY <2>1, Kept DEF AgentPolls, Inv, Conversation
  <2>2. CASE RunCommand
    <3>1. agent' = "awaiting" /\ command' = [command EXCEPT !.pc = "running"]
      BY <2>2 DEF RunCommand
    <3>2. QED
      BY <3>1, Kept DEF Command
  <2>3. QED
    BY <2>1, <2>2
<1>4. Conversation'
  BY <1>1, <1>3 DEF Inv, Conversation, Fits
<1>5. QED
  BY <1>1, <1>2, <1>4, StillShape

-----------------------------------------------------------------------------
(* The command. *)

\* A chunk is asked by the command, and its buffer is empty.
LEMMA ChunkAsked ==
    ASSUME Inv, NEW msgs, Ordered(msgs, lastTs), Stays(log, msgs), Ask(msgs, "command"),
           UNCHANGED <<transit, answered, abort>>, agent' \in {"free", "awaiting"},
           command' \in Command, ~command'.output,
           Len(msgs) + 1 <= MaxLog + 2,
           ~command'.didContinue => Len(msgs) <= MaxLog
    PROVE  Conversation' /\ Shape
<1>1. "command" \in Callers /\ "command" \in Speakers /\ "ask" \in {"ask", "say"}
  BY DEF Callers, Speakers
<1>2. lastTs \in 0..MaxTime /\ Len(msgs) \in Nat
  BY Kept DEF Ordered
<1>3. Says(msgs) /\ ~log'[Len(log')].partial /\ log'[Len(log')].kind = "ask"
  BY <1>1, <1>2, PostSays DEF Ask
<1>4. asking' = [asking EXCEPT !["command"] = Len(log')] /\ response' = {}
  BY DEF Ask
<1>5. Shape
  BY <1>1, <1>3, <1>4, AsksShape
<1>6. Len(log') \in Nat /\ Len(log') <= Len(msgs) + 1
  BY <1>3 DEF Says, Ordered
<1>7. Fits'
  BY <1>2, <1>6, Bounds DEF Fits
<1>8. QED
  BY <1>3, <1>5, <1>7 DEF Inv, Conversation, Says

\* Nobody spoke, and the command's buffer changes.
LEMMA Buffers ==
    ASSUME Inv, UNCHANGED <<log, lastTs, transit, answered, abort>>, response' \subseteq response,
           asking' \in [Callers -> Nat], \A c \in Callers : asking'[c] \in {asking[c], 0},
           agent' \in {"free", "awaiting"}, command' \in Command,
           command'.output => Len(log) <= MaxLog,
           ~command'.didContinue => ~command.didContinue
    PROVE  Conversation' /\ Shape
<1>1. Fits'
  BY DEF Inv, Conversation, Fits
<1>2. QED
  BY <1>1, StillShape DEF Inv, Conversation

LEMMA FlushKeeps ==
    ASSUME Inv, NEW com \in Command, com.output => Len(log) <= MaxLog,
           com.didContinue = command.didContinue, NEW enroute, Flush(enroute, com),
           UNCHANGED <<transit, answered, abort>>, agent' \in {"free", "awaiting"}
    PROVE  Conversation' /\ Shape
<1>0. /\ Ordered(log, lastTs) /\ Len(log) \in Nat /\ Stays(log, log) /\ asking \in [Callers -> Nat]
  BY Kept
<1>1. CASE enroute \/ ~com.output
  <2>1. command' = com /\ UNCHANGED <<log, lastTs, response, asking>>
    BY <1>1 DEF Flush, Speechless, Silent
  <2>2. QED
    BY <1>0, <2>1, Buffers
<1>2. CASE ~enroute /\ com.output
  <2>1. /\ command' = [com EXCEPT !.output = FALSE]
        /\ IF abort THEN Speechless ELSE Ask(log, "command")
    BY <1>2 DEF Flush
  <2>2. command' \in Command /\ ~command'.output /\ command'.didContinue = command.didContinue
    BY <2>1 DEF Command
  <2>3. CASE abort
    <3>1. UNCHANGED <<log, lastTs, response, asking>>
      BY <2>1, <2>3 DEF Speechless, Silent
    <3>2. QED
      BY <1>0, <2>2, <3>1, Buffers
  <2>4. CASE ~abort
    <3>1. Ask(log, "command") /\ Len(log) <= MaxLog /\ Len(log) + 1 <= MaxLog + 2
      BY <1>0, <1>2, <2>1, <2>4, Bounds
    <3>2. QED
      BY <1>0, <2>2, <3>1, ChunkAsked
  <2>5. QED
    BY <2>3, <2>4
<1>3. QED
  BY <1>1, <1>2

LEMMA CommandGoesOn ==
    ASSUME Inv, Line \/ ChunkIsDue \/ ProcessCompletes
    PROVE  Conversation' /\ Shape
<1>0. /\ Len(log) \in Nat /\ asking \in [Callers -> Nat] /\ command \in Command
      /\ agent \in {"free", "awaiting"} /\ (command.output => Len(log) <= MaxLog)
  BY Kept DEF Inv, Conversation, Fits
<1>1. CASE Line
  <2>1. /\ command' = [command EXCEPT !.output = TRUE] /\ Room
        /\ UNCHANGED <<log, lastTs, response, asking, agent, transit, answered, abort>>
    BY <1>1 DEF Line, Speechless, Silent, Elsewhere
  <2>2. command' \in Command /\ command'.didContinue = command.didContinue
    BY <1>0, <2>1 DEF Command
  <2>3. Len(log) <= MaxLog
    BY <1>0, <2>1, Bounds DEF Room
  <2>4. QED
    BY <1>0, <2>1, <2>2, <2>3, Buffers
<1>2. CASE ChunkIsDue
  <2>1. Flush(FALSE, command) /\ UNCHANGED <<agent, transit, answered, abort>>
    BY <1>2 DEF ChunkIsDue, Elsewhere
  <2>2. QED
    BY <1>0, <2>1, FlushKeeps
<1>3. CASE ProcessCompletes
  <2>1. PICK line \in BOOLEAN :
          Flush(Waits("command"),
                [command EXCEPT !.pc = "completed",
                                !.output = @ \/ (line /\ ~command.didContinue /\ Room)])
    BY <1>3 DEF ProcessCompletes
  <2> DEFINE output == command.output \/ (line /\ ~command.didContinue /\ Room)
             com == [command EXCEPT !.pc = "completed", !.output = output]
  <2>2. output \in BOOLEAN /\ (output => Len(log) <= MaxLog)
    BY <1>0, Bounds DEF Room, Command
  <2> HIDE DEF output
  <2>3. com \in Command /\ com.output = output /\ com.didContinue = command.didContinue
    BY <1>0, <2>2 DEF Command
  <2>4. Flush(Waits("command"), com)
    BY <2>1 DEF output
  <2>5. UNCHANGED <<transit, answered, abort>> /\ agent' \in {"free", "awaiting"}
    BY <1>3 DEF ProcessCompletes, Elsewhere
  <2> HIDE DEF com
  <2>6. QED
    BY <2>2, <2>3, <2>4, <2>5, FlushKeeps
<1>4. QED
  BY <1>1, <1>2, <1>3

LEMMA ChunkIgnoredKeeps ==
    ASSUME Inv, ChunkIgnored
    PROVE  Conversation' /\ Shape
<1>0. /\ Ordered(log, lastTs) /\ Len(log) \in Nat /\ Stays(log, log) /\ command \in Command
      /\ agent \in {"free", "awaiting"} /\ (command.output => Len(log) <= MaxLog)
  BY Kept DEF Inv, Conversation, Fits
<1>1. /\ command' = [command EXCEPT !.output = FALSE]
      /\ UNCHANGED <<agent, transit, answered, abort>>
      /\ IF command.output /\ ~abort
           THEN Ask(log, "command")
           ELSE Ended("command") /\ UNCHANGED <<response, log, lastTs>>
  BY DEF ChunkIgnored, Elsewhere, Silent
<1>2. command' \in Command /\ ~command'.output /\ command'.didContinue = command.didContinue
  BY <1>0, <1>1 DEF Command
<1>3. CASE command.output /\ ~abort
  <2>1. Ask(log, "command") /\ Len(log) <= MaxLog /\ Len(log) + 1 <= MaxLog + 2
    BY <1>0, <1>1, <1>3, Bounds
  <2>2. QED
    BY <1>0, <1>1, <1>2, <2>1, ChunkAsked
<1>4. CASE ~(command.output /\ ~abort)
  <2>1. Ended("command") /\ UNCHANGED <<response, log, lastTs>> /\ "command" \in Callers
    BY <1>1, <1>4 DEF Callers
  <2>2. asking' \in [Callers -> Nat] /\ \A k \in Callers : asking'[k] \in {asking[k], 0}
    BY <2>1, EndedAsking
  <2>3. QED
    BY <1>0, <1>1, <1>2, <2>1, <2>2, Buffers
<1>5. QED
  BY <1>3, <1>4

\* The last line is at the end of the list, or there is none.
LEMMA LastLineStays ==
    ASSUME Inv, NEW line \in LastLines
    PROVE  /\ Ordered(log \o line, lastTs) /\ Stays(log, log \o line)
           /\ Len(log \o line) \in Nat /\ Len(log \o line) <= Len(log) + 1
<1>0. Ordered(log, lastTs) /\ lastTs \in 0..MaxTime /\ Len(log) \in Nat /\ Stays(log, log)
      /\ log \in Seq(Message) /\ lastTs \in Nat
  BY Kept, Bounds DEF Ordered
<1>1. CASE line = <<>>
  <2>1. log \o line = log
    BY <1>0, <1>1
  <2>2. QED
    BY <1>0, <2>1
<1>2. CASE line # <<>>
  <2> DEFINE m == New("command", "say", FALSE, lastTs)
  <2>1. line = <<m>>
    BY <1>2 DEF LastLines
  <2>2. m \in Message /\ m.ts = lastTs
    BY <1>0 DEF Message, New, Speakers, Callers
  <2> HIDE DEF m
  <2>3. log \o line = Append(log, m)
    BY <1>0, <2>1, <2>2
  <2>4. Ordered(Append(log, m), lastTs) /\ Stays(log, Append(log, m)) /\ Len(Append(log, m)) = Len(log) + 1
    BY <1>0, <2>2, Appended
  <2>5. QED
    BY <1>0, <2>3, <2>4
<1>3. QED
  BY <1>1, <1>2

LEMMA ChunkAnsweredKeeps ==
    ASSUME Inv, ChunkAnswered
    PROVE  Conversation' /\ Shape
<1>0. /\ Ordered(log, lastTs) /\ lastTs \in 0..MaxTime /\ Len(log) \in Nat /\ Stays(log, log)
      /\ command \in Command /\ Fits
  BY Kept DEF Inv, Conversation
<1>1. /\ command' = [command EXCEPT !.didContinue = TRUE, !.output = FALSE]
      /\ agent' = "free" /\ UNCHANGED <<transit, answered, abort>>
      /\ IF command.output /\ ~abort
           THEN \E line \in LastLines : Ask(log \o line, "command")
           ELSE /\ response' = {} /\ Ended("command")
                /\ \/ UNCHANGED <<log, lastTs>>
                   \/ LastLines # {<<>>} /\ Add(log, "command", "say", FALSE)
  BY DEF ChunkAnswered, Elsewhere, Silent
<1>2. command' \in Command /\ ~command'.output /\ command'.didContinue
  BY <1>0, <1>1 DEF Command
<1>3. CASE command.output /\ ~abort
  <2>1. PICK line \in LastLines : Ask(log \o line, "command")
    BY <1>1, <1>3
  <2>2. /\ Ordered(log \o line, lastTs) /\ Stays(log, log \o line)
        /\ Len(log \o line) \in Nat /\ Len(log \o line) <= Len(log) + 1
    BY LastLineStays
  <2>3. Len(log \o line) + 1 <= MaxLog + 2
    BY <1>0, <1>3, <2>2, Bounds DEF Fits
  <2> DEFINE msgs == log \o line
  <2>4. /\ Ordered(msgs, lastTs) /\ Stays(log, msgs) /\ Ask(msgs, "command") /\ Len(msgs) + 1 <= MaxLog + 2
    BY <2>1, <2>2, <2>3
  <2> HIDE DEF msgs
  <2>5. QED
    BY <1>1, <1>2, <2>4, ChunkAsked
<1>4. CASE ~(command.output /\ ~abort)
  <2>1. response' = {} /\ Ended("command") /\ "command" \in Callers
    BY <1>1, <1>4 DEF Callers
  <2>2. asking' \in [Callers -> Nat] /\ \A k \in Callers : asking'[k] \in {asking[k], 0}
    BY <2>1, EndedAsking
  <2>3. CASE UNCHANGED <<log, lastTs>>
    BY <1>0, <1>1, <1>2, <2>1, <2>2, <2>3, Buffers
  <2>4. CASE LastLines # {<<>>} /\ Add(log, "command", "say", FALSE)
    <3>1. "command" \in Speakers /\ "say" \in {"ask", "say"} /\ FALSE \in BOOLEAN
      BY DEF Speakers, Callers
    <3>2. Says(log)
      BY <1>0, <2>4, <3>1, AddSays
    <3>3. ~command.didContinue
      BY <2>4 DEF LastLines
    <3>4. Len(log') \in Nat /\ Len(log') <= MaxLog + 2
      BY <1>0, <3>2, <3>3, Bounds DEF Fits, Says, Ordered
    <3>5. Fits'
      BY <1>2, <3>4 DEF Fits
    <3>6. Conversation'
      BY <1>1, <1>2, <3>2, <3>5 DEF Inv, Conversation, Says
    <3>7. Shape
      <4>1. /\ Ordered(log', lastTs') /\ Stays(log, log') /\ Spoke(log', lastTs')
        BY <3>2 DEF Says
      <4>2. \A c \in Callers : Asks(c) => response' = {} /\ transit' = transit
        BY <1>1, <2>1
      <4>3. QED
        BY <1>1, <2>1, <2>2, <4>1, <4>2 DEF Shape, Inv, Answers
    <3>8. QED
      BY <3>6, <3>7
  <2>5. QED
    BY <1>1, <1>4, <2>3, <2>4
<1>5. QED
  BY <1>3, <1>4

-----------------------------------------------------------------------------
(* The user, and the end of the task. *)

LEMMA AnswerKeeps ==
    ASSUME Inv, Answer
    PROVE  Conversation' /\ Shape
<1>1. UNCHANGED <<log, lastTs, response, asking, agent, command, abort>>
  BY DEF Answer
<1>2. PICK q \in Asked \ answered :
         /\ \A i \in Asked : i <= q
         /\ ~log[q].partial
         /\ transit' = transit \cup {q} /\ answered' = answered \cup {q}
  BY DEF Answer
<1>3. q \in Finished
  BY <1>2 DEF Asked, Finished
<1>4. \A c \in Callers : Waits(c) => asking[c] <= q
  BY <1>2 DEF Asked, Inv, Waiting
<1>5. Stays(log, log') /\ Silent
  BY <1>1, StaysSame DEF Silent
<1>6. Conversation'
  BY <1>1 DEF Inv, Conversation, Fits
<1>7. response' \cup transit' \cup answered' \subseteq Finished
  BY <1>1, <1>2, <1>3 DEF Inv, Answers
<1>8. \A r \in response' \cup transit' :
         r \in response \cup transit \/ \A c \in Callers : Waits(c) => asking[c] <= r
  BY <1>1, <1>2, <1>4
<1>9. QED
  BY <1>1, <1>5, <1>6, <1>7, <1>8 DEF Shape, Inv, Conversation, Waiting, Answers

LEMMA DeliverKeeps ==
    ASSUME Inv, Deliver
    PROVE  Conversation' /\ Shape
<1>1. UNCHANGED <<log, lastTs, asking, agent, command, abort, answered>>
  BY DEF Deliver
<1>2. PICK q \in transit : response' = {q} /\ transit' = transit \ {q}
  BY DEF Deliver
<1>3. Stays(log, log') /\ Silent
  BY <1>1, StaysSame DEF Silent
<1>4. Conversation'
  BY <1>1 DEF Inv, Conversation, Fits
<1>5. QED
  BY <1>1, <1>2, <1>3, <1>4 DEF Shape, Inv, Conversation, Waiting, Answers

LEMMA AbortKeeps ==
    ASSUME Inv, Abort
    PROVE  Conversation' /\ Shape
<1>1. /\ UNCHANGED <<log, lastTs, response, asking, agent, command, transit, answered>>
      /\ abort' = TRUE
  BY DEF Abort
<1>2. Conversation'
  BY <1>1 DEF Inv, Conversation, Fits
<1>3. asking' \in [Callers -> Nat] /\ \A c \in Callers : asking'[c] \in {asking[c], 0}
  BY <1>1 DEF Inv, Waiting
<1>4. QED
  BY <1>1, <1>2, <1>3, StillShape

-----------------------------------------------------------------------------
(* The invariant. *)

LEMMA InvInit == MCInit => Inv
<1> SUFFICES ASSUME MCInit
             PROVE  Inv
  OBVIOUS
<1>1. /\ log = <<>> /\ lastTs = 0 /\ response = {} /\ asking = [c \in Callers |-> 0]
      /\ agent = "free" /\ abort = FALSE /\ answered = {0} /\ transit \subseteq {0}
      /\ command = [pc |-> "none", output |-> FALSE, didContinue |-> FALSE]
      /\ meanwhile = [c \in Callers |-> {}] /\ spoken = [c \in Callers |-> FALSE]
  BY DEF MCInit, Init
<1>2. command \in Command /\ ~command.output
  BY <1>1 DEF Command
<1>3. Ordered(log, lastTs) /\ Len(log) = 0
  BY <1>1 DEF Ordered
<1>4. Conversation
  <2>1. Fits
    BY <1>2, <1>3, Bounds DEF Fits
  <2>2. lastTs \in 0..MaxTime
    BY <1>1, Bounds
  <2>3. agent \in {"free", "awaiting"} /\ abort \in BOOLEAN
    BY <1>1
  <2>4. QED
    BY <1>2, <1>3, <2>1, <2>2, <2>3 DEF Conversation
<1>5. Waiting /\ Silence /\ Histories
  BY <1>1 DEF Waiting, Silence, Histories, Waits
<1>6. Answers
  BY <1>1 DEF Answers, Finished, Waits
<1>7. QED
  BY <1>4, <1>5, <1>6 DEF Inv

LEMMA InvStep == Inv /\ [MCNext]_<<vars, meanwhile, spoken>> => Inv'
<1> SUFFICES ASSUME Inv, [MCNext]_<<vars, meanwhile, spoken>>
             PROVE  Inv'
  OBVIOUS
<1>1. CASE MCNext
  <2>1. Conversation' /\ Shape
    <3>1. Next
      BY <1>1 DEF MCNext
    <3>2. QED
      BY <3>1, AgentSpeaks, AgentQuestions, AgentWaits, CommandGoesOn, ChunkIgnoredKeeps,
         ChunkAnsweredKeeps, AnswerKeeps, DeliverKeeps, AbortKeeps DEF Next, Polls
  <2>2. QED
    BY <1>1, <2>1, ShapeKeeps DEF Inv
<1>2. CASE UNCHANGED <<vars, meanwhile, spoken>>
  BY <1>2 DEF vars, Inv, Conversation, Fits, Waiting, Answers, Silence, Histories, Finished, Waits
<1>3. QED
  BY <1>1, <1>2

\* Whatever is said and answered, in whatever order, the list stays ordered, and the
\* questions waited for and the answers under way belong to finished messages of it.
THEOREM AskSayInvariant == MCSpec => []Inv
  BY InvInit, InvStep, PTL DEF MCSpec

-----------------------------------------------------------------------------
(* What the invariant says of the properties. *)

\* Every variable of AskSay has its type; no more than one answer is stored.
THEOREM AskSayTypeCorrect == MCSpec => []TypeOK
<1>1. Inv => TypeOK
  <2> SUFFICES ASSUME Inv
               PROVE  TypeOK
    OBVIOUS
  <2>1. log \in Seq(Message) /\ Len(log) \in Nat /\ DOMAIN log = 1..Len(log) /\ Len(log) <= MaxLog + 2
    BY DEF Inv, Conversation, Ordered, Fits
  <2>2. Len(log) \in Questions /\ Finished \subseteq Questions
    <3>1. \A i \in 0..Len(log) : i \in 0..MaxLog + 2
      BY <2>1, Bounds
    <3>2. Finished \subseteq 0..Len(log) /\ Len(log) \in 0..Len(log)
      BY <2>1 DEF Finished
    <3>3. QED
      BY <3>1, <3>2 DEF Questions
  <2>3. asking \in [Callers -> 0..Len(log)]
    <3>1. \A c \in Callers : asking[c] \in 0..Len(log)
      BY <2>1 DEF Inv, Waiting, Waits
    <3>2. QED
      BY <3>1 DEF Inv, Waiting
  <2>4. Cardinality(response) <= 1
    <3>1. CASE response = {}
      BY <3>1, FS_EmptySet
    <3>2. CASE response # {}
      <4>1. PICK r : r \in response
        BY <3>2
      <4>2. response = {r}
        BY <4>1 DEF Inv, Answers
      <4>3. QED
        BY <4>2, FS_Singleton
    <3>3. QED
      BY <3>1, <3>2
  <2>5. response \subseteq Questions /\ transit \subseteq Questions /\ answered \subseteq Questions
    BY <2>2 DEF Inv, Answers
  <2>6. QED
    BY <2>1, <2>2, <2>3, <2>4, <2>5 DEF TypeOK, Inv, Conversation
<1>2. QED
  BY <1>1, AskSayInvariant, PTL

\* ask returns the answer given to its own question, or one that was being recorded
\* when it was asked, unless two messages share a millisecond.
THEOREM OwnAnswerHolds == MCSpec => OwnAnswer
<1>1. Inv => \A c \in Callers : asking'[c] # asking[c] /\ Taken(c) /\ ~Collided
               => response \subseteq {asking[c]} \cup meanwhile[c]
  <2> SUFFICES ASSUME Inv, NEW c \in Callers, Taken(c), ~Collided, NEW r \in response,
                      r \notin meanwhile[c]
               PROVE  r = asking[c]
    OBVIOUS
  <2>1. asking[c] \in DOMAIN log /\ Waits(c) /\ lastTs = log[asking[c]].ts
    BY DEF Taken, Inv, Waiting
  <2>2. r \in Finished /\ asking[c] <= r
    BY <2>1 DEF Inv, Answers
  <2>3. DOMAIN log \subseteq 1..Len(log) /\ Len(log) \in Nat
    BY DEF Inv, Conversation, Ordered
  <2>4. r \in Nat /\ asking[c] \in Nat /\ asking[c] # 0
    BY <2>1, <2>2, <2>3 DEF Finished
  <2>5. r \in DOMAIN log
    BY <2>2, <2>4 DEF Finished
  <2>6. ~(asking[c] < r)
    <3>1. SUFFICES ASSUME asking[c] < r
                   PROVE  FALSE
      OBVIOUS
    <3>2. log[asking[c]].ts <= log[r].ts /\ log[r].ts <= lastTs
      BY <2>1, <2>5, <3>1 DEF Inv, Conversation, Ordered
    <3>3. log[r].ts \in Nat /\ lastTs \in Nat
      BY <2>5, Kept, OrderedParts
    <3>4. log[r].ts = log[asking[c]].ts /\ r > asking[c]
      BY <2>1, <2>4, <3>1, <3>2, <3>3
    <3>5. QED
      BY <2>1, <2>5, <3>4 DEF Collided
  <2>7. QED
    BY <2>2, <2>4, <2>6
<1>2. QED
  BY <1>1, AskSayInvariant, PTL DEF OwnAnswer

\* ask throws "ignored" only after somebody else spoke: the agent never supersedes a
\* question it waits for itself.
THEOREM QuestionStandsHolds == MCSpec => QuestionStands
<1>1. Inv => \A c \in Callers : asking'[c] # asking[c] /\ Ignored(c) => spoken[c]
  BY DEF Inv, Silence, Spoke, Ignored
<1>2. QED
  BY <1>1, AskSayInvariant, PTL DEF QuestionStands
=============================================================================
