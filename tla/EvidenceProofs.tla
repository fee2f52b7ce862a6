--------------------------- MODULE EvidenceProofs ---------------------------
(***************************************************************************)
(* Proofs about EvidenceSync, for any number of drains, objects, entries,  *)
(* keys and late requests, and for every combination of faults, a disk     *)
(* that refuses writes and crashes included.                               *)
(***************************************************************************)
EXTENDS MCEvidenceSync, EvidenceCallers, SequenceTheorems, TLAPS

USE BatchAssumption, FailuresAssumption, BoundsAssumption, NoFlowAssumption

-----------------------------------------------------------------------------
(* The operators. *)

\* Setting a flag or the count of an object keeps it one.
LEMMA InstUpdate ==
    ASSUME NEW r \in Inst, NEW n \in Nat
    PROVE  /\ [r EXCEPT !.registered = TRUE] \in Inst
           /\ [r EXCEPT !.fails = n] \in Inst
           /\ [r EXCEPT !.fails = n, !.running = FALSE] \in Inst
  BY DEF Inst

\* Appending an entry adds exactly that entry to the elements.
LEMMA ElemsAppend ==
    ASSUME NEW S, NEW s \in Seq(S), NEW e \in S
    PROVE  Elems(Append(s, e)) = Elems(s) \cup {e}
  <1> DEFINE t == Append(s, e)
  <1>1. /\ DOMAIN s = 1..Len(s) /\ Len(s) \in Nat
        /\ DOMAIN t = 1..(Len(s) + 1)
        /\ t[Len(s) + 1] = e
        /\ \A n \in 1..Len(s) : t[n] = s[n]
    OBVIOUS
  <1>2. Elems(t) \subseteq Elems(s) \cup {e}
    <2> SUFFICES ASSUME NEW n \in DOMAIN t PROVE t[n] \in Elems(s) \cup {e}
      BY DEF Elems
    <2> HIDE DEF t
    <2> QED  BY <1>1 DEF Elems
  <1>3. Elems(s) \subseteq Elems(t) /\ e \in Elems(t)
    <2>1. Len(s) + 1 \in DOMAIN t  BY <1>1
    <2>2. \A n \in DOMAIN s : n \in DOMAIN t /\ t[n] = s[n]  BY <1>1
    <2> HIDE DEF t
    <2> QED  BY <1>1, <2>1, <2>2 DEF Elems
  <1> QED  BY <1>2, <1>3

\* A batch is a non-empty run of ids that exist, when there is a backlog.
LEMMA BatchEndBounds ==
    ASSUME NEW S, trail \in Seq(S), NEW c \in Nat, c < Len(trail)
    PROVE  /\ BatchEnd(c) \in Nat
           /\ c + 1 <= BatchEnd(c)
           /\ BatchEnd(c) <= Len(trail)
  BY DEF BatchEnd

\* The rows of a batch are the trail's entries at those ids.
LEMMA BatchRows ==
    ASSUME trail \in Seq(Entries), NEW c \in Nat, c < Len(trail)
    PROVE  LET rows == SubSeq(trail, c + 1, BatchEnd(c)) IN
             /\ rows \in Seq(Entries)
             /\ Len(rows) = BatchEnd(c) - c
             /\ \A n \in 1..Len(rows) : rows[n] = trail[c + n]
  <1>1. /\ BatchEnd(c) \in Nat /\ c + 1 <= BatchEnd(c) /\ BatchEnd(c) <= Len(trail)
    BY BatchEndBounds
  <1>2. \A n \in (c + 1)..BatchEnd(c) : trail[n] \in Entries
    BY <1>1, ElementOfSeq
  <1>3. /\ SubSeq(trail, c + 1, BatchEnd(c)) \in Seq(Entries)
        /\ Len(SubSeq(trail, c + 1, BatchEnd(c))) = BatchEnd(c) - c
        /\ \A n \in 1..(BatchEnd(c) - c) :
             SubSeq(trail, c + 1, BatchEnd(c))[n] = trail[c + 1 + n - 1]
    BY <1>1, <1>2, SubSeqProperties
  <1> QED  BY <1>1, <1>3

\* Giving requests up only drops requests or takes their reader away.
LEMMA GiveUpRequests ==
    ASSUME NEW F, GiveUp(F)
    PROVE  \A q \in wire' :
             \/ q \in wire /\ q.to \notin F
             \/ \E p \in wire : q = [p EXCEPT !.to = NoFlow]
  BY DEF GiveUp

-----------------------------------------------------------------------------
(* Types. *)

\* The head of the loop keeps the types of what it assigns.
LEMMA NextBatchType ==
    ASSUME TypeOK, NEW f \in Flows, NEW i \in Insts, NEW c \in Nat, NEW r \in Inst,
           NEW w \in SUBSET Request, NextBatch(f, i, c, r, w), key' \in 0..MaxKeys
    PROVE  wire' \subseteq Request /\ flow' \in [Flows -> Flow] /\ inst' \in [Insts -> Inst]
  <1>1. CASE c >= Len(trail)
    <2>1. /\ inst' = [inst EXCEPT ![i] = [r EXCEPT !.running = FALSE]]
          /\ flow' = [flow EXCEPT ![f] = [IdleFlow(i) EXCEPT !.pc = "return"]]
          /\ wire' = w
      BY <1>1 DEF NextBatch
    <2>2. [r EXCEPT !.running = FALSE] \in Inst /\ [IdleFlow(i) EXCEPT !.pc = "return"] \in Flow
      BY DEF Inst, IdleFlow, Flow
    <2> QED  BY <2>1, <2>2 DEF TypeOK
  <1>2. CASE c < Len(trail)
    <2>1. /\ BatchEnd(c) \in Nat
          /\ SubSeq(trail, c + 1, BatchEnd(c)) \in Seq(Entries)
      BY <1>2, BatchEndBounds, BatchRows DEF TypeOK
    <2>2. /\ inst' = [inst EXCEPT ![i] = r]
          /\ flow' = [flow EXCEPT ![f] = [pc |-> "append", inst |-> i, first |-> c + 1,
                                          last |-> BatchEnd(c), stopped |-> FALSE]]
          /\ wire' = w \cup {[to |-> f, key |-> key', at |-> 0,
                              rows |-> SubSeq(trail, c + 1, BatchEnd(c))]}
      BY SMTT(30), <1>2 DEF NextBatch
    <2>3. [pc |-> "append", inst |-> i, first |-> c + 1, last |-> BatchEnd(c),
           stopped |-> FALSE] \in Flow
      BY <2>1 DEF Flow
    <2>4. [to |-> f, key |-> key', at |-> 0, rows |-> SubSeq(trail, c + 1, BatchEnd(c))]
            \in Request
      BY <1>2, <2>1 DEF Request, TypeOK
    <2> QED  BY <2>2, <2>3, <2>4 DEF TypeOK
  <1> QED  BY <1>1, <1>2 DEF TypeOK

\* A reader taken away leaves a request.
LEMMA GiveUpType ==
    ASSUME TypeOK, NEW F, GiveUp(F)
    PROVE  wire' \subseteq Request
  <1> SUFFICES ASSUME NEW q \in wire' PROVE q \in Request  OBVIOUS
  <1>1. CASE q \in wire  BY <1>1 DEF TypeOK
  <1>2. CASE \E p \in wire : q = [p EXCEPT !.to = NoFlow]
    BY <1>2 DEF TypeOK, Request
  <1> QED  BY <1>1, <1>2, GiveUpRequests

\* Whether or not the write succeeds, the disk holds an image.
LEMMA PersistType ==
    ASSUME disk \in Image, trail' \in Seq(Entries), cursor' \in Nat, key' \in 0..MaxKeys, Persist
    PROVE  disk' \in Image
  BY DEF Persist, Image

\* A key, stored or minted, is a key.
LEMMA EnsureKeyType ==
    ASSUME TypeOK, EnsureProjectKey
    PROVE  /\ trail' \in Seq(Entries) /\ cursor' \in Nat
           /\ key' \in 1..MaxKeys /\ keys' \in 0..MaxKeys /\ disk' \in Image
  <1>1. CASE key # 0 /\ UNCHANGED <<key, keys, disk>>
    BY <1>1 DEF TypeOK, EnsureProjectKey
  <1>2. CASE key = 0 /\ keys < MaxKeys /\ keys' = keys + 1 /\ key' = keys' /\ Persist
    <2>1. key' \in 1..MaxKeys /\ keys' \in 0..MaxKeys  BY <1>2 DEF TypeOK
    <2> QED  BY <1>2, <2>1, PersistType DEF TypeOK, EnsureProjectKey
  <1> QED  BY <1>1, <1>2 DEF EnsureProjectKey

\* A pass begins with well-typed state.
LEMMA BeginPassType ==
    ASSUME TypeOK, NEW f \in Flows, NEW i \in Insts, BeginPass(f, i)
    PROVE  /\ trail' \in Seq(Entries) /\ cursor' \in Nat
           /\ key' \in 1..MaxKeys /\ keys' \in 0..MaxKeys /\ disk' \in Image
           /\ wire' \subseteq Request /\ flow' \in [Flows -> Flow] /\ inst' \in [Insts -> Inst]
  <1> DEFINE r == [inst[i] EXCEPT !.rerun = FALSE, !.running = TRUE]
  <1>1. r \in Inst  BY DEF TypeOK, Inst
  <1>2. EnsureProjectKey  BY DEF BeginPass
  <1>3. CASE r.registered
    <2>1. NextBatch(f, i, cursor, r, wire)  BY <1>3 DEF BeginPass
    <2> HIDE DEF r
    <2> QED  BY <1>1, <1>2, <2>1, EnsureKeyType, NextBatchType DEF TypeOK
  <1>4. CASE ~r.registered
    <2>1. /\ inst' = [inst EXCEPT ![i] = r]
          /\ flow' = [flow EXCEPT ![f] = [IdleFlow(i) EXCEPT !.pc = "ensure"]]
          /\ wire' = wire
      BY <1>4 DEF BeginPass
    <2>2. [IdleFlow(i) EXCEPT !.pc = "ensure"] \in Flow  BY DEF IdleFlow, Flow
    <2> HIDE DEF r
    <2> QED  BY <1>1, <1>2, <2>1, <2>2, EnsureKeyType DEF TypeOK
  <1> QED  BY <1>3, <1>4

\* So it ends when it fails.
LEMMA FailPassType ==
    ASSUME TypeOK, NEW f \in Flows, NEW b \in BOOLEAN, FailPass(f, b), wire' \subseteq Request
    PROVE  TypeOK'
  <1> DEFINE i == flow[f].inst
             n == IF b THEN MaxFailures ELSE inst[i].fails + 1
  <1>1. i \in Insts /\ n \in Nat  BY DEF TypeOK, Flow, Inst
  <1>2. /\ UNCHANGED <<trail, cursor, key>> /\ Persist
        /\ inst' = [inst EXCEPT ![i].fails = n, ![i].running = FALSE]
        /\ flow' = [flow EXCEPT ![f] = [IdleFlow(i) EXCEPT !.pc = "return",
                                                           !.stopped = (n >= MaxFailures)]]
        /\ UNCHANGED <<minted, keys, store, current>>
    BY DEF FailPass
  <1>3. \A s \in BOOLEAN : [IdleFlow(i) EXCEPT !.pc = "return", !.stopped = s] \in Flow
    BY <1>1 DEF IdleFlow, Flow
  <1> HIDE DEF i, n
  <1>7. (n >= MaxFailures) \in BOOLEAN  OBVIOUS
  <1>4. flow' \in [Flows -> Flow]  BY <1>2, <1>3, <1>7 DEF TypeOK
  <1>5. inst' \in [Insts -> Inst]
    <2>1. inst[i] \in Inst  BY <1>1 DEF TypeOK
    <2>2. [inst[i] EXCEPT !.fails = n, !.running = FALSE] \in Inst  BY <1>1, <2>1, InstUpdate
    <2>3. inst' = [inst EXCEPT ![i] = [inst[i] EXCEPT !.fails = n, !.running = FALSE]]
      BY <1>2
    <2> QED  BY <1>1, <2>2, <2>3 DEF TypeOK
  <1>6. disk' \in Image  BY <1>2, PersistType DEF TypeOK
  <1> QED  BY <1>2, <1>4, <1>5, <1>6 DEF TypeOK

\* Every variable keeps its type: rows, keys and ids stay within their ranges
\* through every batch, failure, replacement and reload.
THEOREM TypeCorrect == Spec => []TypeOK
  <1>1. Init => TypeOK
    <2> SUFFICES ASSUME Init PROVE TypeOK  OBVIOUS
    <2>1. \A i \in Insts : IdleFlow(i) \in Flow  BY DEF IdleFlow, Flow
    <2>2. FreshInst \in Inst  BY DEF FreshInst, Inst
    <2> QED  BY <2>1, <2>2 DEF Init, TypeOK, Image
  <1>2. TypeOK /\ [Next]_vars => TypeOK'
    <2> SUFFICES ASSUME TypeOK, [Next]_vars PROVE TypeOK'  OBVIOUS
    <2>1. CASE RecordEvent
      <3>1. minted' \in Entries /\ minted' \in 0..MaxEntries
        BY <2>1 DEF RecordEvent, TypeOK, Entries
      <3>2. trail' \in Seq(Entries)  BY <2>1, <3>1 DEF RecordEvent, TypeOK
      <3>3. disk' \in Image  BY <2>1, <3>2, PersistType DEF RecordEvent, TypeOK
      <3> QED  BY <2>1, <3>1, <3>2, <3>3 DEF RecordEvent, TypeOK
    <2>2. CASE FlushWhileRunning
      BY <2>2 DEF FlushWhileRunning, TypeOK, Inst, db
    <2>3. ASSUME NEW f \in Flows, FlushStart(f) PROVE TypeOK'
      BY <2>3, BeginPassType DEF FlushStart, TypeOK
    <2>4. ASSUME NEW f \in Flows, EnsureProjectDone(f) PROVE TypeOK'
      <3>1. flow[f].inst \in Insts  BY DEF TypeOK, Flow
      <3>2. [inst[flow[f].inst] EXCEPT !.registered = TRUE] \in Inst
        BY <3>1, InstUpdate DEF TypeOK
      <3>3. wire \in SUBSET Request /\ cursor \in Nat /\ key' \in 0..MaxKeys
        BY <2>4 DEF EnsureProjectDone, TypeOK, db
      <3>4. NextBatch(f, flow[f].inst, cursor, [inst[flow[f].inst] EXCEPT !.registered = TRUE], wire)
        BY <2>4 DEF EnsureProjectDone
      <3>5. wire' \subseteq Request /\ flow' \in [Flows -> Flow] /\ inst' \in [Insts -> Inst]
        BY <3>1, <3>2, <3>3, <3>4, NextBatchType
      <3> QED  BY <2>4, <3>5 DEF EnsureProjectDone, TypeOK, db
    <2>5. ASSUME NEW f \in Flows, AppendConfirmed(f) PROVE TypeOK'
      <3>1. flow[f].inst \in Insts /\ flow[f].last \in Nat  BY DEF TypeOK, Flow
      <3>2. [inst[flow[f].inst] EXCEPT !.fails = 0] \in Inst
        BY <3>1, InstUpdate DEF TypeOK
      <3>3. PICK q \in wire :
              /\ cursor' = flow[f].last /\ UNCHANGED <<trail, key>> /\ Persist
              /\ NextBatch(f, flow[f].inst, LoopFrom(f),
                           [inst[flow[f].inst] EXCEPT !.fails = 0], wire \ {q})
              /\ UNCHANGED <<minted, keys, store, current>>
        BY <2>5 DEF AppendConfirmed
      <3>4. LoopFrom(f) \in Nat  BY <3>1 DEF LoopFrom, TypeOK
      <3>5. wire' \subseteq Request /\ flow' \in [Flows -> Flow] /\ inst' \in [Insts -> Inst]
        BY <3>1, <3>2, <3>3, <3>4, NextBatchType DEF TypeOK
      <3>6. disk' \in Image  BY <3>1, <3>3, PersistType DEF TypeOK
      <3> QED  BY <3>1, <3>3, <3>5, <3>6 DEF TypeOK
    <2>6. ASSUME NEW f \in Flows, PassReturned(f) PROVE TypeOK'
      <3>1. flow[f].inst \in Insts  BY DEF TypeOK, Flow
      <3>2. CASE BeginPass(f, flow[f].inst)
        BY <2>6, <3>1, <3>2, BeginPassType DEF PassReturned, TypeOK
      <3>3. CASE /\ flow' = [flow EXCEPT ![f] = IdleFlow(flow[f].inst)]
                 /\ UNCHANGED <<db, keys, wire, inst>>
        <4>1. IdleFlow(flow[f].inst) \in Flow  BY <3>1 DEF IdleFlow, Flow
        <4> QED  BY <2>6, <3>3, <4>1 DEF PassReturned, TypeOK, db
      <3> QED  BY <2>6, <3>2, <3>3 DEF PassReturned
    <2>7. ASSUME NEW f \in Flows, FlowFailure(f) PROVE TypeOK'
      <3>1. CASE RetryableFailure(f)
        BY <3>1, GiveUpType, FailPassType DEF RetryableFailure
      <3>2. CASE UnlistedTransportFailure(f)
        BY <3>2, GiveUpType, FailPassType DEF UnlistedTransportFailure
      <3>3. CASE ShortAnswer(f)
        BY <3>3, FailPassType DEF ShortAnswer, TypeOK
      <3>4. CASE Rejected(f)
        BY <3>4, FailPassType DEF Rejected, TypeOK
      <3> QED  BY <2>7, <3>1, <3>2, <3>3, <3>4 DEF FlowFailure
    <2>8. CASE ServerTakes
      <3>1. PICK q \in wire :
              /\ q.at < Len(q.rows)
              /\ store' = IF q.rows[q.at + 1] \in Elems(store[q.key]) THEN store
                          ELSE [store EXCEPT ![q.key] = Append(@, q.rows[q.at + 1])]
              /\ wire' = (wire \ {q}) \cup {[q EXCEPT !.at = @ + 1]}
              /\ UNCHANGED <<db, minted, keys, flow, inst, current>>
        BY <2>8 DEF ServerTakes
      <3>2. q \in Request  BY DEF TypeOK
      <3>3. [q EXCEPT !.at = @ + 1] \in Request  BY <3>2 DEF Request
      <3>4. q.rows[q.at + 1] \in Entries  BY <3>1, <3>2, ElementOfSeq DEF Request
      <3>5. store' \in [1..MaxKeys -> Seq(Entries)]
        <4>1. CASE store' = store  BY <4>1 DEF TypeOK
        <4>2. CASE store' = [store EXCEPT ![q.key] = Append(@, q.rows[q.at + 1])]
          <5> DEFINE a == Append(store[q.key], q.rows[q.at + 1])
          <5>1. q.key \in 1..MaxKeys => a \in Seq(Entries)  BY <3>4 DEF TypeOK
          <5>2. store' = [store EXCEPT ![q.key] = a]  BY <4>2
          <5> HIDE DEF a
          <5> QED  BY <5>1, <5>2 DEF TypeOK
        <4> QED  BY <3>1, <4>1, <4>2
      <3> QED  BY <3>1, <3>3, <3>5 DEF TypeOK, db
    <2>9. CASE ReplaceInstance
      <3>1. FreshInst \in Inst  BY DEF FreshInst, Inst
      <3> QED  BY <2>9, <3>1 DEF ReplaceInstance, TypeOK, db
    <2>10. CASE Crash \/ Reopen
      <3>1. PICK img \in Image : Reload(img)
        BY <2>10 DEF Crash, Reopen, TypeOK, Image
      <3>2. wire' \subseteq Request  BY <3>1, GiveUpType DEF Reload
      <3>3. \A i \in Insts : IdleFlow(i) \in Flow  BY DEF IdleFlow, Flow
      <3>4. FreshInst \in Inst  BY DEF FreshInst, Inst
      <3> QED  BY <3>1, <3>2, <3>3, <3>4 DEF Reload, TypeOK, Image
    <2>11. CASE UNCHANGED vars
      BY <2>11 DEF vars, TypeOK
    <2> QED
      BY <2>1, <2>2, <2>3, <2>4, <2>5, <2>6, <2>7, <2>8, <2>9, <2>10, <2>11
         DEF Next, FlowStep
  <1> QED  BY <1>1, <1>2, PTL DEF Spec
-----------------------------------------------------------------------------
(* No entry is lost. *)

\* What the server holds under key k, 0 being no key at all.
HeldUnder(k) == IF k = 0 THEN {} ELSE Elems(store[k])

\* Every row at or below cursor c of trail t is held under key k.
Covered(t, c, k) == c <= Len(t) /\ \A n \in 1..c : t[n] \in HeldUnder(k)

\* The memory image and the disk image are each covered by their own key, so
\* the same holds after a reload.
MemoryCovered == Covered(trail, cursor, key)
DiskCovered == Covered(disk.trail, disk.cursor, disk.key)

\* The server holds what it took of a request.
TakenIsHeld ==
    \A q \in wire :
      /\ q.key # 0 /\ q.at <= Len(q.rows)
      /\ \A n \in 1..q.at : q.rows[n] \in HeldUnder(q.key)

\* A drain waiting for an answer has sent rows that exist, and the server holds
\* all rows before them, whatever other drains do to the cursor meanwhile.
FlowBase ==
    \A f \in Flows :
      /\ flow[f].pc \in {"ensure", "append"} => key # 0
      /\ flow[f].pc = "append" =>
           Covered(trail, flow[f].first - 1, key) /\ flow[f].first >= 1
             /\ flow[f].first <= flow[f].last /\ flow[f].last <= Len(trail)

\* A request with a reader carries exactly the rows its reader waits for.
WireMatchesFlow ==
    \A q \in wire : q.to # NoFlow =>
      /\ flow[q.to].pc = "append"
      /\ q.key = key
      /\ Len(q.rows) = flow[q.to].last - flow[q.to].first + 1
      /\ \A n \in 1..Len(q.rows) : q.rows[n] = trail[flow[q.to].first + n - 1]

OneRequest == \A p, q \in wire : p.to = q.to /\ p.to # NoFlow => p = q

LoseInv ==
    /\ TypeOK /\ MemoryCovered /\ DiskCovered /\ TakenIsHeld
    /\ FlowBase /\ WireMatchesFlow /\ OneRequest

\* A disk whose cursor was covered has one that is covered after a write.
LEMMA PersistInv ==
    ASSUME DiskCovered, MemoryCovered', store' = store, Persist
    PROVE  DiskCovered'
  <1>1. CASE disk' = [trail |-> trail', cursor |-> cursor', key |-> key']
    BY <1>1 DEF DiskCovered, MemoryCovered, Covered, HeldUnder
  <1>2. CASE disk' = disk
    BY <1>2 DEF DiskCovered, Covered, HeldUnder
  <1> QED  BY <1>1, <1>2 DEF Persist

\* Minting a key disturbs nothing: without a key no row counts as confirmed.
LEMMA EnsureKeyInv ==
    ASSUME LoseInv, EnsureProjectKey, store' = store
    PROVE  /\ key' \in 1..MaxKeys /\ (key # 0 => key' = key) /\ trail' = trail
           /\ cursor' = cursor /\ MemoryCovered' /\ DiskCovered'
  <1>1. key' \in 1..MaxKeys  BY EnsureKeyType DEF LoseInv
  <1>2. (key # 0 => key' = key) /\ trail' = trail /\ cursor' = cursor
    BY DEF EnsureProjectKey
  <1>3. MemoryCovered'
    <2>1. CASE key # 0
      BY <2>1, <1>2 DEF LoseInv, MemoryCovered, Covered, HeldUnder
    <2>2. CASE key = 0
      <3>1. cursor = 0  BY <2>2 DEF LoseInv, TypeOK, MemoryCovered, Covered, HeldUnder
      <3> QED  BY <3>1, <1>2 DEF LoseInv, TypeOK, MemoryCovered, Covered
    <2> QED  BY <2>1, <2>2
  <1>4. DiskCovered'
    <2>1. CASE disk' = disk  BY <2>1 DEF LoseInv, DiskCovered, Covered, HeldUnder
    <2>2. CASE Persist  BY <2>2, <1>3, PersistInv DEF LoseInv
    <2> QED  BY <2>1, <2>2 DEF EnsureProjectKey
  <1> QED  BY <1>1, <1>2, <1>3, <1>4

\* Entering the loop from row c, itself covered, leaves the drains consistent:
\* the pass ends, or one new request carries the rows from c + 1 on.
LEMMA NextBatchInv ==
    ASSUME LoseInv, NEW f \in Flows, NEW i \in Insts, NEW c \in Nat, NEW r \in Inst,
           NEW w \in SUBSET wire, \A q \in w : q.to # f,
           NextBatch(f, i, c, r, w), trail' = trail, store' = store,
           key' \in 1..MaxKeys, key # 0 => key' = key,
           c < Len(trail) => Covered(trail, c, key')
    PROVE  TakenIsHeld' /\ FlowBase' /\ WireMatchesFlow' /\ OneRequest'
  <1>1. \A q \in w : q.to # NoFlow => q.to \in Flows /\ q.to # f /\ key # 0
    <2> SUFFICES ASSUME NEW q \in w, q.to # NoFlow PROVE q.to \in Flows /\ key # 0
      OBVIOUS
    <2>1. q.to \in Flows  BY DEF LoseInv, TypeOK, Request
    <2>2. flow[q.to].pc = "append"  BY DEF LoseInv, WireMatchesFlow
    <2> QED  BY <2>1, <2>2 DEF LoseInv, FlowBase
  <1>2. \A g \in Flows : flow[g].pc \in {"ensure", "append"} => key' = key
    BY DEF LoseInv, FlowBase
  <1>3. CASE c >= Len(trail)
    <2>1. /\ flow' = [flow EXCEPT ![f] = [IdleFlow(i) EXCEPT !.pc = "return"]]
          /\ wire' = w
      BY <1>3 DEF NextBatch
    <2>2. \A g \in Flows : g # f => flow'[g] = flow[g]  BY <2>1 DEF LoseInv, TypeOK
    <2>3. flow'[f].pc = "return"  BY <2>1 DEF LoseInv, TypeOK, IdleFlow
    <2>4. TakenIsHeld'  BY <2>1 DEF LoseInv, TakenIsHeld, HeldUnder
    <2>5. FlowBase'
      BY <2>2, <2>3, <1>2 DEF LoseInv, FlowBase, Covered, HeldUnder
    <2>6. WireMatchesFlow'
      BY <2>1, <2>2, <1>1 DEF LoseInv, WireMatchesFlow
    <2>7. OneRequest'  BY <2>1 DEF LoseInv, OneRequest
    <2> QED  BY <2>4, <2>5, <2>6, <2>7
  <1>4. CASE c < Len(trail)
    <2> DEFINE new == [to |-> f, key |-> key', at |-> 0, rows |-> SubSeq(trail, c + 1, BatchEnd(c))]
    <2>1. /\ flow' = [flow EXCEPT ![f] = [pc |-> "append", inst |-> i, first |-> c + 1,
                                          last |-> BatchEnd(c), stopped |-> FALSE]]
          /\ wire' = w \cup {new}
      BY <1>4 DEF NextBatch, LoseInv, TypeOK
    <2>2. \A g \in Flows : g # f => flow'[g] = flow[g]  BY <2>1 DEF LoseInv, TypeOK
    <2>3. /\ flow'[f].pc = "append" /\ flow'[f].first = c + 1 /\ flow'[f].last = BatchEnd(c)
      BY <2>1 DEF LoseInv, TypeOK
    <2>4. /\ BatchEnd(c) \in Nat /\ c + 1 <= BatchEnd(c) /\ BatchEnd(c) <= Len(trail)
      BY <1>4, BatchEndBounds DEF LoseInv, TypeOK
    <2>5. /\ new.to = f /\ new.key = key' /\ new.at = 0
          /\ Len(new.rows) = BatchEnd(c) - c
          /\ \A n \in 1..Len(new.rows) : new.rows[n] = trail[c + n]
      BY <1>4, BatchRows DEF LoseInv, TypeOK
    <2> HIDE DEF new
    <2>6. TakenIsHeld'
      <3>1. \A q \in w : /\ q.key # 0 /\ q.at <= Len(q.rows)
                         /\ \A n \in 1..q.at : q.rows[n] \in HeldUnder(q.key)'
        BY DEF LoseInv, TakenIsHeld, HeldUnder
      <3>2. new.key # 0 /\ new.at <= Len(new.rows) /\ 1..new.at = {}
        BY <2>4, <2>5
      <3> QED  BY <2>1, <3>1, <3>2 DEF TakenIsHeld
    <2>7. FlowBase'
      <3>1. Covered(trail, c, key)'  BY <1>4 DEF Covered, HeldUnder
      <3> QED
        BY <2>2, <2>3, <2>4, <3>1, <1>2 DEF LoseInv, FlowBase, Covered, HeldUnder
    <2>8. WireMatchesFlow'
      <3> SUFFICES ASSUME NEW q \in wire', q.to # NoFlow
                   PROVE  /\ flow'[q.to].pc = "append"
                          /\ q.key = key'
                          /\ Len(q.rows) = flow'[q.to].last - flow'[q.to].first + 1
                          /\ \A n \in 1..Len(q.rows) : q.rows[n] = trail[flow'[q.to].first + n - 1]
        BY DEF WireMatchesFlow
      <3>1. CASE q \in w
        BY <3>1, <2>2, <1>1 DEF LoseInv, WireMatchesFlow
      <3>2. CASE q = new
        BY SMTT(30), <3>2, <2>3, <2>4, <2>5
      <3> QED  BY <2>1, <3>1, <3>2
    <2>9. OneRequest'
      BY <2>1, <2>5 DEF LoseInv, OneRequest
    <2> QED  BY <2>6, <2>7, <2>8, <2>9
  <1> QED  BY <1>3, <1>4 DEF LoseInv, TypeOK

\* A pass begins without disturbing what is covered.
LEMMA BeginPassInv ==
    ASSUME LoseInv, NEW f \in Flows, NEW i \in Insts, flow[f].pc \in {"idle", "return"},
           BeginPass(f, i), store' = store
    PROVE  /\ MemoryCovered' /\ DiskCovered' /\ TakenIsHeld'
           /\ FlowBase' /\ WireMatchesFlow' /\ OneRequest'
  <1> DEFINE r == [inst[i] EXCEPT !.rerun = FALSE, !.running = TRUE]
  <1>1. r \in Inst  BY DEF LoseInv, TypeOK, Inst
  <1>2. /\ key' \in 1..MaxKeys /\ (key # 0 => key' = key) /\ trail' = trail
        /\ cursor' = cursor /\ MemoryCovered' /\ DiskCovered'
    BY EnsureKeyInv DEF BeginPass
  <1>3. \A q \in wire : q.to # f
    BY DEF LoseInv, WireMatchesFlow, TypeOK
  <1>4. CASE r.registered
    <2>1. NextBatch(f, i, cursor, r, wire)  BY <1>4 DEF BeginPass
    <2>2. cursor \in Nat /\ Covered(trail, cursor, key')
      BY <1>2 DEF LoseInv, TypeOK, MemoryCovered, Covered, HeldUnder
    <2> HIDE DEF r
    <2> QED  BY <1>1, <1>2, <1>3, <2>1, <2>2, NextBatchInv
  <1>5. CASE ~r.registered
    <2>1. /\ flow' = [flow EXCEPT ![f] = [IdleFlow(i) EXCEPT !.pc = "ensure"]]
          /\ wire' = wire
      BY <1>5 DEF BeginPass
    <2>2. \A g \in Flows : g # f => flow'[g] = flow[g]  BY <2>1 DEF LoseInv, TypeOK
    <2>3. flow'[f].pc = "ensure"  BY <2>1 DEF LoseInv, TypeOK, IdleFlow
    <2>4. TakenIsHeld'  BY <2>1 DEF LoseInv, TakenIsHeld, HeldUnder
    <2>5. FlowBase'
      BY <1>2, <2>2, <2>3 DEF LoseInv, FlowBase, Covered, HeldUnder
    <2>6. WireMatchesFlow'
      <3>1. \A q \in wire : q.to # NoFlow => q.to \in Flows /\ q.to # f /\ key' = key
        BY <1>2, <1>3 DEF LoseInv, TypeOK, Request, WireMatchesFlow, FlowBase
      <3> QED  BY <1>2, <2>1, <2>2, <3>1 DEF LoseInv, WireMatchesFlow
    <2>7. OneRequest'  BY <2>1 DEF LoseInv, OneRequest
    <2> QED  BY <1>2, <2>4, <2>5, <2>6, <2>7
  <1> QED  BY <1>4, <1>5

\* A drain that gives its request up disturbs nothing: a request without a
\* reader confirms nothing.
LEMMA DropFlowInv ==
    ASSUME LoseInv, NEW f \in Flows, NEW b,
           UNCHANGED <<trail, cursor, key, store>>, Persist,
           flow' = [flow EXCEPT ![f] = b], b.pc \in {"idle", "return"},
           \A q \in wire' : \/ q \in wire /\ q.to # f
                            \/ \E p \in wire : q = [p EXCEPT !.to = NoFlow]
    PROVE  /\ MemoryCovered' /\ DiskCovered' /\ TakenIsHeld'
           /\ FlowBase' /\ WireMatchesFlow' /\ OneRequest'
  <1>1. \A g \in Flows : g # f => flow'[g] = flow[g]  BY DEF LoseInv, TypeOK
  <1>2. flow'[f].pc \in {"idle", "return"}  BY DEF LoseInv, TypeOK
  <1>3. MemoryCovered'  BY DEF LoseInv, MemoryCovered, Covered, HeldUnder
  <1>4. DiskCovered'  BY <1>3, PersistInv DEF LoseInv
  <1>5. \A q \in wire' : q.to # NoFlow => q \in wire /\ q.to \in Flows /\ q.to # f
    BY DEF LoseInv, TypeOK, Request
  <1>6. \A q \in wire' : \E p \in wire : q.key = p.key /\ q.at = p.at /\ q.rows = p.rows
    <2> SUFFICES ASSUME NEW q \in wire'
                 PROVE  \E p \in wire : q.key = p.key /\ q.at = p.at /\ q.rows = p.rows
      OBVIOUS
    <2>1. CASE q \in wire  BY <2>1
    <2>2. CASE \E p \in wire : q = [p EXCEPT !.to = NoFlow]
      BY <2>2 DEF LoseInv, TypeOK, Request
    <2> QED  BY <2>1, <2>2
  <1>7. TakenIsHeld'  BY <1>6 DEF LoseInv, TakenIsHeld, HeldUnder
  <1>8. FlowBase'  BY <1>1, <1>2 DEF LoseInv, FlowBase, Covered, HeldUnder
  <1>9. WireMatchesFlow'  BY <1>1, <1>5 DEF LoseInv, WireMatchesFlow
  <1>10. OneRequest'  BY <1>5 DEF LoseInv, OneRequest
  <1> QED  BY <1>3, <1>4, <1>7, <1>8, <1>9, <1>10

\* A pass that fails leaves the cursor where it was.
LEMMA FailPassInv ==
    ASSUME LoseInv, NEW f \in Flows, NEW permanent, FailPass(f, permanent),
           \A q \in wire' : \/ q \in wire /\ q.to # f
                            \/ \E p \in wire : q = [p EXCEPT !.to = NoFlow]
    PROVE  /\ MemoryCovered' /\ DiskCovered' /\ TakenIsHeld'
           /\ FlowBase' /\ WireMatchesFlow' /\ OneRequest'
  <1> DEFINE n == IF permanent THEN MaxFailures ELSE inst[flow[f].inst].fails + 1
             b == [IdleFlow(flow[f].inst) EXCEPT !.pc = "return", !.stopped = (n >= MaxFailures)]
  <1>1. /\ flow' = [flow EXCEPT ![f] = b]
        /\ UNCHANGED <<trail, cursor, key, store>> /\ Persist
    BY DEF FailPass
  <1> HIDE DEF n
  <1>2. b.pc = "return"  BY DEF IdleFlow
  <1> HIDE DEF b
  <1> QED  BY <1>1, <1>2, DropFlowInv

\* The place of row n in a batch that begins at row a and ends at row b.
LEMMA Position ==
    ASSUME NEW a \in Nat \ {0}, NEW b \in Nat, NEW n \in 1..b, n >= a
    PROVE  n - a + 1 \in 1..(b - a + 1) /\ a + (n - a + 1) - 1 = n
  OBVIOUS

\* An answer in full confirms the batch: what the server took is held, and what
\* it took is the rows the drain waits for.
LEMMA AppendConfirmedInv ==
    ASSUME LoseInv, NEW f \in Flows, AppendConfirmed(f)
    PROVE  /\ MemoryCovered' /\ DiskCovered' /\ TakenIsHeld'
           /\ FlowBase' /\ WireMatchesFlow' /\ OneRequest'
  <1> DEFINE r == [inst[flow[f].inst] EXCEPT !.fails = 0]
  <1>1. PICK q \in wire :
          /\ q.to = f /\ q.at = Len(q.rows)
          /\ cursor' = flow[f].last /\ UNCHANGED <<trail, key>> /\ Persist
          /\ NextBatch(f, flow[f].inst, LoopFrom(f), r, wire \ {q})
          /\ UNCHANGED <<minted, keys, store, current>>
          /\ flow[f].pc = "append"
    BY DEF AppendConfirmed
  <1>2. /\ flow[f].inst \in Insts /\ flow[f].last \in Nat /\ flow[f].first \in Nat
        /\ trail \in Seq(Entries) /\ key \in 0..MaxKeys /\ q.at \in Nat
        /\ Len(q.rows) \in Nat
    BY DEF LoseInv, TypeOK, Flow, Request
  <1>15. r \in Inst  BY <1>2, InstUpdate DEF LoseInv, TypeOK
  <1>3. f # NoFlow  OBVIOUS
  <1>4. /\ key # 0 /\ Covered(trail, flow[f].first - 1, key) /\ flow[f].first >= 1
        /\ flow[f].first <= flow[f].last /\ flow[f].last <= Len(trail)
    BY <1>1 DEF LoseInv, FlowBase
  <1>5. /\ q.key = key /\ Len(q.rows) = flow[f].last - flow[f].first + 1
        /\ \A n \in 1..Len(q.rows) : q.rows[n] = trail[flow[f].first + n - 1]
    BY <1>1, <1>3 DEF LoseInv, WireMatchesFlow
  <1>6. \A n \in 1..Len(q.rows) : q.rows[n] \in HeldUnder(key)
    BY <1>1, <1>5 DEF LoseInv, TakenIsHeld
  <1>7. Covered(trail, flow[f].last, key)
    <2> SUFFICES ASSUME NEW n \in 1..flow[f].last PROVE trail[n] \in HeldUnder(key)
      BY <1>4 DEF Covered
    <2>1. CASE n < flow[f].first
      BY <2>1, <1>2, <1>4 DEF Covered
    <2>2. CASE n >= flow[f].first
      <3> DEFINE m == n - flow[f].first + 1
      <3>1. m \in 1..Len(q.rows) /\ flow[f].first + m - 1 = n
        BY SMTT(30), <2>2, <1>2, <1>4, <1>5, Position
      <3>2. q.rows[m] = trail[flow[f].first + m - 1]  BY <3>1, <1>5
      <3> QED  BY <3>1, <3>2, <1>6
    <2> QED  BY <2>1, <2>2, <1>2
  <1>8. MemoryCovered'
    BY <1>1, <1>7 DEF MemoryCovered, Covered, HeldUnder
  <1>9. DiskCovered'  BY <1>1, <1>8, PersistInv DEF LoseInv
  <1>10. LoopFrom(f) \in Nat /\ (LoopFrom(f) < Len(trail) => LoopFrom(f) = flow[f].last)
    BY <1>2 DEF LoopFrom
  <1>11. \A p \in wire \ {q} : p.to # f
    BY <1>1, <1>3 DEF LoseInv, OneRequest
  <1>12. LoopFrom(f) < Len(trail) => Covered(trail, LoopFrom(f), key')
    BY <1>1, <1>7, <1>10
  <1>13. key' \in 1..MaxKeys  BY <1>1, <1>2, <1>4
  <1> HIDE DEF r
  <1>14. TakenIsHeld' /\ FlowBase' /\ WireMatchesFlow' /\ OneRequest'
    BY <1>1, <1>2, <1>10, <1>11, <1>12, <1>13, <1>15, NextBatchInv
  <1> QED  BY <1>8, <1>9, <1>14

\* The server's trails only grow, so whatever was held stays held.
LEMMA ServerTakesInv ==
    ASSUME LoseInv, ServerTakes
    PROVE  /\ MemoryCovered' /\ DiskCovered' /\ TakenIsHeld'
           /\ FlowBase' /\ WireMatchesFlow' /\ OneRequest'
  <1>1. PICK q \in wire :
          /\ q.at < Len(q.rows)
          /\ store' = IF q.rows[q.at + 1] \in Elems(store[q.key]) THEN store
                      ELSE [store EXCEPT ![q.key] = Append(@, q.rows[q.at + 1])]
          /\ wire' = (wire \ {q}) \cup {[q EXCEPT !.at = @ + 1]}
          /\ UNCHANGED <<db, minted, keys, flow, inst, current>>
    BY DEF ServerTakes
  <1>2. /\ q.key \in 1..MaxKeys /\ q.at \in Nat /\ q.rows \in Seq(Entries)
        /\ q.rows[q.at + 1] \in Entries
    <2>1. /\ q.key \in 1..MaxKeys /\ q.at \in Nat /\ q.rows \in Seq(Entries)
      BY DEF LoseInv, TypeOK, Request, TakenIsHeld
    <2> QED  BY <1>1, <2>1, ElementOfSeq
  <1> DEFINE e == q.rows[q.at + 1]
             new == [q EXCEPT !.at = @ + 1]
  <1>3. /\ \A k \in 1..MaxKeys : Elems(store[k]) \subseteq Elems(store'[k])
        /\ e \in Elems(store'[q.key])
    <2>1. CASE e \in Elems(store[q.key])  BY <2>1, <1>1
    <2>2. CASE e \notin Elems(store[q.key])
      <3>1. store' = [store EXCEPT ![q.key] = Append(store[q.key], e)]  BY <2>2, <1>1
      <3>2. Elems(Append(store[q.key], e)) = Elems(store[q.key]) \cup {e}
        BY <1>2, ElemsAppend DEF LoseInv, TypeOK
      <3> HIDE DEF e
      <3>3. \A k \in 1..MaxKeys : store'[k] = IF k = q.key THEN Append(store[q.key], e) ELSE store[k]
        BY <3>1, <1>2 DEF LoseInv, TypeOK
      <3> QED  BY <3>2, <3>3, <1>2
    <2> QED  BY <2>1, <2>2
  <1>4. \A k \in 0..MaxKeys : HeldUnder(k) \subseteq HeldUnder(k)'
    BY <1>3 DEF HeldUnder
  <1>11. wire' = (wire \ {q}) \cup {new}  BY <1>1
  <1>5. /\ new.to = q.to /\ new.key = q.key /\ new.rows = q.rows /\ new.at = q.at + 1
    BY DEF LoseInv, TypeOK, Request
  <1> HIDE DEF new
  <1>6. MemoryCovered' /\ DiskCovered'
    BY <1>1, <1>4 DEF LoseInv, TypeOK, Image, MemoryCovered, DiskCovered, Covered, db
  <1>7. TakenIsHeld'
    <2>1. \A p \in wire : p.key \in 1..MaxKeys  BY DEF LoseInv, TypeOK, Request, TakenIsHeld
    <2>2. \A p \in wire : \A n \in 1..p.at : p.rows[n] \in HeldUnder(p.key)'
      BY <2>1, <1>4 DEF LoseInv, TakenIsHeld
    <2>3. \A n \in 1..new.at : new.rows[n] \in HeldUnder(new.key)'
      <3> SUFFICES ASSUME NEW n \in 1..(q.at + 1) PROVE q.rows[n] \in HeldUnder(q.key)'
        BY <1>5
      <3>1. CASE n = q.at + 1  BY <3>1, <1>2, <1>3 DEF HeldUnder
      <3>2. CASE n # q.at + 1  BY <3>2, <2>2, <1>2
      <3> QED  BY <3>1, <3>2
    <2>4. new.at <= Len(new.rows)  BY <1>1, <1>2, <1>5
    <2> QED  BY <1>2, <1>5, <1>11, <2>1, <2>2, <2>3, <2>4 DEF LoseInv, TakenIsHeld
  <1>8. FlowBase'
    BY <1>1, <1>4 DEF LoseInv, TypeOK, FlowBase, Covered, db
  <1>9. WireMatchesFlow'
    BY SMTT(30), <1>1, <1>5, <1>11 DEF LoseInv, WireMatchesFlow, db
  <1>10. OneRequest'
    BY <1>5, <1>11 DEF LoseInv, OneRequest
  <1> QED  BY <1>6, <1>7, <1>8, <1>9, <1>10

\* Reloading either image keeps the invariant: both are covered.
LEMMA ReloadInv ==
    ASSUME LoseInv, NEW img, Covered(img.trail, img.cursor, img.key), Reload(img)
    PROVE  /\ MemoryCovered' /\ DiskCovered' /\ TakenIsHeld'
           /\ FlowBase' /\ WireMatchesFlow' /\ OneRequest'
  <1>1. /\ trail' = img.trail /\ cursor' = img.cursor /\ key' = img.key /\ disk' = img
        /\ store' = store /\ GiveUp(Flows)
        /\ flow' = [f \in Flows |-> IdleFlow(current)]
    BY DEF Reload
  <1>2. \A f \in Flows : flow'[f].pc = "idle"  BY <1>1 DEF IdleFlow
  <1>3. \A q \in wire' : \E p \in wire : q.to = NoFlow /\ q.key = p.key /\ q.at = p.at /\ q.rows = p.rows
    <2> SUFFICES ASSUME NEW q \in wire'
                 PROVE  \E p \in wire : q.to = NoFlow /\ q.key = p.key /\ q.at = p.at /\ q.rows = p.rows
      OBVIOUS
    <2>1. CASE q \in wire /\ q.to \notin Flows  BY <2>1 DEF LoseInv, TypeOK, Request
    <2>2. CASE \E p \in wire : q = [p EXCEPT !.to = NoFlow]
      BY <2>2 DEF LoseInv, TypeOK, Request
    <2> QED  BY <1>1, <2>1, <2>2, GiveUpRequests
  <1>4. MemoryCovered' /\ DiskCovered'
    BY <1>1 DEF MemoryCovered, DiskCovered, Covered, HeldUnder
  <1>5. TakenIsHeld'  BY <1>1, <1>3 DEF LoseInv, TakenIsHeld, HeldUnder
  <1>6. FlowBase'  BY <1>2 DEF FlowBase
  <1>7. WireMatchesFlow' /\ OneRequest'  BY <1>3 DEF WireMatchesFlow, OneRequest
  <1> QED  BY <1>4, <1>5, <1>6, <1>7

\* The inductive invariant behind NeverLose: also the image on disk, which a
\* crash brings back, and every batch in flight are accounted for.
THEOREM LoseInvariant == Spec => []LoseInv
  <1>1. Init => LoseInv
    <2> SUFFICES ASSUME Init PROVE LoseInv  OBVIOUS
    <2>1. \A i \in Insts : IdleFlow(i) \in Flow /\ IdleFlow(i).pc = "idle"
      BY DEF IdleFlow, Flow
    <2>2. FreshInst \in Inst  BY DEF FreshInst, Inst
    <2>3. TypeOK  BY <2>1, <2>2 DEF Init, TypeOK, Image
    <2>4. MemoryCovered /\ DiskCovered
      BY DEF Init, MemoryCovered, DiskCovered, Covered
    <2>5. TakenIsHeld /\ FlowBase /\ WireMatchesFlow /\ OneRequest
      BY <2>1 DEF Init, TakenIsHeld, FlowBase, WireMatchesFlow, OneRequest
    <2> QED  BY <2>3, <2>4, <2>5 DEF LoseInv
  <1>2. LoseInv /\ [Next]_vars /\ TypeOK' => LoseInv'
    <2> SUFFICES ASSUME LoseInv, [Next]_vars, TypeOK'
                 PROVE  /\ MemoryCovered' /\ DiskCovered' /\ TakenIsHeld'
                        /\ FlowBase' /\ WireMatchesFlow' /\ OneRequest'
      BY DEF LoseInv
    <2>1. CASE RecordEvent
      <3>1. /\ trail' = Append(trail, minted') /\ Len(trail') = Len(trail) + 1
            /\ \A n \in 1..Len(trail) : trail'[n] = trail[n]
            /\ UNCHANGED <<cursor, key, store, wire, flow>> /\ Persist
        BY <2>1 DEF RecordEvent, LoseInv, TypeOK
      <3>2. MemoryCovered'
        BY <3>1 DEF LoseInv, TypeOK, MemoryCovered, Covered, HeldUnder
      <3>3. DiskCovered'  BY <3>1, <3>2, PersistInv DEF LoseInv
      <3>4. TakenIsHeld' /\ OneRequest'
        BY <3>1 DEF LoseInv, TakenIsHeld, OneRequest, HeldUnder
      <3>5. FlowBase'
        BY <3>1 DEF LoseInv, TypeOK, Flow, FlowBase, Covered, HeldUnder
      <3>6. WireMatchesFlow'
        <4> SUFFICES ASSUME NEW q \in wire, q.to # NoFlow, NEW n \in 1..Len(q.rows)
                     PROVE  q.rows[n] = trail'[flow[q.to].first + n - 1]
          BY <3>1 DEF LoseInv, WireMatchesFlow
        <4>1. /\ q.to \in Flows /\ flow[q.to].pc = "append"
              /\ Len(q.rows) = flow[q.to].last - flow[q.to].first + 1
              /\ q.rows[n] = trail[flow[q.to].first + n - 1]
          BY DEF LoseInv, TypeOK, Request, WireMatchesFlow
        <4>2. /\ flow[q.to].first \in Nat /\ flow[q.to].last \in Nat
              /\ flow[q.to].first >= 1 /\ flow[q.to].last <= Len(trail)
          BY <4>1 DEF LoseInv, TypeOK, Flow, FlowBase
        <4>4. Len(trail) \in Nat /\ n \in Nat /\ n >= 1 /\ n <= Len(q.rows)
          BY <4>1, <4>2 DEF LoseInv, TypeOK
        <4>3. flow[q.to].first + n - 1 \in 1..Len(trail)
          BY <4>1, <4>2, <4>4
        <4> QED  BY <3>1, <4>1, <4>3
      <3> QED  BY <3>2, <3>3, <3>4, <3>5, <3>6
    <2>2. CASE UNCHANGED <<trail, cursor, key, disk, store, wire, flow>>
      BY <2>2 DEF LoseInv, MemoryCovered, DiskCovered, Covered, HeldUnder, TakenIsHeld,
                  FlowBase, WireMatchesFlow, OneRequest
    <2>3. ASSUME NEW f \in Flows, FlushStart(f)
          PROVE  /\ MemoryCovered' /\ DiskCovered' /\ TakenIsHeld'
                 /\ FlowBase' /\ WireMatchesFlow' /\ OneRequest'
      BY <2>3, BeginPassInv DEF FlushStart, LoseInv, TypeOK
    <2>4. ASSUME NEW f \in Flows, EnsureProjectDone(f)
          PROVE  /\ MemoryCovered' /\ DiskCovered' /\ TakenIsHeld'
                 /\ FlowBase' /\ WireMatchesFlow' /\ OneRequest'
      <3> DEFINE r == [inst[flow[f].inst] EXCEPT !.registered = TRUE]
      <3>1. flow[f].inst \in Insts  BY DEF LoseInv, TypeOK, Flow
      <3>2. r \in Inst  BY <3>1, InstUpdate DEF LoseInv, TypeOK
      <3>3. /\ NextBatch(f, flow[f].inst, cursor, r, wire)
            /\ flow[f].pc = "ensure"
            /\ UNCHANGED <<trail, cursor, key, disk, store>>
        BY <2>4 DEF EnsureProjectDone, db
      <3>4. \A q \in wire : q.to # f  BY <3>3 DEF LoseInv, WireMatchesFlow, TypeOK
      <3>5. cursor \in Nat /\ key' \in 1..MaxKeys /\ Covered(trail, cursor, key')
        BY <3>3 DEF LoseInv, TypeOK, FlowBase, MemoryCovered
      <3>6. MemoryCovered' /\ DiskCovered'
        BY <3>3 DEF LoseInv, MemoryCovered, DiskCovered, Covered, HeldUnder
      <3> HIDE DEF r
      <3> QED  BY <3>1, <3>2, <3>3, <3>4, <3>5, <3>6, NextBatchInv
    <2>5. ASSUME NEW f \in Flows, PassReturned(f)
          PROVE  /\ MemoryCovered' /\ DiskCovered' /\ TakenIsHeld'
                 /\ FlowBase' /\ WireMatchesFlow' /\ OneRequest'
      <3>1. flow[f].inst \in Insts  BY DEF LoseInv, TypeOK, Flow
      <3>2. CASE BeginPass(f, flow[f].inst)
        BY <2>5, <3>1, <3>2, BeginPassInv DEF PassReturned
      <3>3. CASE /\ flow' = [flow EXCEPT ![f] = IdleFlow(flow[f].inst)]
                 /\ UNCHANGED <<db, keys, wire, inst>>
        <4> DEFINE b == IdleFlow(flow[f].inst)
        <4>1. b.pc = "idle"  BY DEF IdleFlow
        <4>2. flow[f].pc = "return" /\ store' = store  BY <2>5 DEF PassReturned
        <4>3. \A g \in Flows : g # f => flow'[g] = flow[g]  BY <3>3 DEF LoseInv, TypeOK
        <4>4. flow'[f].pc = "idle"  BY <3>3, <4>1 DEF LoseInv, TypeOK
        <4>5. \A q \in wire : q.to # NoFlow => q.to \in Flows /\ q.to # f
          BY <4>2 DEF LoseInv, TypeOK, Request, WireMatchesFlow
        <4>6. MemoryCovered' /\ DiskCovered' /\ TakenIsHeld' /\ OneRequest'
          BY <3>3, <4>2 DEF LoseInv, MemoryCovered, DiskCovered, Covered, HeldUnder,
                            TakenIsHeld, OneRequest, db
        <4>7. FlowBase'
          BY <3>3, <4>2, <4>3, <4>4 DEF LoseInv, FlowBase, Covered, HeldUnder, db
        <4>8. WireMatchesFlow'
          BY <3>3, <4>3, <4>5 DEF LoseInv, WireMatchesFlow, db
        <4> QED  BY <4>6, <4>7, <4>8
      <3> QED  BY <2>5, <3>2, <3>3 DEF PassReturned
    <2>6. ASSUME NEW f \in Flows, FlowFailure(f)
          PROVE  /\ MemoryCovered' /\ DiskCovered' /\ TakenIsHeld'
                 /\ FlowBase' /\ WireMatchesFlow' /\ OneRequest'
      <3>1. CASE GiveUp({f}) /\ \E b \in BOOLEAN : FailPass(f, b)
        BY <3>1, GiveUpRequests, FailPassInv
      <3>2. CASE ShortAnswer(f) \/ Rejected(f)
        <4>1. PICK b \in BOOLEAN : FailPass(f, b)  BY <3>2 DEF ShortAnswer, Rejected
        <4>2. \A q \in wire' : q \in wire /\ q.to # f
          <5>1. CASE wire' = wire /\ flow[f].pc = "ensure"
            BY <5>1 DEF LoseInv, TypeOK, WireMatchesFlow
          <5>2. CASE \E q \in wire : q.to = f /\ wire' = wire \ {q}
            BY <5>2 DEF LoseInv, OneRequest
          <5> QED  BY <3>2, <5>1, <5>2 DEF ShortAnswer, Rejected
        <4> QED  BY <4>1, <4>2, FailPassInv
      <3> QED
        BY <2>6, <3>1, <3>2 DEF FlowFailure, RetryableFailure, UnlistedTransportFailure
    <2>7. CASE Crash \/ Reopen
      <3>1. CASE Crash  BY <3>1, ReloadInv DEF Crash, LoseInv, DiskCovered
      <3>2. CASE Reopen
        <4> DEFINE img == [trail |-> trail, cursor |-> cursor, key |-> key]
        <4>1. Covered(img.trail, img.cursor, img.key)  BY DEF LoseInv, MemoryCovered
        <4>2. Reload(img)  BY <3>2 DEF Reopen
        <4> HIDE DEF img
        <4> QED  BY <4>1, <4>2, ReloadInv
      <3> QED  BY <2>7, <3>1, <3>2
    <2>8. CASE FlushWhileRunning \/ ReplaceInstance \/ UNCHANGED vars
      BY <2>2, <2>8 DEF FlushWhileRunning, ReplaceInstance, vars, db
    <2>9. ASSUME NEW f \in Flows, FlowStep(f)
          PROVE  /\ MemoryCovered' /\ DiskCovered' /\ TakenIsHeld'
                 /\ FlowBase' /\ WireMatchesFlow' /\ OneRequest'
      BY <2>4, <2>5, <2>9, AppendConfirmedInv DEF FlowStep
    <2> QED
      BY <2>1, <2>3, <2>6, <2>7, <2>8, <2>9, ServerTakesInv DEF Next
  <1> QED  BY <1>1, <1>2, TypeCorrect, PTL DEF Spec

\* Never lose an entry, for every number of drains and objects, every batch
\* size, and every mixture of faults: a row the cursor has passed is held by
\* the server under the project's key.
THEOREM NeverLoseHolds == Spec => []NeverLose
  <1>1. LoseInv => NeverLose
    BY DEF LoseInv, MemoryCovered, Covered, HeldUnder, NeverLose, Held
  <1> QED  BY <1>1, LoseInvariant, PTL

-----------------------------------------------------------------------------
(* The server's trail is in order, whatever goes wrong; and as long as the *)
(* disk takes every write, the push implements AuditLog.                   *)
(*                                                                         *)
(* A row is minted once, so that the trails a crash and the events after   *)
(* it lead to agree up to any row they share.  A request that was given up *)
(* may carry rows of a trail that is gone; Runs says that those of its     *)
(* rows that are still there come one after the other, from a place up to  *)
(* which the server holds everything.                                      *)

HIDE NoFlowAssumption
HIDE BoundsAssumption
HIDE FailuresAssumption
HIDE BatchAssumption

Rows ==
    /\ \A n \in DOMAIN trail : trail[n] <= minted
    /\ \A n, m \in DOMAIN trail : n < m => trail[n] < trail[m]

\* The image on disk is an earlier one.
Earlier ==
    /\ Len(disk.trail) <= Len(trail) /\ disk.key \in {0, key}
    /\ \A n \in DOMAIN disk.trail : disk.trail[n] = trail[n]

\* Nothing is under a key not minted yet.
KeysUsed ==
    /\ key <= keys /\ \A q \in wire : q.key <= keys
    /\ \A k \in 1..MaxKeys : k > keys => store[k] = <<>>

\* Rows sent and stored were minted.
Old ==
    /\ \A q \in wire : \A n \in DOMAIN q.rows : q.rows[n] <= minted
    /\ \A k \in 1..MaxKeys : \A n \in DOMAIN store[k] : store[k][n] <= minted

Run(q) ==
    \A n \in DOMAIN q.rows, m \in DOMAIN trail : q.rows[n] = trail[m] =>
      \/ n = 1 /\ \A j \in 1..m - 1 : trail[j] \in Held
      \/ n - 1 \in DOMAIN q.rows /\ m - 1 \in DOMAIN trail /\ q.rows[n - 1] = trail[m - 1]

Runs == \A q \in wire : q.key = key => Run(q)

OrderInv == Rows /\ Earlier /\ KeysUsed /\ Old /\ Runs /\ NeverReorder

-----------------------------------------------------------------------------
(* The steps, as far as the order of rows is concerned. *)

\* Requests without a reader were there before.
Inherited ==
    \A q \in wire' : q.to # NoFlow \/ \E p \in wire : p.key = q.key /\ p.rows = q.rows

\* What the drains do: a key may be minted, the cursor may move.
Drains ==
    /\ UNCHANGED <<trail, minted, store>> /\ Inherited
    /\ \/ key' = key /\ keys' = keys
       \/ key = 0 /\ keys < MaxKeys /\ keys' = keys + 1 /\ key' = keys'
    /\ Persist \/ (UNCHANGED <<disk, cursor>> /\ key' = key)

Reloads == \E img \in {disk, [trail |-> trail, cursor |-> cursor, key |-> key]} : Reload(img)

LEMMA Requests ==
    ASSUME TypeOK
    PROVE  /\ \A q \in wire : [q EXCEPT !.to = NoFlow].key = q.key /\ [q EXCEPT !.to = NoFlow].rows = q.rows
           /\ \A q \in wire : q.to \in Flows \cup {NoFlow} /\ q.rows \in Seq(Entries) /\ q.key \in 0..MaxKeys
                              /\ q.at \in Nat
  BY DEF TypeOK, Request

LEMMA GiveUpInherited ==
    ASSUME TypeOK, NEW F, GiveUp(F)
    PROVE  Inherited
  <1> SUFFICES ASSUME NEW q \in wire'
               PROVE  q.to # NoFlow \/ \E p \in wire : p.key = q.key /\ p.rows = q.rows
    BY DEF Inherited
  <1>1. CASE q \in wire  BY <1>1
  <1>2. CASE \E p \in wire : q = [p EXCEPT !.to = NoFlow]
    BY <1>2, Requests
  <1> QED  BY <1>1, <1>2, GiveUpRequests

LEMMA NextBatchInherited ==
    ASSUME TypeOK, NEW f \in Flows, NEW i, NEW c \in Nat, NEW r, NEW w \in SUBSET wire,
           NextBatch(f, i, c, r, w)
    PROVE  Inherited
  <1>1. f # NoFlow  BY NoFlowAssumption
  <1>2. CASE c >= Len(trail)
    BY <1>2 DEF NextBatch, Inherited
  <1>3. CASE c < Len(trail)
    <2> DEFINE new == [to |-> f, key |-> key', at |-> 0, rows |-> SubSeq(trail, c + 1, BatchEnd(c))]
    <2>1. wire' = w \cup {new}
      BY <1>3 DEF NextBatch, TypeOK
    <2>2. new.to = f  OBVIOUS
    <2> HIDE DEF new
    <2> QED  BY <1>1, <2>1, <2>2 DEF Inherited
  <1> QED  BY <1>2, <1>3 DEF TypeOK

LEMMA BeginPassDrains ==
    ASSUME TypeOK, NEW f \in Flows, NEW i \in Insts, BeginPass(f, i), UNCHANGED <<minted, store>>
    PROVE  Drains
  <1>1. EnsureProjectKey  BY DEF BeginPass
  <1>2. Inherited
    <2>1. CASE wire' = wire  BY <2>1 DEF Inherited
    <2>2. CASE \E r : NextBatch(f, i, cursor, r, wire)
      BY <2>2, NextBatchInherited DEF TypeOK
    <2> QED  BY <2>1, <2>2 DEF BeginPass
  <1> QED  BY <1>1, <1>2 DEF EnsureProjectKey, Drains

LEMMA FailPassDrains ==
    ASSUME TypeOK, NEW f \in Flows, NEW b \in BOOLEAN, FailPass(f, b), Inherited
    PROVE  Drains
  BY DEF FailPass, Drains

LEMMA StepShapes ==
    ASSUME TypeOK, [Next]_vars
    PROVE  RecordEvent \/ ServerTakes \/ Reloads \/ Drains
  <1>1. ASSUME NEW f \in Flows, FlushStart(f) PROVE Drains
    BY <1>1, BeginPassDrains DEF FlushStart, TypeOK
  <1>2. ASSUME NEW f \in Flows, EnsureProjectDone(f) PROVE Drains
    <2>1. Inherited
      BY <1>2, NextBatchInherited DEF EnsureProjectDone, TypeOK
    <2> QED  BY <1>2, <2>1 DEF EnsureProjectDone, Drains, db
  <1>3. ASSUME NEW f \in Flows, AppendConfirmed(f) PROVE Drains
    <2>1. PICK q \in wire :
            /\ UNCHANGED <<trail, key>> /\ Persist
            /\ NextBatch(f, flow[f].inst, LoopFrom(f),
                         [inst[flow[f].inst] EXCEPT !.fails = 0], wire \ {q})
            /\ UNCHANGED <<minted, keys, store, current>>
      BY <1>3 DEF AppendConfirmed
    <2>2. LoopFrom(f) \in Nat  BY DEF LoopFrom, TypeOK, Flow
    <2>3. Inherited  BY <2>1, <2>2, NextBatchInherited
    <2> QED  BY <2>1, <2>3 DEF Drains
  <1>4. ASSUME NEW f \in Flows, PassReturned(f) PROVE Drains
    <2>1. flow[f].inst \in Insts  BY DEF TypeOK, Flow
    <2>2. CASE BeginPass(f, flow[f].inst)
      BY <1>4, <2>1, <2>2, BeginPassDrains DEF PassReturned
    <2>3. CASE UNCHANGED <<db, keys, wire, inst>>
      BY <1>4, <2>3 DEF PassReturned, Drains, Inherited, db
    <2> QED  BY <1>4, <2>2, <2>3 DEF PassReturned
  <1>5. ASSUME NEW f \in Flows, FlowFailure(f) PROVE Drains
    <2>1. CASE RetryableFailure(f)
      BY <2>1, GiveUpInherited, FailPassDrains DEF RetryableFailure
    <2>2. CASE UnlistedTransportFailure(f)
      BY <2>2, GiveUpInherited, FailPassDrains DEF UnlistedTransportFailure
    <2>3. CASE ShortAnswer(f) \/ Rejected(f)
      <3>1. Inherited  BY <2>3 DEF ShortAnswer, Rejected, Inherited
      <3> QED  BY <2>3, <3>1, FailPassDrains DEF ShortAnswer, Rejected
    <2> QED  BY <1>5, <2>1, <2>2, <2>3 DEF FlowFailure
  <1>6. CASE FlushWhileRunning \/ ReplaceInstance \/ UNCHANGED vars
    BY <1>6 DEF FlushWhileRunning, ReplaceInstance, vars, db, Drains, Inherited
  <1>7. CASE Crash \/ Reopen
    BY <1>7 DEF Crash, Reopen, Reloads
  <1> QED
    BY <1>1, <1>2, <1>3, <1>4, <1>5, <1>6, <1>7 DEF Next, FlowStep

-----------------------------------------------------------------------------
(* The order of rows. *)

LEMMA Numbers ==
    ASSUME TypeOK
    PROVE  /\ trail \in Seq(Entries) /\ Len(trail) \in Nat /\ DOMAIN trail = 1..Len(trail)
           /\ \A n \in DOMAIN trail : trail[n] \in Nat /\ trail[n] \in Entries
           /\ minted \in Nat /\ keys \in Nat /\ key \in Nat /\ Entries \subseteq Nat
           /\ \A q \in wire : /\ q.rows \in Seq(Entries) /\ Len(q.rows) \in Nat /\ DOMAIN q.rows = 1..Len(q.rows)
                              /\ q.at \in Nat /\ q.key \in 0..MaxKeys /\ q.key \in Nat
                              /\ \A n \in DOMAIN q.rows : q.rows[n] \in Nat
           /\ \A k \in 1..MaxKeys : /\ store[k] \in Seq(Entries) /\ Len(store[k]) \in Nat
                                    /\ DOMAIN store[k] = 1..Len(store[k])
                                    /\ \A n \in DOMAIN store[k] : store[k][n] \in Nat
  <1>1. Entries \subseteq Nat  BY DEF Entries
  <1>2. \A s \in Seq(Entries) : /\ Len(s) \in Nat /\ DOMAIN s = 1..Len(s)
                                /\ \A n \in DOMAIN s : s[n] \in Nat /\ s[n] \in Entries
    <2> TAKE s \in Seq(Entries)
    <2>1. Len(s) \in Nat /\ DOMAIN s = 1..Len(s)  OBVIOUS
    <2>2. \A n \in 1..Len(s) : s[n] \in Entries  BY ElementOfSeq
    <2> QED  BY <1>1, <2>1, <2>2
  <1>3. trail \in Seq(Entries) /\ \A k \in 1..MaxKeys : store[k] \in Seq(Entries)
    BY DEF TypeOK
  <1>4. minted \in Nat /\ keys \in Nat /\ key \in Nat /\ \A k \in 0..MaxKeys : k \in Nat
    BY DEF TypeOK
  <1> QED  BY <1>1, <1>2, <1>3, <1>4, Requests

\* What the server holds for this project was minted.
LEMMA HeldMinted ==
    ASSUME TypeOK, Old, NEW e \in Held
    PROVE  e <= minted /\ e \in Nat
  BY Numbers DEF Old, Held, Elems, TypeOK

\* Where trail, store and key stay, so does the order.
LEMMA SameOrder ==
    ASSUME NeverReorder, trail' = trail, store' = store, key' = key, Held' = Held
    PROVE  NeverReorder'
  <1> DEFINE InOrder(t, s, h) ==
               \A n, m \in 1..Len(t) : (n < m /\ t[m] \in h) =>
                 \E p, q \in 1..Len(s) : p < q /\ s[p] = t[n] /\ s[q] = t[m]
  <1>1. InOrder(trail, store[key], Held)  BY DEF NeverReorder
  <1>2. InOrder(trail', store'[key'], Held') => NeverReorder'  BY DEF NeverReorder
  <1> HIDE DEF InOrder
  <1> QED  BY <1>1, <1>2

\* The order of a trail whose store stays.
LEMMA OrderAgain ==
    ASSUME store' = store, key' = key, Held' = Held,
           \A n, m \in 1..Len(trail') : (n < m /\ trail'[m] \in Held) =>
             \E p, q \in 1..Len(store[key]) :
               p < q /\ store[key][p] = trail'[n] /\ store[key][q] = trail'[m]
    PROVE  NeverReorder'
  <1> DEFINE InOrder(t, s, h) ==
               \A n, m \in 1..Len(t) : (n < m /\ t[m] \in h) =>
                 \E p, q \in 1..Len(s) : p < q /\ s[p] = t[n] /\ s[q] = t[m]
  <1>1. InOrder(trail', store[key], Held)  OBVIOUS
  <1>2. InOrder(trail', store'[key'], Held') => NeverReorder'  BY DEF NeverReorder
  <1> HIDE DEF InOrder
  <1> QED  BY <1>1, <1>2

LEMMA RecordOrder ==
    ASSUME LoseInv, OrderInv, RecordEvent
    PROVE  OrderInv'
  <1> DEFINE L == Len(trail)
  <1>1. TypeOK  BY DEF LoseInv
  <1>2. /\ minted' = minted + 1 /\ UNCHANGED <<cursor, key, keys, store, wire>> /\ Persist
    BY DEF RecordEvent
  <1>3. /\ trail' \in Seq(Nat) /\ DOMAIN trail' = 1..L + 1 /\ Len(trail') = L + 1 /\ trail'[L + 1] = minted + 1
        /\ \A n \in 1..L : trail'[n] = trail[n]
    <2>1. trail' = Append(trail, minted + 1) /\ trail \in Seq(Nat) /\ minted + 1 \in Nat
      BY <1>1, Numbers DEF RecordEvent
    <2> QED  BY <2>1
  <1>4. L \in Nat /\ DOMAIN trail = 1..L /\ minted \in Nat /\ \A n \in 1..L : trail[n] \in Nat /\ trail[n] <= minted
    BY <1>1, Numbers DEF OrderInv, Rows
  <1>5. Held' = Held  BY <1>2 DEF Held
  <1> HIDE DEF L
  <1>6. \A n \in 1..L + 1 : n \in 1..L \/ n = L + 1  BY <1>4
  <1>7. Rows'
    <2>1. \A n \in 1..L + 1 : trail'[n] <= minted + 1
      BY <1>3, <1>4, <1>6
    <2>2. ASSUME NEW n \in 1..L + 1, NEW m \in 1..L + 1, n < m PROVE trail'[n] < trail'[m]
      <3>1. n \in 1..L  BY <1>4, <2>2
      <3>2. CASE m = L + 1  BY <1>3, <1>4, <3>1, <3>2
      <3>3. CASE m \in 1..L  BY <1>3, <1>4, <2>2, <3>1, <3>3 DEF OrderInv, Rows
      <3> QED  BY <1>6, <3>2, <3>3
    <2> QED  BY <1>2, <1>3, <2>1, <2>2 DEF Rows
  <1>8. Earlier'
    <2>1. CASE disk' = [trail |-> trail', cursor |-> cursor', key |-> key']
      BY <2>1, <1>3, <1>4 DEF Earlier
    <2>2. CASE disk' = disk
      <3>1. /\ Len(disk.trail) <= L /\ Len(disk.trail) \in Nat /\ DOMAIN disk.trail = 1..Len(disk.trail)
            /\ \A n \in DOMAIN disk.trail : disk.trail[n] = trail[n]
        BY <1>1 DEF OrderInv, Earlier, TypeOK, Image, L
      <3>2. DOMAIN disk.trail \subseteq 1..L  BY <1>4, <3>1
      <3> QED  BY <1>2, <1>3, <1>4, <2>2, <3>1, <3>2 DEF OrderInv, Earlier
    <2> QED  BY <1>2, <2>1, <2>2 DEF Persist
  <1>9. KeysUsed'  BY <1>2 DEF OrderInv, KeysUsed
  <1>10. Old'  BY <1>1, <1>2, <1>4, Numbers DEF OrderInv, Old
  <1>11. Runs'
    <2> SUFFICES ASSUME NEW q \in wire, q.key = key
                 PROVE  Run(q)'
      BY <1>2 DEF Runs
    <2> SUFFICES ASSUME NEW n \in DOMAIN q.rows, NEW m \in DOMAIN trail', q.rows[n] = trail'[m]
                 PROVE  \/ n = 1 /\ \A j \in 1..m - 1 : trail'[j] \in Held
                        \/ n - 1 \in DOMAIN q.rows /\ m - 1 \in DOMAIN trail' /\ q.rows[n - 1] = trail'[m - 1]
      BY <1>5 DEF Run
    <2>1. q.rows[n] <= minted  BY DEF OrderInv, Old
    <2>2. m \in 1..L  BY <1>3, <1>4, <1>6, <2>1
    <2>3. q.rows[n] = trail[m]  BY <1>3, <2>2
    <2>4. \/ n = 1 /\ \A j \in 1..m - 1 : trail[j] \in Held
          \/ n - 1 \in DOMAIN q.rows /\ m - 1 \in 1..L /\ q.rows[n - 1] = trail[m - 1]
      BY <1>4, <2>2, <2>3 DEF OrderInv, Runs, Run
    <2>5. 1..m - 1 \subseteq 1..L /\ 1..L \subseteq 1..L + 1  BY <1>4, <2>2
    <2> QED  BY <1>3, <2>4, <2>5
  <1>12. NeverReorder'
    <2>0. store' = store /\ key' = key /\ Held' = Held /\ Len(trail') = L + 1
      BY <1>2, <1>3, <1>5
    <2> SUFFICES ASSUME NEW n \in 1..Len(trail'), NEW m \in 1..Len(trail'), n < m, trail'[m] \in Held
                 PROVE  \E p, q \in 1..Len(store[key]) :
                          p < q /\ store[key][p] = trail'[n] /\ store[key][q] = trail'[m]
      BY <2>0, OrderAgain
    <2>1. trail'[m] <= minted  BY <1>1, HeldMinted DEF OrderInv
    <2>2. m \in 1..L /\ n \in 1..L  BY <1>3, <1>4, <1>6, <2>0, <2>1
    <2>3. trail'[n] = trail[n] /\ trail'[m] = trail[m]  BY <1>3, <2>2
    <2>4. n \in 1..Len(trail) /\ m \in 1..Len(trail) /\ trail[m] \in Held
      BY <2>2, <2>3 DEF L
    <2>5. \E p, q \in 1..Len(store[key]) :
            p < q /\ store[key][p] = trail[n] /\ store[key][q] = trail[m]
      BY <2>4 DEF OrderInv, NeverReorder
    <2> QED  BY <2>3, <2>5
  <1> QED  BY <1>7, <1>8, <1>9, <1>10, <1>11, <1>12 DEF OrderInv

\* The rows of a request that is waited for are a run of the trail, from a place up to
\* which the server holds everything.
LEMMA ReadersRun ==
    ASSUME LoseInv', Rows', NEW q \in wire', q.to # NoFlow
    PROVE  /\ q.key = key' /\ Run(q)'
           /\ \A n \in DOMAIN q.rows : q.rows[n] <= minted'
  <1> DEFINE a == flow'[q.to].first
  <1>1. /\ trail' \in Seq(Entries) /\ Len(trail') \in Nat /\ DOMAIN trail' = 1..Len(trail')
        /\ \A n \in DOMAIN trail' : trail'[n] \in Nat /\ trail'[n] <= minted'
    <2>1. trail' \in Seq(Entries)  BY DEF LoseInv, TypeOK
    <2>2. Len(trail') \in Nat /\ DOMAIN trail' = 1..Len(trail')  BY <2>1
    <2>3. \A n \in 1..Len(trail') : trail'[n] \in Entries  BY <2>1, ElementOfSeq
    <2> QED  BY <2>1, <2>2, <2>3 DEF Rows, Entries
  <1>2. /\ q.to \in Flows /\ q.rows \in Seq(Entries) /\ flow'[q.to] \in Flow
    BY DEF LoseInv, TypeOK, Request
  <1>3. Len(q.rows) \in Nat /\ DOMAIN q.rows = 1..Len(q.rows) /\ a \in Nat /\ flow'[q.to].last \in Nat
    BY <1>2 DEF Flow
  <1>4. /\ flow'[q.to].pc = "append" /\ q.key = key'
        /\ Len(q.rows) = flow'[q.to].last - a + 1
        /\ \A n \in 1..Len(q.rows) : q.rows[n] = trail'[a + n - 1]
    BY DEF LoseInv, WireMatchesFlow
  <1>5. a >= 1 /\ flow'[q.to].last <= Len(trail') /\ Covered(trail, flow[q.to].first - 1, key)'
    BY <1>2, <1>4 DEF LoseInv, FlowBase
  <1>6. \A j \in 1..a - 1 : trail'[j] \in Held'
    BY <1>5 DEF Covered, HeldUnder, Held
  <1> HIDE DEF a
  <1>7. \A n \in 1..Len(q.rows) : a + n - 1 \in 1..Len(trail')
    BY <1>1, <1>3, <1>4, <1>5
  <1>8. Run(q)'
    <2> SUFFICES ASSUME NEW n \in 1..Len(q.rows), NEW m \in 1..Len(trail'), q.rows[n] = trail'[m]
                 PROVE  \/ n = 1 /\ \A j \in 1..m - 1 : trail'[j] \in Held'
                        \/ n - 1 \in DOMAIN q.rows /\ m - 1 \in DOMAIN trail' /\ q.rows[n - 1] = trail'[m - 1]
      BY <1>1, <1>3 DEF Run
    <2>1. trail'[a + n - 1] = trail'[m]  BY <1>4
    <2>2. m = a + n - 1
      <3> DEFINE k == a + n - 1
      <3>1. k \in 1..Len(trail') /\ trail'[k] = trail'[m]  BY <1>7, <2>1
      <3> HIDE DEF k
      <3>2. k \in Nat /\ m \in Nat /\ trail'[k] \in Nat  BY <1>1, <3>1
      <3>3. (m < k => trail'[m] < trail'[k]) /\ (k < m => trail'[k] < trail'[m])
        BY <1>1, <3>1 DEF Rows
      <3>4. m = k  BY <3>1, <3>2, <3>3
      <3> QED  BY <3>4 DEF k
    <2>3. CASE n = 1
      <3>1. m - 1 = a - 1  BY <1>3, <2>2, <2>3
      <3> QED  BY <1>6, <2>3, <3>1
    <2>4. CASE n # 1
      <3>1. n - 1 \in 1..Len(q.rows) /\ a + (n - 1) - 1 = m - 1  BY <1>3, <2>2, <2>4
      <3> QED  BY <1>1, <1>3, <1>4, <1>7, <3>1
    <2> QED  BY <2>3, <2>4
  <1>9. \A n \in DOMAIN q.rows : q.rows[n] <= minted'
    BY <1>1, <1>3, <1>4, <1>7
  <1> QED  BY <1>4, <1>8, <1>9

LEMMA DrainsOrder ==
    ASSUME LoseInv, LoseInv', OrderInv, Drains
    PROVE  OrderInv'
  <1>1. UNCHANGED <<trail, minted, store>> /\ Inherited  BY DEF Drains
  <1>2. TypeOK /\ key' \in Nat /\ keys \in Nat /\ key \in Nat
    BY Numbers DEF LoseInv, TypeOK
  <1>3. Rows'  BY <1>1 DEF OrderInv, Rows
  <1>4. (key' = key /\ keys' = keys) \/ (key = 0 /\ keys' = keys + 1 /\ key' = keys')
    BY DEF Drains
  <1>5. Earlier'
    <2>1. CASE disk' = [trail |-> trail', cursor |-> cursor', key |-> key']
      BY <1>1, <1>2, <2>1, Numbers DEF Earlier
    <2>2. CASE disk' = disk
      BY <1>1, <1>4, <2>2 DEF OrderInv, Earlier
    <2> QED  BY <1>1, <2>1, <2>2 DEF Drains, Persist
  <1>6. \A q \in wire' : q.to # NoFlow => q.key = key' /\ Run(q)' /\ \A n \in DOMAIN q.rows : q.rows[n] <= minted'
    BY <1>3, ReadersRun
  <1>7. \A q \in wire' : q.to # NoFlow \/ \E p \in wire : p.key = q.key /\ p.rows = q.rows
    BY <1>1 DEF Inherited
  <1>8. KeysUsed'
    <2>1. key' <= keys' /\ keys <= keys'  BY <1>2, <1>4 DEF OrderInv, KeysUsed
    <2>2. \A q \in wire' : q.key <= keys'
      <3> TAKE q \in wire'
      <3>1. CASE q.to # NoFlow  BY <1>6, <2>1, <3>1
      <3>2. CASE \E p \in wire : p.key = q.key
        BY <1>2, <1>4, <2>1, <3>2, Numbers DEF OrderInv, KeysUsed
      <3> QED  BY <1>7, <3>1, <3>2
    <2>3. \A k \in 1..MaxKeys : k > keys' => store'[k] = <<>>
      BY <1>1, <1>2, <1>4 DEF OrderInv, KeysUsed
    <2> QED  BY <2>1, <2>2, <2>3 DEF KeysUsed
  <1>9. Old'
    BY <1>1, <1>6, <1>7 DEF OrderInv, Old
  <1>10. CASE key' = key
    <2>1. Held' = Held  BY <1>1, <1>10 DEF Held
    <2>2. \A q \in wire : Run(q)' <=> Run(q)  BY <1>1, <2>1 DEF Run
    <2>3. Runs'
      <3> SUFFICES ASSUME NEW q \in wire', q.key = key, q.to = NoFlow
                   PROVE  Run(q)'
        BY <1>6, <1>10 DEF Runs
      <3>1. PICK p \in wire : p.key = q.key /\ p.rows = q.rows  BY <1>7
      <3>2. Run(p)  BY <3>1 DEF OrderInv, Runs
      <3> QED  BY <1>1, <2>1, <3>1, <3>2 DEF Run
    <2>4. NeverReorder'
      <3>1. trail' = trail /\ store' = store /\ key' = key /\ NeverReorder
        BY <1>1, <1>10 DEF OrderInv
      <3> QED  BY <2>1, <3>1, SameOrder
    <2> QED  BY <1>3, <1>5, <1>8, <1>9, <2>3, <2>4 DEF OrderInv
  <1>11. CASE key' # key
    <2>1. key = 0 /\ keys' = keys + 1 /\ key' = keys + 1 /\ key' \in 1..MaxKeys
      BY <1>2, <1>4, <1>11 DEF LoseInv, TypeOK
    <2>2. store'[key'] = <<>> /\ Held' = {}
      <3>1. store[key'] = <<>>  BY <1>2, <2>1 DEF OrderInv, KeysUsed
      <3> QED  BY <1>1, <2>1, <3>1 DEF Held, Elems
    <2>3. Runs'
      <3> SUFFICES ASSUME NEW q \in wire', q.key = key', q.to = NoFlow
                   PROVE  FALSE
        BY <1>6 DEF Runs
      <3>1. PICK p \in wire : p.key = q.key  BY <1>7
      <3>2. p.key <= keys /\ p.key \in Nat  BY <1>2, Numbers DEF OrderInv, KeysUsed
      <3> QED  BY <1>2, <2>1, <3>1, <3>2
    <2>4. NeverReorder'  BY <2>2 DEF NeverReorder
    <2> QED  BY <1>3, <1>5, <1>8, <1>9, <2>3, <2>4 DEF OrderInv
  <1> QED  BY <1>10, <1>11

LEMMA ReloadsOrder ==
    ASSUME LoseInv, LoseInv', OrderInv, Reloads
    PROVE  OrderInv'
  <1>1. PICK img \in {disk, [trail |-> trail, cursor |-> cursor, key |-> key]} : Reload(img)
    BY DEF Reloads
  <1>2. /\ trail' = img.trail /\ key' = img.key /\ disk' = img /\ UNCHANGED <<minted, keys, store>>
        /\ GiveUp(Flows)
    BY <1>1 DEF Reload
  <1>3. TypeOK  BY DEF LoseInv
  <1>4. /\ Len(trail') \in Nat /\ Len(trail') <= Len(trail) /\ DOMAIN trail' = 1..Len(trail')
        /\ \A n \in DOMAIN trail' : trail'[n] = trail[n]
        /\ key' \in {0, key}
    <2>1. CASE img = disk
      BY <1>2, <2>1 DEF OrderInv, Earlier, LoseInv, TypeOK
    <2>2. CASE img = [trail |-> trail, cursor |-> cursor, key |-> key]
      BY <1>2, <1>3, <2>2, Numbers
    <2> QED  BY <1>1, <2>1, <2>2
  <1>5. DOMAIN trail = 1..Len(trail) /\ DOMAIN trail' \subseteq DOMAIN trail
    BY <1>3, <1>4, Numbers
  <1>6. \A q \in wire' : \E p \in wire : p.key = q.key /\ p.rows = q.rows
    <2>1. \A q \in wire' : q.to = NoFlow
      BY <1>2, <1>3, GiveUpRequests, Requests DEF LoseInv, TypeOK, Request
    <2>2. Inherited  BY <1>2, <1>3, GiveUpInherited
    <2> QED  BY <2>1, <2>2 DEF Inherited
  <1>7. Rows'  BY <1>2, <1>4, <1>5 DEF OrderInv, Rows
  <1>8. Earlier'
    BY <1>2, <1>4 DEF Earlier
  <1>9. KeysUsed' /\ Old'
    <2>1. key \in Nat /\ keys \in Nat  BY <1>3, Numbers
    <2>2. KeysUsed'  BY <1>2, <1>4, <1>6, <2>1 DEF OrderInv, KeysUsed
    <2>3. Old'  BY <1>2, <1>6 DEF OrderInv, Old
    <2> QED  BY <2>2, <2>3
  <1>10. CASE key' = key
    <2>1. Held' = Held  BY <1>2, <1>10 DEF Held
    <2>2. Runs'
      <3> SUFFICES ASSUME NEW q \in wire', q.key = key,
                          NEW n \in DOMAIN q.rows, NEW m \in DOMAIN trail', q.rows[n] = trail'[m]
                   PROVE  \/ n = 1 /\ \A j \in 1..m - 1 : trail'[j] \in Held
                          \/ n - 1 \in DOMAIN q.rows /\ m - 1 \in DOMAIN trail' /\ q.rows[n - 1] = trail'[m - 1]
        BY <1>10, <2>1 DEF Runs, Run
      <3>1. PICK p \in wire : p.key = q.key /\ p.rows = q.rows  BY <1>6
      <3>2. Run(p)  BY <3>1 DEF OrderInv, Runs
      <3>3. m \in DOMAIN trail /\ q.rows[n] = trail[m]  BY <1>4, <1>5
      <3>4. \/ n = 1 /\ \A j \in 1..m - 1 : trail[j] \in Held
            \/ n - 1 \in DOMAIN q.rows /\ m - 1 \in DOMAIN trail /\ q.rows[n - 1] = trail[m - 1]
        BY <3>1, <3>2, <3>3 DEF Run
      <3>5. 1..m - 1 \subseteq DOMAIN trail' /\ (m - 1 \in DOMAIN trail => m - 1 \in DOMAIN trail')
        <4>1. m \in 1..Len(trail')  BY <1>4
        <4>2. Len(trail') \in Nat /\ Len(trail) \in Nat  BY <1>3, <1>4, Numbers
        <4> QED  BY <1>4, <1>5, <4>1, <4>2
      <3> QED  BY <1>4, <3>4, <3>5
    <2>3. NeverReorder'
      <3> SUFFICES ASSUME NEW n \in 1..Len(trail'), NEW m \in 1..Len(trail'), n < m, trail'[m] \in Held
                   PROVE  \E p, q \in 1..Len(store[key]) :
                            p < q /\ store[key][p] = trail'[n] /\ store[key][q] = trail'[m]
        BY <1>2, <1>10, <2>1, OrderAgain
      <3>1. /\ n \in 1..Len(trail) /\ m \in 1..Len(trail)
            /\ trail'[n] = trail[n] /\ trail'[m] = trail[m]
        BY <1>4, <1>5
      <3> QED  BY <3>1 DEF OrderInv, NeverReorder
    <2> QED  BY <1>7, <1>8, <1>9, <2>2, <2>3 DEF OrderInv
  <1>11. CASE key' = 0
    <2>1. Held' = {}  BY <1>11 DEF Held
    <2>2. \A q \in wire' : q.key # 0  BY DEF LoseInv, TakenIsHeld
    <2>3. Runs' /\ NeverReorder'  BY <1>11, <2>1, <2>2 DEF Runs, NeverReorder
    <2> QED  BY <1>7, <1>8, <1>9, <2>3 DEF OrderInv
  <1> QED  BY <1>4, <1>10, <1>11

LEMMA Longer ==
    ASSUME NEW S, NEW s \in Seq(S), NEW e \in S
    PROVE  LET t == Append(s, e)
           IN  /\ t \in Seq(S) /\ DOMAIN t = 1..Len(t) /\ Len(s) + 1 \in DOMAIN t /\ t[Len(s) + 1] = e
               /\ \A n \in DOMAIN s : n \in DOMAIN t /\ t[n] = s[n] /\ n < Len(s) + 1
               /\ \A n \in DOMAIN t : n \in DOMAIN s \/ n = Len(s) + 1
  OBVIOUS

LEMMA TakesFacts ==
    ASSUME LoseInv, ServerTakes
    PROVE  /\ UNCHANGED <<trail, cursor, key, disk, minted, keys>>
           /\ \A p \in wire' : \E q \in wire : q.key = p.key /\ q.rows = p.rows
           /\ \E q \in wire :
                /\ q.key \in 1..MaxKeys /\ q.at + 1 \in DOMAIN q.rows
                /\ \/ store' = store
                   \/ /\ q.rows[q.at + 1] \notin Elems(store[q.key])
                      /\ \A k \in 1..MaxKeys :
                           store'[k] = IF k = q.key THEN Append(store[k], q.rows[q.at + 1]) ELSE store[k]
  <1>1. TypeOK  BY DEF LoseInv
  <1>2. PICK q \in wire :
          /\ q.at < Len(q.rows)
          /\ store' = IF q.rows[q.at + 1] \in Elems(store[q.key]) THEN store
                      ELSE [store EXCEPT ![q.key] = Append(@, q.rows[q.at + 1])]
          /\ wire' = (wire \ {q}) \cup {[q EXCEPT !.at = @ + 1]}
          /\ UNCHANGED <<db, minted, keys, flow, inst, current>>
    BY DEF ServerTakes
  <1>3. /\ q.key \in 1..MaxKeys /\ q.at \in Nat /\ DOMAIN q.rows = 1..Len(q.rows) /\ Len(q.rows) \in Nat
    BY <1>1, Numbers DEF LoseInv, TakenIsHeld
  <1>4. q.at + 1 \in DOMAIN q.rows  BY <1>2, <1>3
  <1> DEFINE new == [q EXCEPT !.at = @ + 1]
             e == q.rows[q.at + 1]
  <1>5. new.key = q.key /\ new.rows = q.rows
    BY <1>1 DEF TypeOK, Request
  <1>6. wire' = (wire \ {q}) \cup {new}  BY <1>2
  <1> HIDE DEF new
  <1>7. \A p \in wire' : \E r \in wire : r.key = p.key /\ r.rows = p.rows
    BY <1>5, <1>6
  <1>8. e \notin Elems(store[q.key]) =>
          \A k \in 1..MaxKeys : store'[k] = IF k = q.key THEN Append(store[k], e) ELSE store[k]
    <2> HAVE e \notin Elems(store[q.key])
    <2>1. store' = [store EXCEPT ![q.key] = Append(store[q.key], e)]  BY <1>2
    <2> HIDE DEF e
    <2> QED  BY <1>1, <2>1 DEF TypeOK
  <1> QED  BY <1>2, <1>3, <1>4, <1>7, <1>8 DEF db

\* The server takes a row only when it has those before it.
LEMMA TakesOrder ==
    ASSUME LoseInv, OrderInv, ServerTakes
    PROVE  OrderInv'
  <1>1. TypeOK  BY DEF LoseInv
  <1>2. /\ UNCHANGED <<trail, cursor, key, disk, minted, keys>>
        /\ \A p \in wire' : \E q \in wire : q.key = p.key /\ q.rows = p.rows
    BY TakesFacts
  <1>3. PICK q \in wire :
          /\ q.key \in 1..MaxKeys /\ q.at + 1 \in DOMAIN q.rows
          /\ \/ store' = store
             \/ /\ q.rows[q.at + 1] \notin Elems(store[q.key])
                /\ \A k \in 1..MaxKeys :
                     store'[k] = IF k = q.key THEN Append(store[k], q.rows[q.at + 1]) ELSE store[k]
    BY TakesFacts
  <1> DEFINE e == q.rows[q.at + 1]
  <1>4. e \in Entries /\ e <= minted /\ q.key <= keys /\ q.at \in Nat /\ DOMAIN q.rows = 1..Len(q.rows)
    <2>1. q.rows \in Seq(Entries) /\ q.at \in Nat /\ DOMAIN q.rows = 1..Len(q.rows)  BY <1>1, Numbers
    <2>2. e \in Entries  BY <1>3, <2>1, ElementOfSeq
    <2> QED  BY <1>3, <2>1, <2>2 DEF OrderInv, Old, KeysUsed
  <1>5. Rows' /\ Earlier'  BY <1>2 DEF OrderInv, Rows, Earlier
  <1>6. CASE store' = store
    <2>1. Held' = Held  BY <1>2, <1>6 DEF Held
    <2>2. KeysUsed' /\ Old'  BY <1>2, <1>6 DEF OrderInv, KeysUsed, Old
    <2>3. Runs'  BY <1>2, <2>1 DEF OrderInv, Runs, Run
    <2>4. trail' = trail /\ store' = store /\ key' = key /\ NeverReorder  BY <1>2, <1>6 DEF OrderInv
    <2>5. NeverReorder'  BY <2>1, <2>4, SameOrder
    <2> QED  BY <1>5, <2>2, <2>3, <2>5 DEF OrderInv
  <1>7. CASE /\ e \notin Elems(store[q.key])
             /\ \A k \in 1..MaxKeys : store'[k] = IF k = q.key THEN Append(store[k], e) ELSE store[k]
    <2> HIDE DEF e
    <2>1. \A k \in 1..MaxKeys :
            /\ store[k] \in Seq(Entries) /\ Len(store[k]) \in Nat /\ DOMAIN store[k] = 1..Len(store[k])
      BY <1>1, Numbers
    <2> DEFINE own == Append(store[q.key], e)
    <2>2. /\ own \in Seq(Entries) /\ DOMAIN own = 1..Len(own)
          /\ Len(store[q.key]) + 1 \in DOMAIN own /\ own[Len(store[q.key]) + 1] = e
          /\ \A n \in DOMAIN store[q.key] : n \in DOMAIN own /\ own[n] = store[q.key][n]
          /\ \A n \in DOMAIN own : n \in DOMAIN store[q.key] \/ n = Len(store[q.key]) + 1
      BY <1>3, <1>4, <2>1, Longer
    <2>3. \A k \in 1..MaxKeys : store'[k] = IF k = q.key THEN own ELSE store[k]
      BY <1>7
    <2> HIDE DEF own
    <2>4. \A k \in 1..MaxKeys : store'[k] \in Seq(Entries) /\ DOMAIN store'[k] = 1..Len(store'[k])
      BY <2>1, <2>2, <2>3
    <2>5. \A k \in 1..MaxKeys : \A n \in DOMAIN store[k] : n \in DOMAIN store'[k] /\ store'[k][n] = store[k][n]
      BY <2>2, <2>3
    <2>6. /\ Len(store[q.key]) + 1 \in DOMAIN store'[q.key] /\ store'[q.key][Len(store[q.key]) + 1] = e
          /\ \A k \in 1..MaxKeys : \A n \in DOMAIN store'[k] :
               n \in DOMAIN store[k] \/ (k = q.key /\ n = Len(store[k]) + 1)
      <3>1. store'[q.key] = own /\ \A k \in 1..MaxKeys : k # q.key => store'[k] = store[k]
        BY <1>3, <2>3
      <3>2. \A k \in 1..MaxKeys : \A n \in DOMAIN store'[k] :
              n \in DOMAIN store[k] \/ (k = q.key /\ n = Len(store[k]) + 1)
        <4> TAKE k \in 1..MaxKeys
        <4>1. CASE k = q.key  BY <2>2, <3>1, <4>1
        <4>2. CASE k # q.key  BY <3>1, <4>2
        <4> QED  BY <4>1, <4>2
      <3> QED  BY <2>2, <3>1, <3>2
    <2>7. KeysUsed'
      <3>1. \A p \in wire' : p.key <= keys'  BY <1>2 DEF OrderInv, KeysUsed
      <3>2. \A k \in 1..MaxKeys : k > keys => k # q.key
        BY <1>1, <1>3, <1>4, Numbers
      <3>3. \A k \in 1..MaxKeys : k > keys' => store'[k] = <<>>
        BY <1>2, <1>7, <3>2 DEF OrderInv, KeysUsed
      <3> QED  BY <1>2, <3>1, <3>3 DEF OrderInv, KeysUsed
    <2>8. Old'
      <3>1. \A p \in wire' : \A n \in DOMAIN p.rows : p.rows[n] <= minted'
        BY <1>2 DEF OrderInv, Old
      <3>2. \A k \in 1..MaxKeys : \A n \in DOMAIN store'[k] : store'[k][n] <= minted'
        <4> TAKE k \in 1..MaxKeys
        <4> TAKE n \in DOMAIN store'[k]
        <4>1. CASE n \in DOMAIN store[k]  BY <1>2, <2>5, <4>1 DEF OrderInv, Old
        <4>2. CASE k = q.key /\ n = Len(store[k]) + 1  BY <1>2, <1>4, <2>6, <4>2
        <4> QED  BY <2>6, <4>1, <4>2
      <3> QED  BY <3>1, <3>2 DEF Old
    <2>9. Held \subseteq Held'
      <3>1. key \in 0..MaxKeys  BY <1>1 DEF TypeOK
      <3> QED  BY <1>2, <2>5, <3>1 DEF Held, Elems
    <2>10. \A d \in Held' : d \in Held \/ (d = e /\ q.key = key)
      <3>1. key \in 0..MaxKeys  BY <1>1 DEF TypeOK
      <3> QED  BY <1>2, <2>5, <2>6, <3>1 DEF Held, Elems
    <2>11. Runs'
      <3> SUFFICES ASSUME NEW p \in wire', p.key = key
                   PROVE  Run(p)'
        BY <1>2 DEF Runs
      <3>1. PICK r \in wire : r.key = p.key /\ r.rows = p.rows  BY <1>2
      <3>2. Run(r)  BY <3>1 DEF OrderInv, Runs
      <3> QED  BY <1>2, <2>9, <3>1, <3>2 DEF Run
    <2>12. NeverReorder'
      <3> SUFFICES ASSUME NEW n \in 1..Len(trail), NEW m \in 1..Len(trail), n < m, trail[m] \in Held'
                   PROVE  \E i, k \in 1..Len(store'[key]) :
                            i < k /\ store'[key][i] = trail[n] /\ store'[key][k] = trail[m]
        BY <1>2 DEF NeverReorder
      <3>1. key \in 1..MaxKeys /\ key' = key
        <4>1. key \in 0..MaxKeys /\ key' = key  BY <1>1, <1>2 DEF TypeOK
        <4> QED  BY <4>1 DEF Held
      <3>2. Held = Elems(store[key]) /\ key # 0  BY <3>1 DEF Held
      <3>3. DOMAIN store'[key] = 1..Len(store'[key])  BY <2>4, <3>1
      <3>4. n \in DOMAIN trail /\ m \in DOMAIN trail /\ n \in Nat /\ m \in Nat  BY <1>1, Numbers
      <3>5. CASE trail[m] \in Held
        <4>1. PICK i, k \in 1..Len(store[key]) : i < k /\ store[key][i] = trail[n] /\ store[key][k] = trail[m]
          BY <3>5 DEF OrderInv, NeverReorder
        <4> QED  BY <2>1, <2>5, <3>1, <3>3, <4>1
      <3>6. CASE trail[m] \notin Held
        <4>1. q.key = key /\ trail[m] = e  BY <2>10, <3>6
        <4>2. trail[n] \in Held
          <5>1. \/ q.at + 1 = 1 /\ \A j \in 1..m - 1 : trail[j] \in Held
                \/ q.at \in DOMAIN q.rows /\ m - 1 \in DOMAIN trail /\ q.rows[q.at] = trail[m - 1]
            <6>1. Run(q)  BY <4>1 DEF OrderInv, Runs
            <6> DEFINE i == q.at + 1
            <6>2. i - 1 = q.at /\ i \in DOMAIN q.rows /\ q.rows[i] = trail[m]
              BY <1>3, <1>4, <4>1 DEF e
            <6> HIDE DEF i
            <6>3. \/ i = 1 /\ \A j \in 1..m - 1 : trail[j] \in Held
                  \/ i - 1 \in DOMAIN q.rows /\ m - 1 \in DOMAIN trail /\ q.rows[i - 1] = trail[m - 1]
              BY <3>4, <6>1, <6>2 DEF Run
            <6> QED  BY <6>2, <6>3 DEF i
          <5>2. CASE \A j \in 1..m - 1 : trail[j] \in Held
            BY <3>4, <5>2
          <5>3. CASE q.at \in DOMAIN q.rows /\ m - 1 \in DOMAIN trail /\ q.rows[q.at] = trail[m - 1]
            <6>1. trail[m - 1] \in Held
              <7>1. q.at \in 1..q.at  BY <1>4, <5>3
              <7>2. q.rows[q.at] \in HeldUnder(q.key)  BY <7>1 DEF LoseInv, TakenIsHeld
              <7> QED  BY <4>1, <5>3, <7>2 DEF Held, HeldUnder
            <6>2. CASE n = m - 1  BY <6>1, <6>2
            <6>3. CASE n < m - 1
              <7>1. m - 1 \in 1..Len(trail)  BY <1>1, <5>3, Numbers
              <7>2. \E i \in 1..Len(store[key]) : store[key][i] = trail[n]
                BY <6>1, <6>3, <7>1 DEF OrderInv, NeverReorder
              <7> QED  BY <2>1, <3>1, <3>2, <7>2 DEF Elems
            <6> QED  BY <3>4, <6>2, <6>3
          <5> QED  BY <5>1, <5>2, <5>3
        <4>3. PICK i \in DOMAIN store[key] : store[key][i] = trail[n]  BY <3>2, <4>2 DEF Elems
        <4>4. i < Len(store[key]) + 1 /\ i \in DOMAIN store'[key] /\ store'[key][i] = trail[n]
          BY <2>1, <2>5, <3>1, <4>3
        <4> QED  BY <2>6, <3>3, <4>1, <4>4
      <3> QED  BY <3>5, <3>6
    <2> QED  BY <1>5, <2>7, <2>8, <2>11, <2>12 DEF OrderInv
  <1> QED  BY <1>3, <1>6, <1>7

LEMMA OrderStep == LoseInv /\ LoseInv' /\ OrderInv /\ [Next]_vars => OrderInv'
  <1> SUFFICES ASSUME LoseInv, LoseInv', OrderInv, [Next]_vars PROVE OrderInv'  OBVIOUS
  <1> QED  BY StepShapes, RecordOrder, TakesOrder, ReloadsOrder, DrainsOrder DEF LoseInv

LEMMA OrderInit == Init => OrderInv
  <1> SUFFICES ASSUME Init PROVE OrderInv  OBVIOUS
  <1>1. trail = <<>> /\ key = 0 /\ keys = 0 /\ wire = {} /\ disk.trail = <<>> /\ disk.key = 0
    BY DEF Init
  <1>2. \A k \in 1..MaxKeys : store[k] = <<>>  BY DEF Init
  <1>3. Rows /\ Runs /\ NeverReorder  BY <1>1 DEF Rows, Runs, NeverReorder
  <1>4. Earlier /\ KeysUsed /\ Old  BY <1>1, <1>2 DEF Earlier, KeysUsed, Old
  <1> QED  BY <1>3, <1>4 DEF OrderInv

\* The server holds no row without those before it, and holds them in the order they
\* were recorded, whatever overlaps, is lost, comes late, or is forgotten in a crash.
THEOREM NeverReorderHolds == Spec => []NeverReorder
  <1>1. OrderInv => NeverReorder  BY DEF OrderInv
  <1> QED  BY <1>1, OrderInit, OrderStep, LoseInvariant, PTL DEF Spec

-----------------------------------------------------------------------------
(* A disk that takes every write. *)

\* The trail of the project, and its rows in requests.
OneStore ==
    /\ \A k \in 1..MaxKeys : store[k] # <<>> => k = key
    /\ \A q \in wire : q.key = key /\ \A n \in DOMAIN q.rows : \E m \in DOMAIN trail : q.rows[n] = trail[m]
    /\ key # 0 => \A n \in DOMAIN store[key] : n \in DOMAIN trail /\ store[key][n] = trail[n]

Faithful ==
    /\ refused \in BOOLEAN
    /\ ~refused => /\ disk = [trail |-> trail, cursor |-> cursor, key |-> key]
                   /\ seen = Now /\ OneStore

LEMMA FaithfulParts ==
    ASSUME Faithful, MCNext, ~refused'
    PROVE  /\ ~refused /\ OneStore /\ disk = [trail |-> trail, cursor |-> cursor, key |-> key]
           /\ disk' = [trail |-> trail', cursor |-> cursor', key |-> key']
           /\ seen = Now /\ seen' = Now'
  BY DEF Faithful, MCNext

LEMMA RecordFaithful ==
    ASSUME LoseInv, OneStore, RecordEvent
    PROVE  OneStore'
  <1>1. TypeOK  BY DEF LoseInv
  <1>2. UNCHANGED <<key, store, wire>>  BY DEF RecordEvent
  <1>3. \A n \in DOMAIN trail : n \in DOMAIN trail' /\ trail'[n] = trail[n]
    <2>1. trail' = Append(trail, minted + 1) /\ trail \in Seq(Nat) /\ minted + 1 \in Nat
      BY <1>1, Numbers DEF RecordEvent
    <2> QED  BY <2>1
  <1>4. \A q \in wire' : q.key = key' /\ \A n \in DOMAIN q.rows : \E m \in DOMAIN trail' : q.rows[n] = trail'[m]
    BY <1>2, <1>3 DEF OneStore
  <1> QED  BY <1>2, <1>3, <1>4 DEF OneStore

LEMMA SameFaithful ==
    ASSUME OneStore, UNCHANGED <<trail, key, store>>,
           \A p \in wire' : \E q \in wire : q.key = p.key /\ q.rows = p.rows
    PROVE  OneStore'
  <1>1. \A q \in wire' : q.key = key' /\ \A n \in DOMAIN q.rows : \E m \in DOMAIN trail' : q.rows[n] = trail'[m]
    BY DEF OneStore
  <1> QED  BY <1>1 DEF OneStore

LEMMA DrainsFaithful ==
    ASSUME LoseInv, LoseInv', OrderInv, OneStore, Drains
    PROVE  OneStore'
  <1>1. UNCHANGED <<trail, minted, store>> /\ TypeOK  BY DEF Drains, LoseInv
  <1>2. \A q \in wire' : q.to # NoFlow \/ \E p \in wire : p.key = q.key /\ p.rows = q.rows
    BY DEF Drains, Inherited
  <1>3. key' = key \/ (key = 0 /\ key' = keys + 1)  BY DEF Drains
  <1>4. key = 0 => /\ \A k \in 1..MaxKeys : store[k] = <<>>
                   /\ wire = {}
    BY DEF OneStore, LoseInv, TakenIsHeld
  <1>5. \A q \in wire' : q.key = key' /\ \A n \in DOMAIN q.rows : \E m \in DOMAIN trail' : q.rows[n] = trail'[m]
    <2> TAKE q \in wire'
    <2>1. CASE q.to # NoFlow
      <3>1. /\ q.to \in Flows /\ q.rows \in Seq(Entries) /\ flow'[q.to] \in Flow
        BY <2>1 DEF LoseInv, TypeOK, Request
      <3>2. /\ flow'[q.to].pc = "append" /\ q.key = key'
            /\ Len(q.rows) = flow'[q.to].last - flow'[q.to].first + 1
            /\ \A n \in 1..Len(q.rows) : q.rows[n] = trail'[flow'[q.to].first + n - 1]
        BY <2>1 DEF LoseInv, WireMatchesFlow
      <3>3. flow'[q.to].first >= 1 /\ flow'[q.to].last <= Len(trail')
        BY <3>1, <3>2 DEF LoseInv, FlowBase
      <3>4. /\ flow'[q.to].first \in Nat /\ flow'[q.to].last \in Nat
            /\ DOMAIN q.rows = 1..Len(q.rows) /\ Len(q.rows) \in Nat
            /\ DOMAIN trail' = 1..Len(trail') /\ Len(trail') \in Nat
        <4>1. flow'[q.to].first \in Nat /\ flow'[q.to].last \in Nat  BY <3>1 DEF Flow
        <4>2. trail' \in Seq(Entries)  BY DEF LoseInv, TypeOK
        <4> QED  BY <3>1, <4>1, <4>2
      <3>5. \A n \in 1..Len(q.rows) : flow'[q.to].first + n - 1 \in 1..Len(trail')
        <4> DEFINE first == flow'[q.to].first
                   last == flow'[q.to].last
        <4>1. /\ first \in Nat /\ last \in Nat /\ Len(trail') \in Nat /\ first >= 1
              /\ Len(q.rows) = last - first + 1 /\ last <= Len(trail')
          BY <3>2, <3>3, <3>4
        <4> HIDE DEF first, last
        <4>2. \A n \in 1..Len(q.rows) : first + n - 1 \in 1..Len(trail')  BY <4>1
        <4> QED  BY <4>2 DEF first
      <3> QED  BY <3>2, <3>4, <3>5
    <2>2. CASE \E p \in wire : p.key = q.key /\ p.rows = q.rows
      BY <1>1, <1>3, <1>4, <2>2 DEF OneStore
    <2> QED  BY <1>2, <2>1, <2>2
  <1>6. \A k \in 1..MaxKeys : store'[k] # <<>> => k = key'
    BY <1>1, <1>3, <1>4 DEF OneStore
  <1>7. key' # 0 => \A n \in DOMAIN store'[key'] : n \in DOMAIN trail' /\ store'[key'][n] = trail'[n]
    <2>1. CASE key' = key  BY <1>1, <2>1 DEF OneStore
    <2>2. CASE key = 0 /\ key' # 0
      <3>1. key' \in 1..MaxKeys  BY <2>2 DEF LoseInv, TypeOK
      <3>2. store'[key'] = <<>>  BY <1>1, <1>4, <2>2, <3>1
      <3> QED  BY <3>2
    <2> QED  BY <1>3, <2>1, <2>2
  <1> QED  BY <1>5, <1>6, <1>7 DEF OneStore

\* The server takes the next row of the trail, or one it has.
LEMMA TakesNext ==
    ASSUME LoseInv, OrderInv, OneStore, ServerTakes
    PROVE  /\ OneStore'
           /\ \/ store' = store
              \/ /\ key # 0 /\ Len(store[key]) < Len(trail)
                 /\ store'[key] = Append(store[key], trail[Len(store[key]) + 1])
  <1>1. TypeOK  BY DEF LoseInv
  <1>2. /\ UNCHANGED <<trail, cursor, key, disk, minted, keys>>
        /\ \A p \in wire' : \E q \in wire : q.key = p.key /\ q.rows = p.rows
    BY TakesFacts
  <1>3. PICK q \in wire :
          /\ q.key \in 1..MaxKeys /\ q.at + 1 \in DOMAIN q.rows
          /\ \/ store' = store
             \/ /\ q.rows[q.at + 1] \notin Elems(store[q.key])
                /\ \A k \in 1..MaxKeys :
                     store'[k] = IF k = q.key THEN Append(store[k], q.rows[q.at + 1]) ELSE store[k]
    BY TakesFacts
  <1>4. CASE store' = store
    BY <1>2, <1>4, SameFaithful
  <1>5. CASE /\ q.rows[q.at + 1] \notin Elems(store[q.key])
             /\ \A k \in 1..MaxKeys :
                  store'[k] = IF k = q.key THEN Append(store[k], q.rows[q.at + 1]) ELSE store[k]
    <2> DEFINE s == store[key]
               e == q.rows[q.at + 1]
    <2>1. q.key = key /\ key \in 1..MaxKeys /\ key' = key  BY <1>2, <1>3 DEF OneStore
    <2>2. PICK m \in DOMAIN trail : e = trail[m]  BY <1>3 DEF OneStore
    <2>3. /\ s \in Seq(Entries) /\ Len(s) \in Nat /\ DOMAIN s = 1..Len(s)
          /\ Len(trail) \in Nat /\ DOMAIN trail = 1..Len(trail) /\ trail[m] \in Entries
      BY <1>1, <2>1, Numbers
    <2>4. \A n \in DOMAIN s : n \in DOMAIN trail /\ s[n] = trail[n]
      BY <2>1 DEF OneStore
    <2>5. e \notin Elems(s) /\ store'[key] = Append(s, e)
      BY <1>5, <2>1
    <2> HIDE DEF e
    <2>6. m \notin DOMAIN s
      BY <2>2, <2>4, <2>5 DEF Elems
    <2>7. e \in Held'
      <3>1. Len(s) + 1 \in DOMAIN Append(s, e) /\ Append(s, e)[Len(s) + 1] = e
        BY <2>2, <2>3, Longer
      <3> HIDE DEF s
      <3> QED  BY <2>1, <2>5, <3>1 DEF Held, Elems
    <2>8. \A n \in 1..m - 1 : n \in DOMAIN s
      <3> TAKE n \in 1..m - 1
      <3>1. n \in 1..Len(trail) /\ m \in 1..Len(trail) /\ n < m /\ n \in Nat /\ m \in Nat
        BY <2>3
      <3>2. NeverReorder'
        BY <1>1, TakesOrder DEF OrderInv
      <3>3. \E i, k \in 1..Len(store'[key]) : i < k /\ store'[key][i] = trail[n] /\ store'[key][k] = trail[m]
        <4>1. /\ n \in 1..Len(trail') /\ m \in 1..Len(trail') /\ trail'[m] \in Held'
              /\ trail'[n] = trail[n] /\ trail'[m] = trail[m] /\ key' = key
          BY <1>2, <2>1, <2>2, <2>7, <3>1
        <4>2. \E i, k \in 1..Len(store'[key']) : i < k /\ store'[key'][i] = trail'[n] /\ store'[key'][k] = trail'[m]
          BY <3>1, <3>2, <4>1 DEF NeverReorder
        <4> QED  BY <4>1, <4>2
      <3>4. PICK i \in 1..Len(Append(s, e)), k \in 1..Len(Append(s, e)) : i < k /\ Append(s, e)[i] = trail[n]
        BY <2>5, <3>3
      <3>5. i \in DOMAIN s /\ Append(s, e)[i] = s[i]
        BY <2>2, <2>3, <3>4
      <3>6. i \in DOMAIN trail /\ trail[i] = trail[n]
        BY <2>4, <3>4, <3>5
      <3>7. i = n
        <4>1. trail[i] \in Nat /\ trail[n] \in Nat /\ i \in Nat  BY <1>1, <2>3, <3>1, <3>6, Numbers
        <4>2. (i < n => trail[i] < trail[n]) /\ (n < i => trail[n] < trail[i])
          BY <2>3, <3>1, <3>6 DEF OrderInv, Rows
        <4> QED  BY <3>1, <3>6, <4>1, <4>2
      <3> QED  BY <3>5, <3>7
    <2>9. m = Len(s) + 1
      <3> HIDE DEF s
      <3>1. m \in Nat /\ m >= 1 /\ ~(m <= Len(s))  BY <2>3, <2>6
      <3>2. CASE m = 1  BY <2>3, <3>1, <3>2
      <3>3. CASE m # 1
        <4>1. m - 1 \in 1..m - 1  BY <3>1, <3>3
        <4> QED  BY <2>3, <2>8, <3>1, <4>1
      <3> QED  BY <3>2, <3>3
    <2> HIDE DEF s
    <2>10. Len(s) < Len(trail) /\ store'[key] = Append(s, trail[Len(s) + 1])
      BY <2>2, <2>3, <2>5, <2>9
    <2>11. \A n \in DOMAIN store'[key] : n \in DOMAIN trail /\ store'[key][n] = trail[n]
      <3>1. \A n \in DOMAIN Append(s, e) : (n \in DOMAIN s /\ Append(s, e)[n] = s[n]) \/ (n = m /\ Append(s, e)[n] = e)
        BY <2>2, <2>3, <2>9, Longer
      <3> QED  BY <2>2, <2>4, <2>5, <3>1
    <2>12. \A k \in 1..MaxKeys : store'[k] # <<>> => k = key
      BY <1>5, <2>1 DEF OneStore
    <2>13. \A p \in wire' : p.key = key' /\ \A n \in DOMAIN p.rows : \E j \in DOMAIN trail' : p.rows[n] = trail'[j]
      BY <1>2 DEF OneStore
    <2>14. OneStore'
      BY <1>2, <2>1, <2>11, <2>12, <2>13 DEF OneStore
    <2> QED  BY <2>1, <2>10, <2>14 DEF s
  <1> QED  BY <1>3, <1>4, <1>5

\* A reload finds what there is: the image on disk is the one in memory.
LEMMA ReloadFaithful ==
    ASSUME LoseInv, OneStore, Reloads, disk = [trail |-> trail, cursor |-> cursor, key |-> key]
    PROVE  OneStore' /\ UNCHANGED <<trail, cursor, key, store>>
  <1>1. Reload(disk)  BY DEF Reloads
  <1>2. UNCHANGED <<trail, cursor, key, store>> /\ GiveUp(Flows)
    BY <1>1 DEF Reload
  <1>3. \A p \in wire' : \E q \in wire : q.key = p.key /\ q.rows = p.rows
    <2>1. \A q \in wire' : q.to = NoFlow
      BY <1>2, GiveUpRequests, Requests DEF LoseInv, TypeOK, Request
    <2>2. Inherited  BY <1>2, GiveUpInherited DEF LoseInv
    <2> QED  BY <2>1, <2>2 DEF Inherited
  <1> QED  BY <1>2, <1>3, SameFaithful

LEMMA FaithfulStep ==
    ASSUME LoseInv, LoseInv', OrderInv, Faithful, [MCNext]_<<vars, refused, seen>>
    PROVE  Faithful'
  <1>1. CASE MCNext /\ ~refused'
    <2>1. /\ OneStore /\ disk = [trail |-> trail, cursor |-> cursor, key |-> key]
          /\ disk' = [trail |-> trail', cursor |-> cursor', key |-> key'] /\ seen' = Now'
      BY <1>1, FaithfulParts
    <2>2. [Next]_vars  BY <1>1 DEF MCNext
    <2>3. OneStore'
      BY <2>1, <2>2, StepShapes, RecordFaithful, TakesNext, ReloadFaithful, DrainsFaithful DEF LoseInv
    <2>4. refused' \in BOOLEAN  BY <1>1 DEF MCNext, Faithful
    <2> QED  BY <2>1, <2>3, <2>4 DEF Faithful
  <1>2. CASE MCNext /\ refused'
    <2>1. refused' \in BOOLEAN  BY <1>2 DEF MCNext, Faithful
    <2> QED  BY <1>2, <2>1 DEF Faithful
  <1>3. CASE UNCHANGED <<vars, refused, seen>>
    BY <1>3 DEF vars, Faithful, OneStore, Now
  <1> QED  BY <1>1, <1>2, <1>3

LEMMA FaithfulInit ==
    ASSUME MCInit
    PROVE  Faithful
  <1>1. trail = <<>> /\ cursor = 0 /\ key = 0 /\ wire = {} /\ disk = [trail |-> <<>>, cursor |-> 0, key |-> 0]
        /\ refused = FALSE /\ seen = Now
    BY DEF MCInit, Init
  <1>2. \A k \in 1..MaxKeys : store[k] = <<>>  BY DEF MCInit, Init
  <1> QED  BY <1>1, <1>2 DEF Faithful, OneStore

\* MCSpec only adds history.
LEMMA Underneath == MCSpec => Spec
  <1>1. MCInit => Init  BY DEF MCInit
  <1>2. [MCNext]_<<vars, refused, seen>> => [Next]_vars  BY DEF MCNext
  <1> QED  BY <1>1, <1>2, PTL DEF MCSpec, Spec

LEMMA OrderInvariant == Spec => [](LoseInv /\ OrderInv)
  BY OrderInit, OrderStep, LoseInvariant, PTL DEF Spec

LEMMA FaithfulInvariant == MCSpec => [](LoseInv /\ OrderInv /\ Faithful)
  <1>1. LoseInv /\ LoseInv' /\ OrderInv /\ Faithful /\ [MCNext]_<<vars, refused, seen>> => Faithful'
    BY FaithfulStep
  <1>2. MCInit => Faithful  BY FaithfulInit
  <1> QED  BY <1>1, <1>2, OrderInvariant, Underneath, PTL DEF MCSpec

\* As long as the disk takes every write, all rows of a project are under one key.
THEOREM OneTrailHolds == MCSpec => []OneTrail
  <1>1. Faithful => OneTrail
    BY DEF Faithful, OneStore, OneTrail
  <1> QED  BY <1>1, FaithfulInvariant, PTL

-----------------------------------------------------------------------------
(* The refinement. *)

\* The log before and after a step.
LEMMA LogStep ==
    ASSUME LoseInv, LoseInv', OrderInv, Faithful, Faithful', [MCNext]_<<vars, refused, seen>>
    PROVE  [Log!Record \/ Log!Store \/ Log!Confirm]_(Log!logVars)
  <1>1. CASE seen' = seen
    BY <1>1 DEF Log!logVars
  <1>2. CASE MCNext /\ ~refused'
    <2>1. /\ OneStore /\ disk = [trail |-> trail, cursor |-> cursor, key |-> key]
          /\ seen = Now /\ seen' = Now'
      BY <1>2, FaithfulParts
    <2>2. /\ seen.recorded = trail /\ seen'.recorded = trail'
          /\ seen.stored = (IF key = 0 THEN <<>> ELSE store[key])
          /\ seen'.stored = (IF key' = 0 THEN <<>> ELSE store'[key'])
          /\ seen.confirmed = cursor /\ seen'.confirmed = cursor'
      BY <2>1 DEF Now
    <2>3. RecordEvent \/ ServerTakes \/ Reloads \/ Drains
      BY <1>2, StepShapes DEF MCNext, LoseInv
    <2>4. CASE RecordEvent
      <3>1. minted' \in Entries /\ trail' = Append(trail, minted') /\ UNCHANGED <<cursor, key, store>>
        BY <2>4 DEF RecordEvent, LoseInv, TypeOK, Entries
      <3>2. Log!Record
        BY <2>2, <3>1 DEF Log!Record
      <3> QED  BY <3>2
    <2>5. CASE ServerTakes
      <3>1. UNCHANGED <<trail, cursor, key>>  BY <2>5, TakesFacts
      <3>2. \/ store' = store
            \/ /\ key # 0 /\ Len(store[key]) < Len(trail)
               /\ store'[key] = Append(store[key], trail[Len(store[key]) + 1])
        BY <2>1, <2>5, TakesNext
      <3>3. CASE store' = store
        BY <2>2, <3>1, <3>3 DEF Log!logVars
      <3>4. CASE key # 0 /\ Len(store[key]) < Len(trail)
                   /\ store'[key] = Append(store[key], trail[Len(store[key]) + 1])
        <4>1. Log!Store  BY <2>2, <3>1, <3>4 DEF Log!Store
        <4> QED  BY <4>1
      <3> QED  BY <3>2, <3>3, <3>4
    <2>6. CASE Reloads
      <3>1. UNCHANGED <<trail, cursor, key, store>>
        BY <2>1, <2>6, ReloadFaithful
      <3> QED  BY <2>2, <3>1 DEF Log!logVars
    <2>7. CASE Drains
      <3>1. UNCHANGED <<trail, store>> /\ (key' = key \/ (key = 0 /\ key' = keys + 1))
        BY <2>7 DEF Drains
      <3>2. seen'.stored = seen.stored
        <4>1. CASE key' = key  BY <2>2, <3>1, <4>1
        <4>2. CASE key = 0 /\ key' # 0
          <5>1. key' \in 1..MaxKeys  BY <4>2 DEF LoseInv, TypeOK
          <5>2. store[key'] = <<>>  BY <2>1, <4>2, <5>1 DEF OneStore
          <5> QED  BY <2>2, <3>1, <4>2, <5>2
        <4> QED  BY <3>1, <4>1, <4>2
      <3>3. OneStore'  BY <1>2 DEF Faithful
      <3>4. cursor' \in 0..Len(seen'.stored)
        <4>1. cursor' \in Nat /\ \A n \in 1..cursor' : trail'[n] \in Held'
          BY DEF LoseInv, TypeOK, MemoryCovered, Covered, HeldUnder, Held
        <4>2. CASE cursor' = 0
          <5>1. seen'.stored \in Seq(Entries)
            BY <2>2 DEF LoseInv, TypeOK
          <5> QED  BY <4>2, <5>1
        <4>3. CASE cursor' # 0
          <5>1. cursor' \in 1..cursor' /\ trail'[cursor'] \in Held'  BY <4>1, <4>3
          <5>2. key' \in 1..MaxKeys  BY <5>1 DEF Held, LoseInv, TypeOK
          <5>3. PICK n \in DOMAIN store'[key'] : store'[key'][n] = trail'[cursor']
            BY <5>1, <5>2 DEF Held, Elems
          <5>4. n \in DOMAIN trail' /\ trail'[n] = trail'[cursor']
            BY <3>3, <5>2, <5>3 DEF OneStore
          <5>5. /\ DOMAIN store'[key'] = 1..Len(store'[key']) /\ Len(store'[key']) \in Nat
                /\ DOMAIN trail' = 1..Len(trail') /\ Len(trail') \in Nat
                /\ trail' \in Seq(Entries) /\ cursor' <= Len(trail')
            <6>1. store'[key'] \in Seq(Entries) /\ trail' \in Seq(Entries)
              BY <5>2 DEF LoseInv, TypeOK
            <6> QED  BY <6>1 DEF LoseInv, MemoryCovered, Covered
          <5>6. cursor' = n
            <6>1. cursor' \in DOMAIN trail  BY <3>1, <4>1, <4>3, <5>5
            <6>2. n \in DOMAIN trail /\ trail[n] = trail[cursor'] /\ trail[n] \in Nat
              BY <3>1, <5>4, Numbers DEF LoseInv
            <6>3. (n < cursor' => trail[n] < trail[cursor']) /\ (cursor' < n => trail[cursor'] < trail[n])
              BY <6>1, <6>2 DEF OrderInv, Rows
            <6>4. n \in Nat  BY <5>5, <5>4
            <6> QED  BY <4>1, <6>2, <6>3, <6>4
          <5> QED  BY <2>2, <4>1, <5>2, <5>3, <5>5, <5>6
        <4> QED  BY <4>2, <4>3
      <3>5. Log!Confirm  BY <2>2, <3>1, <3>2, <3>4 DEF Log!Confirm
      <3> QED  BY <3>5
    <2> QED  BY <2>3, <2>4, <2>5, <2>6, <2>7
  <1>3. CASE MCNext /\ refused'
    BY <1>1, <1>3 DEF MCNext
  <1>4. CASE UNCHANGED <<vars, refused, seen>>
    BY <1>1, <1>4
  <1> QED  BY <1>2, <1>3, <1>4 DEF Faithful

\* The push implements the abstract log, until the disk first refuses a write: rows are
\* recorded, stored in order without a gap, and counted as confirmed only when stored.
THEOREM ImplementsLogHolds == MCSpec => ImplementsLog
  <1>1. MCInit => Log!LogInit
    <2> SUFFICES ASSUME MCInit PROVE Log!LogInit  OBVIOUS
    <2>1. seen = Now /\ trail = <<>> /\ key = 0 /\ cursor = 0  BY DEF MCInit, Init
    <2> QED  BY <2>1 DEF Now, Log!LogInit
  <1>2. /\ (LoseInv /\ OrderInv /\ Faithful) /\ (LoseInv /\ OrderInv /\ Faithful)'
        /\ [MCNext]_<<vars, refused, seen>>
        => [Log!Record \/ Log!Store \/ Log!Confirm]_(Log!logVars)
    BY LogStep
  <1> QED
    BY <1>1, <1>2, FaithfulInvariant, PTL DEF MCSpec, ImplementsLog, Log!LogSpec

-----------------------------------------------------------------------------
(***************************************************************************)
(* verify() that ran a drain of its own asks about all rows there were,    *)
(* for any number of drains and rows and every mixture of faults.          *)
(*                                                                         *)
(* A pass ends when it reads no more rows, or after a batch that is short. *)
(* A batch is short because the trail ended there when it was read, which  *)
(* was after verify() was called: the batch reaches past the rows of the   *)
(* call, though the trail may have grown while it was sent.                *)
(***************************************************************************)

\* The server holds the rows up to n.
Reached(n) == n <= Len(trail) /\ \A k \in 1..n : trail[k] \in Held

\* Drain f is going to reach row n, unless it fails.
Reaching(f, n) ==
    \/ flow[f].pc = "ensure"
    \/ /\ flow[f].pc = "append"
       /\ flow[f].last - flow[f].first + 1 < BatchSize => n <= flow[f].last

Verify == [pc : {"idle", "flushing", "asking"}, flow : Flows \cup {NoFlow}, rows : Nat]

Waits(v) == v.pc = "flushing" => v.flow \in Flows /\ flow[v.flow].pc # "idle"

OwnRows(v) ==
    v.flow # NoFlow =>
      /\ v.rows <= Len(trail)
      /\ Reached(v.rows) \/ (v.pc = "flushing" /\ Reaching(v.flow, v.rows))

VerifyInv == verify \in Verify /\ Waits(verify) /\ OwnRows(verify)

-----------------------------------------------------------------------------
(* What the server holds of the trail only grows, until a reload. *)

\* A step that is no reload leaves the rows there are, and their key.
Keeps ==
    /\ Len(trail) <= Len(trail') /\ \A n \in 1..Len(trail) : trail'[n] = trail[n]
    /\ Held \subseteq Held'

\* The steps of the drains touch neither rows nor store, and at most mint a key.
LEMMA DrainKeeps ==
    ASSUME TypeOK, UNCHANGED <<trail, store>>, key' = key \/ key = 0
    PROVE  Keeps
  BY DEF TypeOK, Keeps, Held

LEMMA RecordKeeps == ASSUME TypeOK, RecordEvent PROVE Keeps
  <1>1. trail' = Append(trail, minted') /\ UNCHANGED <<key, store>>
    BY DEF RecordEvent
  <1>2. Len(trail) <= Len(trail') /\ \A n \in 1..Len(trail) : trail'[n] = trail[n]
    BY <1>1 DEF TypeOK
  <1> QED  BY <1>1, <1>2 DEF Keeps, Held

LEMMA ServerKeeps == ASSUME TypeOK, ServerTakes PROVE Keeps
  <1>1. UNCHANGED <<trail, key>>
    BY DEF ServerTakes, db
  <1>2. PICK q \in wire : LET e == q.rows[q.at + 1] IN
            /\ q.at < Len(q.rows)
            /\ store' = IF e \in Elems(store[q.key]) THEN store
                        ELSE [store EXCEPT ![q.key] = Append(@, e)]
    BY DEF ServerTakes
  <1>3. q.rows[q.at + 1] \in Entries
    <2>1. q.rows \in Seq(Entries) /\ q.at \in Nat
      BY DEF TypeOK, Request
    <2>2. q.at + 1 \in 1..Len(q.rows)
      BY <1>2, <2>1
    <2> QED  BY <2>1, <2>2, ElementOfSeq
  <1>4. \A k \in 1..MaxKeys : Elems(store[k]) \subseteq Elems(store'[k])
    <2>1. CASE store' = store
      BY <2>1
    <2>2. CASE store' = [store EXCEPT ![q.key] = Append(store[q.key], q.rows[q.at + 1])]
      <3>1. ASSUME NEW k \in 1..MaxKeys, k = q.key
            PROVE  Elems(store[k]) \subseteq Elems(store'[k])
        <4>1. store[k] \in Seq(Entries) /\ store'[k] = Append(store[k], q.rows[q.at + 1])
          BY <2>2, <3>1 DEF TypeOK
        <4> QED  BY <1>3, <4>1, ElemsAppend
      <3>2. ASSUME NEW k \in 1..MaxKeys, k # q.key PROVE store'[k] = store[k]
        BY <2>2, <3>2 DEF TypeOK
      <3> QED  BY <3>1, <3>2
    <2> QED  BY <1>2, <2>1, <2>2
  <1> QED  BY <1>1, <1>4 DEF TypeOK, Keeps, Held

LEMMA BeginPassKey ==
    ASSUME NEW f, NEW i, BeginPass(f, i)
    PROVE  UNCHANGED trail /\ (key' = key \/ key = 0)
  BY DEF BeginPass, EnsureProjectKey

LEMMA FlowKeeps ==
    ASSUME TypeOK, NEW f \in Flows, FlushStart(f) \/ FlowStep(f) \/ FlowFailure(f)
    PROVE  Keeps
  <1>1. CASE FlushStart(f)
    BY <1>1, BeginPassKey, DrainKeeps DEF FlushStart
  <1>2. CASE EnsureProjectDone(f)
    BY <1>2, DrainKeeps DEF EnsureProjectDone, db
  <1>3. CASE AppendConfirmed(f)
    BY <1>3, DrainKeeps DEF AppendConfirmed
  <1>4. CASE PassReturned(f)
    BY <1>4, BeginPassKey, DrainKeeps DEF PassReturned, db
  <1>5. CASE FlowFailure(f)
    BY <1>5, DrainKeeps
       DEF FlowFailure, RetryableFailure, UnlistedTransportFailure, ShortAnswer, Rejected, FailPass
  <1> QED  BY <1>1, <1>2, <1>3, <1>4, <1>5 DEF FlowStep

\* Rows reached stay reached.
LEMMA StaysReached ==
    ASSUME TypeOK, Keeps, NEW n \in Nat, Reached(n)
    PROVE  Reached(n)'
  BY DEF TypeOK, Keeps, Reached

\* Rows the cursor has passed are reached.
LEMMA CursorReaches == ASSUME LoseInv, NEW n \in Nat, n <= cursor PROVE Reached(n)
  BY DEF LoseInv, TypeOK, MemoryCovered, Covered, HeldUnder, Reached, Held

-----------------------------------------------------------------------------
(* A drain on its way to row n. *)

\* Wherever the loop goes on, it ends past the trail or takes a batch that
\* reaches the end of the trail if it is short.
LEMMA NextBatchReaches ==
    ASSUME TypeOK, NEW f \in Flows, NEW i, NEW c \in Nat, NEW r, NEW w, NextBatch(f, i, c, r, w),
           NEW n \in Nat, n <= Len(trail)
    PROVE  /\ \A g \in Flows \ {f} : flow'[g] = flow[g]
           /\ flow'[f].pc \in {"append", "return"}
           /\ c < Len(trail) => Reaching(f, n)'
  <1>1. CASE c >= Len(trail)
    BY <1>1 DEF TypeOK, NextBatch, IdleFlow
  <1>2. CASE c < Len(trail)
    <2>1. flow' = [flow EXCEPT ![f] = [pc |-> "append", inst |-> i, first |-> c + 1,
                                       last |-> BatchEnd(c), stopped |-> FALSE]]
      BY <1>2 DEF NextBatch, TypeOK
    <2>2. /\ flow'[f].pc = "append" /\ flow'[f].first = c + 1 /\ flow'[f].last = BatchEnd(c)
          /\ \A g \in Flows \ {f} : flow'[g] = flow[g]
      BY <2>1 DEF TypeOK
    <2>3. BatchEnd(c) - (c + 1) + 1 < BatchSize => n <= BatchEnd(c)
      BY <1>2, BatchAssumption DEF BatchEnd, TypeOK
    <2> QED  BY <2>2, <2>3 DEF Reaching
  <1> QED  BY <1>1, <1>2 DEF TypeOK

\* A pass that begins is on its way to every row there is, or has reached it.
LEMMA BeginPassReaches ==
    ASSUME LoseInv, LoseInv', NEW f \in Flows, NEW i \in Insts, BeginPass(f, i),
           NEW n \in Nat, n <= Len(trail)
    PROVE  /\ \A g \in Flows \ {f} : flow'[g] = flow[g]
           /\ flow'[f].pc # "idle"
           /\ Reached(n)' \/ Reaching(f, n)'
  <1>1. TypeOK /\ cursor \in Nat /\ UNCHANGED <<trail, cursor>>
    BY DEF LoseInv, TypeOK, BeginPass, EnsureProjectKey
  <1>2. CASE inst[i].registered
    <2>1. NextBatch(f, i, cursor, [inst[i] EXCEPT !.rerun = FALSE, !.running = TRUE], wire)
      BY <1>2 DEF BeginPass, LoseInv, TypeOK, Inst
    <2>2. /\ \A g \in Flows \ {f} : flow'[g] = flow[g]
          /\ flow'[f].pc \in {"append", "return"}
          /\ cursor < Len(trail) => Reaching(f, n)'
      BY <1>1, <2>1, NextBatchReaches
    <2>3. CASE cursor >= Len(trail)
      <3>1. Reached(n)'
        <4>1. n <= cursor'
          BY <1>1, <2>3 DEF TypeOK
        <4>2. (LoseInv /\ n <= cursor => Reached(n))'
          BY CursorReaches, PTL
        <4> QED  BY <4>1, <4>2
      <3> QED  BY <2>2, <3>1
    <2>4. CASE cursor < Len(trail)
      BY <2>2, <2>4
    <2> QED  BY <1>1, <2>3, <2>4 DEF TypeOK
  <1>3. CASE ~inst[i].registered
    <2>1. flow' = [flow EXCEPT ![f] = [IdleFlow(i) EXCEPT !.pc = "ensure"]]
      BY <1>3 DEF BeginPass, LoseInv, TypeOK, Inst
    <2>2. flow'[f].pc = "ensure" /\ \A g \in Flows \ {f} : flow'[g] = flow[g]
      BY <1>1, <2>1 DEF TypeOK, IdleFlow
    <2> QED  BY <2>2 DEF Reaching
  <1> QED  BY <1>2, <1>3

LEMMA FlowNumbers ==
    ASSUME LoseInv, NEW f \in Flows
    PROVE  /\ TypeOK /\ cursor \in Nat /\ Len(trail) \in Nat
           /\ flow[f].inst \in Insts /\ flow[f].first \in Nat /\ flow[f].last \in Nat
  <1>1. TypeOK
    BY DEF LoseInv
  <1>2. flow[f] \in Flow /\ cursor \in Nat /\ trail \in Seq(Entries)
    BY <1>1 DEF TypeOK
  <1>3. flow[f].inst \in Insts /\ flow[f].first \in Nat /\ flow[f].last \in Nat
    BY <1>2 DEF Flow
  <1> QED  BY <1>1, <1>2, <1>3

\* A step of the drain that verify() waits for.
LEMMA OwnStepReaches ==
    ASSUME LoseInv, LoseInv', Keeps, NEW f \in Flows, FlowStep(f),
           NEW n \in Nat, n <= Len(trail), Reached(n) \/ Reaching(f, n)
    PROVE  /\ \A g \in Flows \ {f} : flow'[g] = flow[g]
           /\ Reached(n)' \/ Reaching(f, n)'
  <1>0. /\ TypeOK /\ cursor \in Nat /\ flow[f].inst \in Insts
        /\ flow[f].first \in Nat /\ flow[f].last \in Nat /\ Len(trail) \in Nat
    BY FlowNumbers
  <1>1. (LoseInv /\ n <= cursor => Reached(n))'
    BY CursorReaches, PTL
  <1>2. Reached(n) => Reached(n)'
    BY <1>0, StaysReached
  <1>3. CASE EnsureProjectDone(f)
    <2>1. /\ NextBatch(f, flow[f].inst, cursor, [inst[flow[f].inst] EXCEPT !.registered = TRUE], wire)
          /\ UNCHANGED <<trail, cursor>>
      BY <1>3 DEF EnsureProjectDone, db
    <2>2. /\ \A g \in Flows \ {f} : flow'[g] = flow[g]
          /\ cursor < Len(trail) => Reaching(f, n)'
      BY <1>0, <2>1, NextBatchReaches
    <2>3. cursor >= Len(trail) => n <= cursor'
      BY <1>0, <2>1
    <2> QED  BY <1>0, <1>1, <2>2, <2>3
  <1>4. CASE AppendConfirmed(f)
    <2>1. PICK q \in wire :
            /\ cursor' = flow[f].last /\ UNCHANGED trail
            /\ NextBatch(f, flow[f].inst, LoopFrom(f), [inst[flow[f].inst] EXCEPT !.fails = 0],
                         wire \ {q})
      BY <1>4 DEF AppendConfirmed
    <2>2. LoopFrom(f) \in Nat
      BY <1>0 DEF LoopFrom
    <2>3. /\ \A g \in Flows \ {f} : flow'[g] = flow[g]
          /\ LoopFrom(f) < Len(trail) => Reaching(f, n)'
      BY <1>0, <2>1, <2>2, NextBatchReaches
    <2>4. CASE LoopFrom(f) < Len(trail)
      BY <2>3, <2>4
    <2>5. CASE LoopFrom(f) >= Len(trail) /\ ~Reached(n)
      <3>1. Reaching(f, n) /\ flow[f].pc = "append"
        BY <1>4, <2>5 DEF Reaching, AppendConfirmed
      <3>2. n <= flow[f].last
        BY <1>0, <2>5, <3>1 DEF Reaching, LoopFrom
      <3> QED  BY <1>1, <2>1, <2>3, <3>2
    <2> QED  BY <1>0, <1>2, <2>2, <2>3, <2>4, <2>5
  <1>5. CASE PassReturned(f)
    <2>1. Reached(n)
      BY <1>5 DEF PassReturned, Reaching
    <2>2. \A g \in Flows \ {f} : flow'[g] = flow[g]
      <3>1. CASE BeginPass(f, flow[f].inst)
        BY <1>0, <3>1, BeginPassReaches
      <3>2. CASE flow' = [flow EXCEPT ![f] = IdleFlow(flow[f].inst)]
        BY <3>2, <1>0 DEF TypeOK
      <3> QED  BY <1>5, <3>1, <3>2 DEF PassReturned
    <2> QED  BY <1>2, <2>1, <2>2
  <1> QED  BY <1>3, <1>4, <1>5 DEF FlowStep

\* The other steps leave the drain that verify() waits for alone.
LEMMA OthersStay ==
    ASSUME LoseInv, LoseInv', NEW f \in Flows,
           \/ RecordEvent \/ ServerTakes \/ ReplaceInstance \/ FlushWhileRunning
           \/ \E g \in Flows \ {f} : FlushStart(g) \/ FlowStep(g) \/ FlowFailure(g)
    PROVE  flow'[f] = flow[f]
  <1>0. TypeOK /\ current \in Insts  BY DEF LoseInv, TypeOK
  <1>1. CASE RecordEvent \/ ServerTakes \/ ReplaceInstance \/ FlushWhileRunning
    BY <1>1 DEF RecordEvent, ServerTakes, ReplaceInstance, FlushWhileRunning
  <1>2. ASSUME NEW g \in Flows \ {f}, FlushStart(g) PROVE flow'[f] = flow[f]
    <2>1. BeginPass(g, current)  BY <1>2 DEF FlushStart
    <2>2. 0 \in Nat /\ 0 <= Len(trail)  BY <1>0 DEF TypeOK
    <2> QED  BY <1>0, <2>1, <2>2, BeginPassReaches
  <1>3. ASSUME NEW g \in Flows \ {f}, FlowStep(g) PROVE flow'[f] = flow[f]
    <2>1. Keeps  BY <1>0, <1>3, FlowKeeps
    <2>2. 0 \in Nat /\ 0 <= Len(trail) /\ Reached(0)  BY <1>0 DEF TypeOK, Reached
    <2> QED  BY <1>3, <2>1, <2>2, OwnStepReaches
  <1>4. ASSUME NEW g \in Flows \ {f}, FlowFailure(g) PROVE flow'[f] = flow[f]
    BY <1>0, <1>4 DEF FlowFailure, RetryableFailure, UnlistedTransportFailure, ShortAnswer,
                      Rejected, FailPass, TypeOK
  <1> QED  BY <1>1, <1>2, <1>3, <1>4

\* Each step of the drains keeps their coroutines in Flow, "idle" or not.
LEMMA StaysBusy ==
    ASSUME LoseInv, LoseInv', NEW f \in Flows, EnsureProjectDone(f) \/ AppendConfirmed(f)
    PROVE  flow'[f].pc # "idle"
  <1>0. /\ TypeOK /\ cursor \in Nat /\ flow[f].last \in Nat /\ flow[f].first \in Nat
        /\ 0 \in Nat /\ 0 <= Len(trail) /\ Len(trail) \in Nat
    BY FlowNumbers
  <1>1. CASE EnsureProjectDone(f)
    BY <1>0, <1>1, NextBatchReaches DEF EnsureProjectDone
  <1>2. CASE AppendConfirmed(f)
    <2>1. LoopFrom(f) \in Nat
      BY <1>0 DEF LoopFrom
    <2> QED  BY <1>0, <1>2, <2>1, NextBatchReaches DEF AppendConfirmed
  <1> QED  BY <1>1, <1>2

-----------------------------------------------------------------------------
(* The invariant, step by step. *)

\* The calls as a record: what an EXCEPT of it is.
LEMMA VerifyUpdates ==
    ASSUME NEW v \in Verify
    PROVE  /\ [v EXCEPT !.pc = "asking"] \in Verify
           /\ [v EXCEPT !.pc = "asking"].pc = "asking"
           /\ [v EXCEPT !.pc = "asking"].flow = v.flow
           /\ [v EXCEPT !.pc = "asking"].rows = v.rows
           /\ [v EXCEPT !.rows = 0] \in Verify
           /\ [v EXCEPT !.rows = 0].pc = v.pc
           /\ [v EXCEPT !.rows = 0].flow = v.flow
           /\ [v EXCEPT !.rows = 0].rows = 0
  BY DEF Verify

LEMMA NoVerifyFine == NoVerify \in Verify /\ Waits(NoVerify) /\ OwnRows(NoVerify)
  BY DEF NoVerify, Verify, Waits, OwnRows

\* A call whose drain was left alone, and a call that waits for none.
LEMMA LeftAlone ==
    ASSUME LoseInv, LoseInv', Keeps, VerifyInv, verify' = verify,
           verify.pc = "flushing" => flow'[verify.flow] = flow[verify.flow]
    PROVE  VerifyInv'
  <1>1. verify.rows \in Nat /\ TypeOK
    BY DEF VerifyInv, Verify, LoseInv
  <1>2. verify.rows <= Len(trail) => verify.rows <= Len(trail')
    BY <1>1 DEF Keeps, LoseInv, TypeOK
  <1>3. Reached(verify.rows) => Reached(verify.rows)'
    BY <1>1 DEF TypeOK, Keeps, Reached
  <1>4. verify.pc = "flushing" => (Reaching(verify.flow, verify.rows) => Reaching(verify.flow, verify.rows)')
    BY DEF Reaching
  <1> QED  BY <1>2, <1>3, <1>4 DEF VerifyInv, Waits, OwnRows

\* flush() that leaves a note: the call of verify() goes on as it was.
LEMMA ScheduledKeeps ==
    ASSUME LoseInv, LoseInv', VerifyInv, ScheduleEvidencePush
    PROVE  VerifyInv'
  <1>1. PICK g \in Flows : FlushCall(g)
    BY DEF ScheduleEvidencePush
  <1>2. Keeps
    BY <1>1, FlowKeeps, DrainKeeps DEF FlushCall, FlushWhileRunning, LoseInv, db
  <1>3. verify.pc = "flushing" => flow'[verify.flow] = flow[verify.flow]
    <2> SUFFICES ASSUME verify.pc = "flushing" PROVE flow'[verify.flow] = flow[verify.flow]
      OBVIOUS
    <2>1. verify.flow \in Flows /\ flow[verify.flow].pc # "idle"
      BY DEF VerifyInv, Waits
    <2>2. CASE FlushWhileRunning
      BY <2>2 DEF FlushWhileRunning
    <2>3. CASE FlushStart(g)
      <3>1. g # verify.flow
        BY <2>1, <2>3 DEF FlushStart
      <3> QED  BY <2>1, <2>3, <3>1, OthersStay
    <2> QED  BY <1>1, <2>2, <2>3 DEF FlushCall
  <1> QED  BY <1>2, <1>3, LeftAlone DEF ScheduleEvidencePush

\* verify() begins: its drain has passed the rows there are, or will.
LEMMA VerifyStartKeeps ==
    ASSUME LoseInv, LoseInv', VerifyInv, VerifyStart
    PROVE  VerifyInv'
  <1>0. TypeOK /\ current \in Insts /\ Len(trail) \in Nat
    BY DEF LoseInv, TypeOK
  <1>1. ASSUME NEW f \in Flows, FlushStart(f),
               verify' = [pc |-> "flushing", flow |-> f, rows |-> Len(trail)]
        PROVE  VerifyInv'
    <2>1. BeginPass(f, current)
      BY <1>1 DEF FlushStart
    <2>2. UNCHANGED trail
      BY <2>1, BeginPassKey
    <2>3. PICK n \in Nat : n = Len(trail)
      BY <1>0
    <2>4. flow'[f].pc # "idle" /\ (Reached(n)' \/ Reaching(f, n)')
      BY <1>0, <2>1, <2>3, BeginPassReaches
    <2>5. verify' \in Verify /\ verify'.pc = "flushing" /\ verify'.flow = f /\ verify'.rows = n
      BY <1>0, <1>1, <2>3 DEF Verify
    <2> QED  BY <1>0, <2>2, <2>3, <2>4, <2>5 DEF VerifyInv, Waits, OwnRows
  <1>2. CASE verify' = [pc |-> "asking", flow |-> NoFlow, rows |-> Len(trail)]
    <2>1. verify' \in Verify /\ verify'.pc = "asking" /\ verify'.flow = NoFlow
      BY <1>0, <1>2 DEF Verify
    <2> QED  BY <2>1 DEF VerifyInv, Waits, OwnRows
  <1> QED  BY <1>1, <1>2 DEF VerifyStart

\* The drains and the server go on: the call follows its drain.
LEMMA OthersKeep ==
    ASSUME LoseInv, LoseInv', VerifyInv,
           RecordEvent \/ (\E f \in Flows : FlowStep(f)) \/ ServerTakes \/ ReplaceInstance,
           FlushReturned
    PROVE  VerifyInv'
  <1>0. TypeOK /\ verify \in Verify /\ verify.rows \in Nat /\ Waits(verify) /\ OwnRows(verify)
    BY DEF LoseInv, VerifyInv, Verify
  <1>1. Keeps
    BY <1>0, FlowKeeps, RecordKeeps, ServerKeeps, DrainKeeps DEF ReplaceInstance, db
  <1>2. CASE verify.pc # "flushing"
    BY <1>1, <1>2, LeftAlone DEF FlushReturned
  <1>3. CASE verify.pc = "flushing"
    <2>0. PICK F \in Flows, n \in Nat : F = verify.flow /\ n = verify.rows
      BY <1>0, <1>3 DEF Waits
    <2>1. F # NoFlow /\ flow[F].pc # "idle"
      BY <1>0, <1>3, <2>0, NoFlowAssumption DEF Waits
    <2>2. n <= Len(trail) /\ n <= Len(trail') /\ (Reached(n) \/ Reaching(F, n))
      BY <1>0, <1>1, <2>0, <2>1 DEF OwnRows, Keeps, LoseInv, TypeOK
    <2>3. Reached(n)' \/ Reaching(F, n)'
      <3>1. CASE FlowStep(F)
        BY <1>0, <1>1, <2>1, <2>2, <3>1, OwnStepReaches
      <3>2. CASE flow'[F] = flow[F]
        BY <1>0, <1>1, <2>2, <3>2, StaysReached DEF Reaching
      <3> QED  BY <2>1, <3>1, <3>2, OthersStay
    <2>4. CASE flow'[F].pc = "idle"
      <3>1. verify' = [verify EXCEPT !.pc = "asking"]
        BY <1>3, <2>0, <2>4 DEF FlushReturned
      <3>2. verify' \in Verify /\ verify'.pc = "asking" /\ verify'.flow = F /\ verify'.rows = n
        BY <1>0, <2>0, <3>1, VerifyUpdates
      <3>3. Reached(n)'
        BY <2>3, <2>4 DEF Reaching
      <3> QED  BY <2>2, <3>2, <3>3 DEF VerifyInv, Waits, OwnRows
    <2>5. CASE flow'[F].pc # "idle"
      <3>1. verify' = verify
        BY <1>3, <2>0, <2>5 DEF FlushReturned
      <3> QED  BY <1>0, <1>3, <2>0, <2>1, <2>2, <2>3, <2>5, <3>1 DEF VerifyInv, Waits, OwnRows
    <2> QED  BY <2>4, <2>5
  <1> QED  BY <1>2, <1>3

LEMMA FailPassReturns ==
    ASSUME TypeOK, NEW f \in Flows, NEW permanent, FailPass(f, permanent)
    PROVE  flow'[f].pc = "return"
  <1>1. \A i, b : [IdleFlow(i) EXCEPT !.pc = "return", !.stopped = b].pc = "return"
    BY DEF IdleFlow
  <1> QED  BY <1>1 DEF FailPass, TypeOK

\* A pass fails: nothing is promised of its rows; other calls go on.
LEMMA FailureKeeps ==
    ASSUME LoseInv, LoseInv', VerifyInv, PassFails
    PROVE  VerifyInv'
  <1>0. TypeOK /\ verify \in Verify /\ Waits(verify) /\ OwnRows(verify)
    BY DEF LoseInv, VerifyInv
  <1>1. PICK f \in Flows :
          /\ FlowFailure(f)
          /\ verify' = IF verify.flow = f THEN [verify EXCEPT !.rows = 0] ELSE verify
    BY DEF PassFails
  <1>2. Keeps
    BY <1>0, <1>1, FlowKeeps
  <1>3. CASE verify.flow = f
    <2>1. /\ verify' \in Verify /\ verify'.pc = verify.pc
          /\ verify'.flow = f /\ verify'.rows = 0
      BY <1>0, <1>1, <1>3, VerifyUpdates
    <2>2. flow'[f].pc = "return"
      BY <1>0, <1>1, FailPassReturns
         DEF FlowFailure, RetryableFailure, UnlistedTransportFailure, ShortAnswer, Rejected
    <2>3. Len(trail') \in Nat
      BY DEF LoseInv, TypeOK
    <2>4. Reached(0)'
      BY <2>3 DEF Reached
    <2> QED  BY <2>1, <2>2, <2>3, <2>4 DEF VerifyInv, Waits, OwnRows
  <1>4. CASE verify.flow # f
    <2>1. verify.pc = "flushing" => flow'[verify.flow] = flow[verify.flow]
      BY <1>0, <1>1, <1>4, OthersStay DEF Waits
    <2> QED  BY <1>1, <1>2, <1>4, <2>1, LeftAlone
  <1> QED  BY <1>3, <1>4

\* Every step keeps it.
LEMMA VerifyInvStep ==
    LoseInv /\ LoseInv' /\ VerifyInv /\ [CallersNext]_callerVars => VerifyInv'
  <1> SUFFICES ASSUME LoseInv, LoseInv', VerifyInv, [CallersNext]_callerVars
               PROVE  VerifyInv'
    OBVIOUS
  <1>1. CASE VerifyEnd
    <2>1. NoVerify \in Verify /\ NoVerify.flow = NoFlow /\ NoVerify.pc = "idle"
      BY NoVerifyFine DEF NoVerify
    <2> QED  BY <1>1, <2>1 DEF VerifyEnd, VerifyInv, Waits, OwnRows
  <1>2. CASE Restart
    <2>1. NoVerify \in Verify /\ NoVerify.flow = NoFlow /\ NoVerify.pc = "idle"
      BY NoVerifyFine DEF NoVerify
    <2> QED  BY <1>2, <2>1 DEF Restart, VerifyInv, Waits, OwnRows
  <1>3. CASE UNCHANGED callerVars
    <2>1. Keeps
      BY <1>3, DrainKeeps DEF callerVars, vars, LoseInv
    <2> QED  BY <1>3, <2>1, LeftAlone DEF callerVars, vars
  <1> QED
    BY <1>1, <1>2, <1>3, ScheduledKeeps, VerifyStartKeeps, OthersKeep, FailureKeeps
       DEF CallersNext, Others

-----------------------------------------------------------------------------
(* The theorem. *)

\* The callers only do what EvidenceSync lets them.
LEMMA CallersUnderneath == CallersSpec => Spec
  <1>1. CallersInit => Init  BY DEF CallersInit
  <1>2. ASSUME [CallersNext]_callerVars PROVE [Next]_vars
    <2>1. CASE ScheduleEvidencePush
      BY <2>1 DEF ScheduleEvidencePush, FlushCall, Next
    <2>2. CASE VerifyStart
      BY <2>2 DEF VerifyStart, Next
    <2>3. CASE VerifyEnd
      BY <2>3 DEF VerifyEnd
    <2>4. CASE Others
      BY <2>4 DEF Others, PassFails, Next
    <2>5. CASE Restart
      BY <2>5 DEF Restart, Next
    <2>6. CASE UNCHANGED callerVars
      BY <2>6 DEF callerVars
    <2> QED  BY <1>2, <2>1, <2>2, <2>3, <2>4, <2>5, <2>6 DEF CallersNext
  <1> QED  BY <1>1, <1>2, PTL DEF CallersSpec, Spec

\* The inductive invariant of verify(), on top of that of the drains.
THEOREM VerifyInvariant == CallersSpec => [](LoseInv /\ VerifyInv)
  <1>1. CallersInit => VerifyInv
    BY NoVerifyFine DEF CallersInit, VerifyInv, NoVerify, Waits, OwnRows
  <1> QED  BY <1>1, VerifyInvStep, CallersUnderneath, LoseInvariant, PTL DEF CallersSpec

\* A verify() whose own drain did not fail asks about a trail that holds every row
\* there was when it was called.
THEOREM OwnDrainCoversHolds == CallersSpec => []OwnDrainCovers
  <1>1. VerifyInv => OwnDrainCovers
    BY DEF VerifyInv, OwnRows, OwnDrainCovers, Reached
  <1> QED  BY <1>1, VerifyInvariant, PTL
=============================================================================
