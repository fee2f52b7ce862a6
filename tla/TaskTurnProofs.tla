--------------------------- MODULE TaskTurnProofs ---------------------------
(***************************************************************************)
(* Safety of TaskTurn for answers and tasks of any length.  Everything     *)
(* follows from one invariant of the streaming state, Sound, which every   *)
(* call of presentAssistantMessage preserves (EnterSound) and so does every *)
(* step of either coroutine.                                               *)
(***************************************************************************)
EXTENDS TaskTurn, SequenceTheorems, TLAPS

Begun(x, n) == \E m \in DOMAIN x.begun : x.begun[m] = n

\* The blocks: only the last can be partial, a finished call is a closed one.
SoundContent(c) ==
    \A n \in DOMAIN c :
      /\ c[n].partial => n = Len(c)
      /\ c[n].kind = "tool" /\ ~c[n].partial => c[n].closed

\* The presenter: at work under the lock, on a closed call or on none.
SoundWork(x) ==
    /\ x.locked <=> x.at # "idle"
    /\ x.at # "idle" => x.index <= MaxBlocks
    /\ x.at # "idle" /\ ~x.copy.partial =>
         Begun(x, x.index) /\ (x.copy.kind = "tool" => x.copy.closed)

\* The index: what was begun is below it, or at it and still worked on; what
\* is below it was begun, or passed because a tool was rejected or used.
SoundIndex(x) ==
    /\ \A m, n \in DOMAIN x.begun : m < n => x.begun[m] < x.begun[n]
    /\ \A m \in DOMAIN x.begun :
         /\ x.begun[m] <= x.index
         /\ x.begun[m] = x.index => x.at # "idle" /\ ~x.copy.partial
    /\ x.reject \/ x.used \/ \A n \in 1..x.index - 1 : Begun(x, n)

\* Readiness: only with the presenter at rest past the last block.
SoundReady(x) == x.ready => x.at = "idle" /\ x.index > Len(x.content)

Sound(x) ==
    /\ x \in Streaming
    /\ SoundContent(x.content) /\ SoundWork(x) /\ SoundIndex(x) /\ SoundReady(x)

\* Answers are sequences of at most MaxBlocks blocks.
LEMMA AnswerIsSeq ==
    ASSUME NEW c \in Answers
    PROVE  /\ c \in Seq(Block)
           /\ Len(c) \in 0..MaxBlocks
           /\ DOMAIN c = 1..Len(c)
           /\ \A n \in 1..Len(c) : c[n] \in Block
  <1>1. PICK n \in 0..MaxBlocks : c \in [1..n -> Block]  BY DEF Answers
  <1>2. n \in Nat  BY <1>1, BlocksAssumption
  <1>3. c \in Seq(Block) /\ Len(c) = n  BY <1>1, <1>2
  <1> QED  BY <1>1, <1>3

\* A function of the right shape is an answer.
LEMMA SeqIsAnswer ==
    ASSUME NEW n \in 0..MaxBlocks, NEW c \in [1..n -> Block]
    PROVE  c \in Answers /\ Len(c) = n /\ DOMAIN c = 1..n
  <1>1. n \in Nat  BY BlocksAssumption
  <1>2. Len(c) = n  BY <1>1
  <1> QED  BY <1>2 DEF Answers

\* Taking up the block at the index keeps the streaming state sound.
LEMMA TakeUpSound ==
    ASSUME NEW x, Sound(x), ~x.locked, x.index <= Len(x.content)
    PROVE  Sound(TakeUp(x))
  <1> DEFINE b == x.content[x.index]
             y == TakeUp(x)
  <1>0. x \in Streaming  BY DEF Sound
  <1>1. x.index \in 1..Len(x.content) /\ DOMAIN x.content = 1..Len(x.content)
        /\ Len(x.content) \in 0..MaxBlocks
    <2>1. x.content \in Answers /\ x.index \in 1..MaxBlocks + 1  BY <1>0 DEF Streaming
    <2> QED  BY <2>1, AnswerIsSeq
  <1>2. b \in Block  BY <1>0, <1>1, AnswerIsSeq DEF Streaming
  <1>3. x.index \in 1..MaxBlocks  BY <1>1, BlocksAssumption
  <1>4. x.begun \in Seq(1..MaxBlocks)  BY <1>0 DEF Streaming
  <1>5. /\ y.content = x.content /\ y.index = x.index /\ y.locked /\ y.at = "working"
        /\ y.copy = b /\ y.ready = x.ready /\ y.reject = x.reject /\ y.used = x.used
        /\ y.begun = IF b.partial THEN x.begun ELSE Append(x.begun, x.index)
    BY <1>0 DEF TakeUp, Streaming
  <1>6. y.begun \in Seq(1..MaxBlocks)
    <2>1. Append(x.begun, x.index) \in Seq(1..MaxBlocks)  BY <1>3, <1>4, AppendProperties
    <2> HIDE DEF y
    <2> QED  BY <1>4, <1>5, <2>1
  <1>7. y \in Streaming
    <2>1. (IF b.partial THEN x.begun ELSE Append(x.begun, x.index)) \in Seq(1..MaxBlocks)
      BY <1>5, <1>6
    <2> QED  BY <1>0, <1>2, <2>1 DEF TakeUp, Streaming
  <1>8. x.at = "idle" /\ \A m \in DOMAIN x.begun : x.begun[m] < x.index
    <2>1. x.at = "idle"  BY DEF Sound, SoundWork
    <2>2. \A m \in DOMAIN x.begun : x.begun[m] <= x.index /\ x.begun[m] # x.index
      BY <2>1 DEF Sound, SoundIndex
    <2>3. \A m \in DOMAIN x.begun : x.begun[m] \in 1..MaxBlocks
      BY <1>4, ElementOfSeq, LenProperties
    <2> QED  BY <2>1, <2>2, <2>3, <1>3
  <1>9. /\ \A n : Begun(x, n) => Begun(y, n)
        /\ ~b.partial => Begun(y, x.index)
        /\ \A m, n \in DOMAIN y.begun : m < n => y.begun[m] < y.begun[n]
        /\ \A m \in DOMAIN y.begun : y.begun[m] <= x.index /\ (y.begun[m] = x.index => ~b.partial)
    <2>1. CASE b.partial
      BY <2>1, <1>3, <1>4, <1>5, <1>8 DEF Sound, SoundIndex, Begun
    <2>2. CASE ~b.partial
      <3> DEFINE k == Len(x.begun)
      <3>1. k \in Nat /\ DOMAIN x.begun = 1..k  BY <1>4
      <3>2. /\ DOMAIN y.begun = 1..k + 1
            /\ \A m \in 1..k : y.begun[m] = x.begun[m]
            /\ y.begun[k + 1] = x.index
        BY <2>2, <1>3, <1>4, <1>5
      <3>3. \A m, n \in 1..k : m < n => x.begun[m] < x.begun[n]
        BY <3>1 DEF Sound, SoundIndex
      <3>4. \A m \in 1..k : y.begun[m] < x.index  BY <3>1, <3>2, <1>8
      <3>5. \A m, n \in DOMAIN y.begun : m < n => y.begun[m] < y.begun[n]
        BY <3>1, <3>2, <3>3, <3>4
      <3>6. \A n : Begun(x, n) => Begun(y, n)  BY <3>1, <3>2 DEF Begun
      <3>7. Begun(y, x.index)  BY <3>1, <3>2 DEF Begun
      <3> HIDE DEF y, k, b
      <3>8. \A m \in DOMAIN y.begun : y.begun[m] <= x.index
        <4>1. \A m \in DOMAIN y.begun : y.begun[m] \in 1..MaxBlocks
          BY <1>6, ElementOfSeq, LenProperties
        <4> QED  BY <3>1, <3>2, <3>4, <4>1, <1>3
      <3> QED  BY <2>2, <3>5, <3>6, <3>7, <3>8
    <2> QED  BY <2>1, <2>2
  <1>10. SoundContent(y.content) /\ (b.kind = "tool" /\ ~b.partial => b.closed)
    BY <1>1, <1>5 DEF Sound, SoundContent
  <1>11. SoundWork(y)
    <2>1. x.index <= MaxBlocks  BY <1>1, BlocksAssumption
    <2> QED  BY <2>1, <1>5, <1>9, <1>10 DEF SoundWork
  <1>12. SoundIndex(y)
    <2>1. y.reject \/ y.used \/ \A n \in 1..y.index - 1 : Begun(y, n)
      BY <1>5, <1>9 DEF Sound, SoundIndex
    <2> QED  BY <1>5, <1>9, <2>1 DEF SoundIndex
  <1>13. SoundReady(y)
    <2>1. ~x.ready
      <3>1. x.index \in Nat /\ Len(x.content) \in Nat  BY <1>1, BlocksAssumption
      <3> QED  BY <3>1 DEF Sound, SoundReady
    <2> QED  BY <2>1, <1>5 DEF SoundReady
  <1>14. Sound(y)
    <2> HIDE DEF y
    <2> QED  BY <1>7, <1>10, <1>11, <1>12, <1>13 DEF Sound
  <1> QED  BY <1>14

\* The parts of the streaming state Sound speaks of, readiness apart.
SameButReady(x, y) ==
    /\ y.content = x.content /\ y.index = x.index /\ y.locked = x.locked /\ y.at = x.at
    /\ y.copy = x.copy /\ y.reject = x.reject /\ y.used = x.used /\ y.begun = x.begun

\* Sound depends on those parts only.
LEMMA SameSound ==
    ASSUME NEW x, NEW y, Sound(x), y \in Streaming, SameButReady(x, y),
           y.ready = x.ready \/ SoundReady(y)
    PROVE  Sound(y)
  <1>1. SoundContent(y.content) /\ SoundWork(y) /\ SoundIndex(y)
    BY DEF Sound, SoundWork, SoundIndex, SameButReady, Begun
  <1>2. SoundReady(y)  BY DEF Sound, SoundReady, SameButReady
  <1> QED  BY <1>1, <1>2 DEF Sound

\* A call of presentAssistantMessage keeps the streaming state sound, and does
\* not touch what tools were rejected or used.
LEMMA EnterSound ==
    ASSUME NEW x, Sound(x)
    PROVE  Sound(Enter(x)) /\ Enter(x).used = x.used /\ (x.ready => Enter(x).ready)
  <1>0. x \in Streaming  BY DEF Sound
  <1>1. CASE abort  BY <1>1 DEF Enter
  <1>2. CASE ~abort /\ x.locked
    <2>1. Enter(x) = [x EXCEPT !.pending = TRUE]  BY <1>2 DEF Enter
    <2>2. Enter(x) \in Streaming  BY <1>0, <2>1 DEF Streaming
    <2>3. SameButReady(x, Enter(x)) /\ Enter(x).ready = x.ready
      BY <1>0, <2>1 DEF Streaming, SameButReady
    <2> QED  BY <2>2, <2>3, SameSound DEF SameButReady
  <1>3. CASE ~abort /\ ~x.locked /\ x.index > Len(x.content)
    <2>1. Enter(x) = [x EXCEPT !.pending = FALSE, !.ready = @ \/ x.complete]
      BY <1>3 DEF Enter
    <2>2. x.at = "idle"  BY <1>3 DEF Sound, SoundWork
    <2>3. Enter(x) \in Streaming  BY <1>0, <2>1 DEF Streaming
    <2>4. SameButReady(x, Enter(x)) /\ Enter(x).ready = (x.ready \/ x.complete)
      BY <1>0, <2>1 DEF Streaming, SameButReady
    <2>5. SoundReady(Enter(x))  BY <1>3, <2>2, <2>4 DEF SoundReady, SameButReady
    <2> QED  BY <2>3, <2>4, <2>5, SameSound DEF SameButReady
  <1>4. CASE ~abort /\ ~x.locked /\ ~(x.index > Len(x.content))
    <2>1. Enter(x) = TakeUp(x)  BY <1>4 DEF Enter
    <2>2. x.index \in Nat /\ Len(x.content) \in Nat
      BY <1>0, AnswerIsSeq, BlocksAssumption DEF Streaming
    <2>3. TakeUp(x).used = x.used /\ TakeUp(x).ready = x.ready  BY <1>0 DEF TakeUp, Streaming
    <2> QED  BY <1>4, <2>1, <2>2, <2>3, TakeUpSound
  <1> QED  BY <1>1, <1>2, <1>3, <1>4

\* Finishing the stream drops an unfinished call and completes the rest.
LEMMA FinishStreamSound ==
    ASSUME NEW x, Sound(x)
    PROVE  Sound(FinishStream(x)) /\ FinishStream(x).used = x.used
  <1> DEFINE c == x.content
             kept == WithoutUnfinishedCall(c)
             rest == Completed(kept)
             y == [x EXCEPT !.complete = TRUE, !.content = rest,
                            !.dropped = Len(kept) < Len(c)]
  <1>0. x \in Streaming /\ c \in Answers  BY DEF Sound, Streaming
  <1>1. PICK n \in 0..MaxBlocks : c \in [1..n -> Block] /\ Len(c) = n
    BY <1>0, AnswerIsSeq, BlocksAssumption DEF Answers
  <1>2. PICK k \in 0..n : /\ kept \in [1..k -> Block] /\ Len(kept) = k
                          /\ \A m \in 1..k : kept[m] = c[m]
                          /\ \A m \in 1..k : kept[m].partial => kept[m].kind = "text"
    <2>1. CASE c # <<>> /\ c[Len(c)].partial /\ c[Len(c)].kind = "tool"
      <3>1. kept = SubSeq(c, 1, n - 1)  BY <2>1, <1>1 DEF WithoutUnfinishedCall
      <3>2. n \in Nat \ {0}
        BY <2>1, <1>0, <1>1, AnswerIsSeq, BlocksAssumption
      <3>3. kept \in [1..n - 1 -> Block] /\ Len(kept) = n - 1
            /\ \A m \in 1..n - 1 : kept[m] = c[m]
        <4>1. c \in Seq(Block) /\ Len(c) = n  BY <1>0, <1>1, AnswerIsSeq
        <4>2. kept = [m \in 1..n - 1 |-> c[m]]  BY <3>1, <3>2, <4>1
        <4>3. \A m \in 1..n - 1 : c[m] \in Block  BY <1>1, <3>2
        <4>4. n - 1 \in Nat  BY <3>2
        <4> HIDE DEF kept, c
        <4> QED  BY <4>2, <4>3, <4>4
      <3>4. \A m \in 1..n - 1 : ~c[m].partial
        <4>1. \A m \in 1..n - 1 : m \in DOMAIN c /\ m # Len(c)  BY <3>2, <1>1
        <4> QED  BY <4>1 DEF Sound, SoundContent
      <3> HIDE DEF kept, c
      <3>5. n - 1 \in 0..n /\ \A m \in 1..n - 1 : ~kept[m].partial  BY <3>2, <3>3, <3>4
      <3> QED  BY <3>3, <3>5
    <2>2. CASE ~(c # <<>> /\ c[Len(c)].partial /\ c[Len(c)].kind = "tool")
      <3>1. kept = c  BY <2>2 DEF WithoutUnfinishedCall
      <3>2. \A m \in 1..n : c[m].partial => m = n  BY <1>1 DEF Sound, SoundContent
      <3>3. \A m \in 1..n : c[m].kind \in {"text", "tool"}  BY <1>1 DEF Block
      <3>4. n = 0 \/ c # <<>>  BY <1>1
      <3> QED  BY <2>2, <3>1, <3>2, <3>3, <3>4, <1>1, BlocksAssumption
    <2> QED  BY <2>1, <2>2
  <1>3. /\ rest \in [1..k -> Block] /\ k \in 0..MaxBlocks
        /\ \A m \in 1..k : /\ ~rest[m].partial /\ rest[m].kind = kept[m].kind
                           /\ rest[m].closed = kept[m].closed
    <2>1. DOMAIN kept = 1..k /\ \A m \in 1..k : kept[m] \in Block  BY <1>2
    <2>2. rest = [m \in 1..k |-> [kept[m] EXCEPT !.partial = FALSE]]
      BY <2>1 DEF Completed
    <2>3. \A m \in 1..k : [kept[m] EXCEPT !.partial = FALSE] \in Block  BY <2>1 DEF Block
    <2>4. k \in 0..MaxBlocks  BY <1>1, <1>2, BlocksAssumption
    <2> HIDE DEF rest, kept
    <2>5. \A m \in 1..k : rest[m] = [kept[m] EXCEPT !.partial = FALSE]  BY <2>2
    <2> QED  BY <2>1, <2>2, <2>3, <2>4, <2>5 DEF Block
  <1>4. rest \in Answers /\ Len(rest) = k /\ DOMAIN rest = 1..k  BY <1>3, SeqIsAnswer
  <1>5. SoundContent(rest)
    <2>1. \A m \in 1..k : kept[m].kind = "tool" => kept[m].closed
      <3>1. \A m \in 1..k : m \in DOMAIN c  BY <1>1, <1>2, BlocksAssumption
      <3> HIDE DEF kept
      <3>2. \A m \in 1..k : kept[m] \in Block  BY <1>2
      <3> QED  BY <1>2, <3>1, <3>2 DEF Sound, SoundContent, Block
    <2> HIDE DEF rest, kept
    <2> QED  BY <2>1, <1>3, <1>4 DEF SoundContent
  <1> HIDE DEF kept, rest
  <1>6. y \in Streaming
    <2>1. (Len(kept) < Len(c)) \in BOOLEAN  OBVIOUS
    <2> QED  BY <1>0, <1>4, <2>1 DEF Streaming
  <1>7. /\ y.content = rest /\ y.index = x.index /\ y.locked = x.locked /\ y.at = x.at
        /\ y.copy = x.copy /\ y.ready = x.ready /\ y.reject = x.reject /\ y.used = x.used
        /\ y.begun = x.begun
    BY <1>0 DEF Streaming
  <1>8. SoundReady(y)
    <2>1. x.index \in Nat /\ k \in Nat /\ n \in Nat /\ k <= n
      BY <1>0, <1>1, <1>2, BlocksAssumption DEF Streaming
    <2> HIDE DEF y
    <2> QED  BY <1>1, <1>4, <1>7, <2>1 DEF Sound, SoundReady
  <1> HIDE DEF y
  <1>9. SoundWork(y) /\ SoundIndex(y)  BY <1>7 DEF Sound, SoundWork, SoundIndex, Begun
  <1>10. Sound(y)  BY <1>5, <1>6, <1>7, <1>8, <1>9 DEF Sound
  <1>11. FinishStream(x) = IF y.content = x.content THEN y ELSE Enter(y)
    BY DEF FinishStream, y, rest, kept
  <1> QED  BY <1>7, <1>10, <1>11, EnterSound

-----------------------------------------------------------------------------
(* The invariant of the whole module. *)

Inv ==
    /\ pc \in {"preparing", "streaming", "saving", "waiting", "ended"}
    /\ turn \in 0..MaxTurns
    /\ received \in BOOLEAN
    /\ abort \in BOOLEAN
    /\ log \in [effects : Nat, unclosed : BOOLEAN,
                notice : {"none", "incomplete", "truncated", "noTool"}]
    /\ Sound(s)
    /\ ~log.unclosed
    /\ log.effects <= 1 /\ (log.effects = 1 => s.used)
    /\ pc = "preparing" /\ turn > 0 => s.ready

\* The state a request starts from.
LEMMA FreshSound == Sound(FreshStream) /\ ~FreshStream.ready
  <1> DEFINE x == FreshStream
  <1>1. x.content = <<>> /\ x.index = 1 /\ x.at = "idle" /\ ~x.locked /\ ~x.ready
        /\ x.begun = <<>> /\ x.copy = NoBlock
    BY DEF FreshStream
  <1>2. <<>> \in Answers /\ 1 \in 1..MaxBlocks + 1 /\ <<>> \in Seq(1..MaxBlocks)
    <2>1. <<>> \in [1..0 -> Block] /\ 0 \in 0..MaxBlocks  BY BlocksAssumption
    <2>2. <<>> \in Answers  BY <2>1, SeqIsAnswer
    <2>3. <<>> \in Seq(1..MaxBlocks)  BY EmptySeq
    <2> QED  BY <2>2, <2>3, BlocksAssumption
  <1>3. x \in Streaming  BY <1>2 DEF FreshStream, Streaming, NoBlock, Block
  <1> HIDE DEF x
  <1>4. SoundContent(x.content) /\ SoundWork(x) /\ SoundIndex(x) /\ SoundReady(x)
    BY <1>1 DEF SoundContent, SoundWork, SoundIndex, SoundReady
  <1>5. Sound(x)  BY <1>3, <1>4 DEF Sound
  <1> QED  BY <1>1, <1>5 DEF x

\* What the end of the loop's body does to a sound state x.
LEMMA AfterChunkSound ==
    ASSUME NEW x, Sound(x), AfterChunk(x), pc = "streaming"
    PROVE  Sound(s') /\ s'.used = x.used /\ pc' \in {"streaming", "saving", "ended"}
  BY FinishStreamSound DEF AfterChunk

\* The answer parsed from more text is a sound one, and readiness is kept only
\* when no block came.
LEMMA TextChunkSound ==
    ASSUME Sound(s), NEW c \in Streamed
    PROVE  LET x == [s EXCEPT !.content = c, !.ready = @ /\ Len(c) <= Len(s.content)]
           IN  Sound(x) /\ x.used = s.used
  <1> DEFINE x == [s EXCEPT !.content = c, !.ready = @ /\ Len(c) <= Len(s.content)]
  <1>0. s \in Streaming  BY DEF Sound
  <1>1. c \in Answers /\ Len(c) \in Nat  BY AnswerIsSeq, BlocksAssumption DEF Streamed
  <1>2. s.index \in Nat /\ Len(s.content) \in Nat
    BY <1>0, AnswerIsSeq, BlocksAssumption DEF Streaming
  <1>3. x \in Streaming
    <2>1. (s.ready /\ Len(c) <= Len(s.content)) \in BOOLEAN  OBVIOUS
    <2> QED  BY <1>0, <1>1, <2>1 DEF Streaming
  <1>4. /\ x.content = c /\ x.index = s.index /\ x.locked = s.locked /\ x.at = s.at
        /\ x.copy = s.copy /\ x.reject = s.reject /\ x.used = s.used /\ x.begun = s.begun
    BY <1>0 DEF Streaming
  <1>8. x.ready => s.ready /\ Len(c) <= Len(s.content)  BY <1>0 DEF Streaming
  <1> HIDE DEF x
  <1>5. SoundContent(c)
    <2>1. \A n \in DOMAIN c : c[n].closed = ~c[n].partial /\ (c[n].partial => n = Len(c))
      BY DEF Streamed, WellFormed
    <2> QED  BY <2>1 DEF SoundContent
  <1>6. SoundWork(x) /\ SoundIndex(x)
    <2>1. SoundWork(s) /\ SoundIndex(s)  BY DEF Sound
    <2>2. SoundWork(x)  BY <2>1, <1>4 DEF SoundWork, Begun
    <2>3. SoundIndex(x)  BY <2>1, <1>4 DEF SoundIndex, Begun
    <2> QED  BY <2>2, <2>3
  <1>7. SoundReady(x)
    <2>1. x.ready => s.at = "idle" /\ s.index > Len(s.content)
      BY <1>8 DEF Sound, SoundReady
    <2> QED  BY <2>1, <1>1, <1>2, <1>4, <1>8 DEF SoundReady
  <1> QED  BY <1>3, <1>4, <1>5, <1>6, <1>7 DEF Sound, x

\* The presenter's return keeps the streaming state sound.
LEMMA PresenterReturnsSound ==
    ASSUME Sound(s), PresenterReturns
    PROVE  Sound(s') /\ s'.used = s.used
  <1> DEFINE passed == ~s.copy.partial \/ s.reject \/ s.used
             x == [s EXCEPT !.locked = FALSE, !.at = "idle", !.copy = NoBlock,
                            !.ready = @ \/ (passed /\ s.index = Len(s.content)),
                            !.index = IF passed THEN @ + 1 ELSE @]
  <1>0. s \in Streaming /\ s.at \in {"working", "acted"}  BY DEF Sound, PresenterReturns
  <1>1. s.index \in 1..MaxBlocks /\ Len(s.content) \in Nat /\ MaxBlocks \in Nat
    <2>1. s.index \in 1..MaxBlocks + 1 /\ s.content \in Answers  BY <1>0 DEF Streaming
    <2>2. s.index <= MaxBlocks  BY <1>0 DEF Sound, SoundWork
    <2> QED  BY <2>1, <2>2, AnswerIsSeq, BlocksAssumption
  <1>2. ~s.ready  BY <1>0 DEF Sound, SoundReady
  <1>3. /\ x.content = s.content /\ ~x.locked /\ x.at = "idle" /\ x.copy = NoBlock
        /\ x.reject = s.reject /\ x.used = s.used /\ x.begun = s.begun
        /\ x.index = IF passed THEN s.index + 1 ELSE s.index
        /\ x.ready = (passed /\ s.index = Len(s.content))
    BY <1>0, <1>2 DEF Streaming
  <1>4. x \in Streaming
    <2>1. (IF passed THEN s.index + 1 ELSE s.index) \in 1..MaxBlocks + 1  BY <1>1
    <2>2. (s.ready \/ (passed /\ s.index = Len(s.content))) \in BOOLEAN  OBVIOUS
    <2>3. NoBlock \in Block  BY DEF NoBlock, Block
    <2> DEFINE r == s.ready \/ (passed /\ s.index = Len(s.content))
               i == IF passed THEN s.index + 1 ELSE s.index
    <2>4. x = [s EXCEPT !.locked = FALSE, !.at = "idle", !.copy = NoBlock,
                        !.ready = r, !.index = i]
      OBVIOUS
    <2>5. r \in BOOLEAN /\ i \in 1..MaxBlocks + 1  BY <2>1, <2>2
    <2> HIDE DEF r, i, x
    <2> QED  BY <1>0, <2>3, <2>4, <2>5 DEF Streaming
  <1> HIDE DEF x
  <1>5. SoundContent(x.content) /\ SoundWork(x)  BY <1>3 DEF Sound, SoundContent, SoundWork
  <1>6. SoundReady(x)
    <2> HIDE DEF passed
    <2>1. CASE passed /\ s.index = Len(s.content)  BY <2>1, <1>1, <1>3 DEF SoundReady
    <2>2. CASE ~(passed /\ s.index = Len(s.content))  BY <2>2, <1>3 DEF SoundReady
    <2> QED  BY <2>1, <2>2
  <1>7. SoundIndex(x)
    <2>1. \A m, n \in DOMAIN x.begun : m < n => x.begun[m] < x.begun[n]
      BY <1>3 DEF Sound, SoundIndex
    <2>2. \A m \in DOMAIN x.begun : x.begun[m] \in 1..MaxBlocks /\ x.begun[m] < x.index
      <3>1. \A m \in DOMAIN s.begun : s.begun[m] \in 1..MaxBlocks
        <4>1. s.begun \in Seq(1..MaxBlocks)  BY <1>0 DEF Streaming
        <4> QED  BY <4>1, ElementOfSeq, LenProperties
      <3>2. \A m \in DOMAIN s.begun : /\ s.begun[m] <= s.index
                                      /\ s.begun[m] = s.index => ~s.copy.partial
        BY DEF Sound, SoundIndex
      <3> QED  BY <3>1, <3>2, <1>1, <1>3
    <2>3. s.reject \/ s.used \/ \A n \in 1..x.index - 1 : Begun(s, n)
      <3>1. s.reject \/ s.used \/ \A n \in 1..s.index - 1 : Begun(s, n)
        BY DEF Sound, SoundIndex
      <3>2. ~s.copy.partial => Begun(s, s.index)  BY <1>0 DEF Sound, SoundWork
      <3>3. \A n \in 1..x.index - 1 : n \in 1..s.index - 1 \/ (passed /\ n = s.index)
        BY <1>1, <1>3
      <3> QED  BY <3>1, <3>2, <3>3
    <2>4. \A n : Begun(s, n) <=> Begun(x, n)  BY <1>3 DEF Begun
    <2>5. x.reject \/ x.used \/ \A n \in 1..x.index - 1 : Begun(x, n)
      BY <1>3, <2>3, <2>4
    <2>6. \A m \in DOMAIN x.begun : x.begun[m] <= x.index /\ x.begun[m] # x.index
      BY <2>2, <1>1, <1>3
    <2> QED  BY <2>1, <2>5, <2>6 DEF SoundIndex
  <1>8. Sound(x)  BY <1>4, <1>5, <1>6, <1>7 DEF Sound
  <1>9. s' = Enter(x) \/ s' = x  BY DEF PresenterReturns, x, passed
  <1> QED  BY <1>3, <1>8, <1>9, EnterSound

\* A step that changes only the presenter's stage, or what tools have done,
\* keeps the streaming state sound.
LEMMA StageSound ==
    ASSUME Sound(s), s.at \in {"working", "acted"},
           NEW a \in {"acted", "dead"}, NEW u \in BOOLEAN, NEW r \in BOOLEAN,
           s.used => u, s.reject => r,
           s' = [s EXCEPT !.used = u, !.reject = r, !.at = a]
    PROVE  Sound(s') /\ s'.used = u
  <1>0. s \in Streaming  BY DEF Sound
  <1>1. s' \in Streaming  BY <1>0 DEF Streaming
  <1>2. /\ s'.content = s.content /\ s'.index = s.index /\ s'.locked = s.locked
        /\ s'.copy = s.copy /\ s'.begun = s.begun /\ s'.ready = s.ready
        /\ s'.used = u /\ s'.reject = r /\ s'.at = a
    BY <1>0 DEF Streaming
  <1>3. SoundContent(s.content) /\ SoundWork(s) /\ SoundIndex(s) /\ ~s.ready
    BY DEF Sound, SoundReady
  <1>4. SoundWork(s')  BY <1>2, <1>3 DEF SoundWork, Begun
  <1>5. SoundIndex(s')  BY <1>2, <1>3 DEF SoundIndex, Begun
  <1>6. SoundReady(s') /\ SoundContent(s'.content)  BY <1>2, <1>3 DEF SoundReady
  <1> QED  BY <1>1, <1>2, <1>4, <1>5, <1>6 DEF Sound

\* The invariant holds initially and every step keeps it.
THEOREM TurnInvariant == Spec => []Inv
  <1>0. /\ FreshLog \in [effects : Nat, unclosed : BOOLEAN,
                         notice : {"none", "incomplete", "truncated", "noTool"}]
        /\ FreshLog.effects <= 1 /\ FreshLog.effects # 1 /\ ~FreshLog.unclosed
    BY DEF FreshLog
  <1>1. Init => Inv
    <2>1. 0 \in 0..MaxTurns  BY TurnsAssumption
    <2> SUFFICES ASSUME Init PROVE Inv
      OBVIOUS
    <2>2. received \in BOOLEAN /\ abort \in BOOLEAN
      <3>1. received = FALSE /\ abort = FALSE  BY DEF Init
      <3> QED  BY <3>1
    <2>4. ~(turn > 0)  BY DEF Init
    <2>3. s = FreshStream /\ log = FreshLog /\ pc = "preparing" /\ turn \in 0..MaxTurns
      BY <2>1 DEF Init
    <2> QED  BY <1>0, <2>2, <2>3, <2>4, FreshSound DEF Inv
  <1>2. Inv /\ [Next]_vars => Inv'
    <2> SUFFICES ASSUME Inv, [Next]_vars PROVE Inv'
      OBVIOUS
    <2>1. CASE RequestStarts
      <3>1. CASE abort  BY <2>1, <3>1 DEF RequestStarts, Inv
      <3>2. CASE ~abort
        <4>1. turn' \in 0..MaxTurns
          BY <2>1, <3>2, TurnsAssumption DEF RequestStarts, Inv
        <4>2. s' = FreshStream /\ Sound(s')  BY <2>1, <3>2, FreshSound DEF RequestStarts
        <4>3. pc' = "streaming" /\ received' \in BOOLEAN /\ log' = FreshLog /\ abort' = abort
          BY <2>1, <3>2 DEF RequestStarts
        <4>4. abort' \in BOOLEAN  BY <4>3 DEF Inv
        <4> QED  BY <4>1, <4>2, <4>3, <4>4, <1>0 DEF Inv
      <3> QED  BY <3>1, <3>2
    <2>2. CASE TextChunk
      <3>1. PICK c \in Streamed :
              AfterChunk(Enter([s EXCEPT !.content = c,
                                         !.ready = @ /\ Len(c) <= Len(s.content)]))
        BY <2>2 DEF TextChunk
      <3> DEFINE x == [s EXCEPT !.content = c, !.ready = @ /\ Len(c) <= Len(s.content)]
      <3>2. Sound(x) /\ x.used = s.used  BY TextChunkSound DEF Inv
      <3> HIDE DEF x
      <3>3. Sound(Enter(x)) /\ Enter(x).used = s.used  BY <3>2, EnterSound
      <3>4. AfterChunk(Enter(x)) /\ pc = "streaming"  BY <2>2, <3>1 DEF TextChunk, x
      <3>5. Sound(s') /\ s'.used = s.used /\ pc' \in {"streaming", "saving", "ended"}
        BY <3>3, <3>4, AfterChunkSound
      <3> QED  BY <2>2, <3>5 DEF TextChunk, Inv
    <2>3. CASE OtherChunk
      <3>1. PICK x \in {s, [s EXCEPT !.truncated = TRUE]} : AfterChunk(x)
        BY <2>3 DEF OtherChunk
      <3>2. Sound(x) /\ x.used = s.used
        <4>1. s \in Streaming  BY DEF Inv, Sound
        <4>2. x \in Streaming /\ SameButReady(s, x) /\ x.ready = s.ready
          BY <3>1, <4>1 DEF Streaming, SameButReady
        <4> QED  BY <4>2, SameSound DEF Inv, SameButReady
      <3>3. Sound(s') /\ s'.used = s.used /\ pc' \in {"streaming", "saving", "ended"}
        BY <2>3, <3>1, <3>2, AfterChunkSound DEF OtherChunk
      <3> QED  BY <2>3, <3>3 DEF OtherChunk, Inv
    <2>4. CASE StreamEnds
      <3>1. Sound(s') /\ s'.used = s.used
        BY <2>4, FinishStreamSound DEF StreamEnds, Inv
      <3> QED  BY <2>4, <3>1 DEF StreamEnds, Inv
    <2>5. CASE StreamFails \/ AnswerSaved \/ Cancel
      BY <2>5 DEF StreamFails, AnswerSaved, Cancel, Inv
    <2>6. CASE TurnOver
      <3>1. log' \in [effects : Nat, unclosed : BOOLEAN,
                      notice : {"none", "incomplete", "truncated", "noTool"}]
            /\ log'.effects = log.effects /\ log'.unclosed = log.unclosed
        <4>1. PICK b \in {"none", "incomplete", "truncated", "noTool"} :
                log' = [log EXCEPT !.notice = b]
          BY <2>6 DEF TurnOver
        <4> QED  BY <4>1 DEF Inv
      <3> QED  BY <2>6, <3>1 DEF TurnOver, Inv
    <2>7. CASE ToolTakesEffect
      <3>1. s.at = "working" /\ ~s.used /\ s.copy.closed /\ log.effects = 0
        <4>1. s.at = "working" /\ ~s.used /\ s.copy.kind = "tool" /\ ~s.copy.partial
          BY <2>7 DEF ToolTakesEffect, ToolAtWork
        <4> QED  BY <4>1 DEF Inv, Sound, SoundWork
      <3>2. s.reject \in BOOLEAN /\ s' = [s EXCEPT !.used = TRUE, !.reject = s.reject, !.at = "acted"]
        BY <2>7 DEF ToolTakesEffect, Inv, Sound, Streaming
      <3>3. Sound(s') /\ s'.used  BY <3>1, <3>2, StageSound DEF Inv
      <3>4. log' \in [effects : Nat, unclosed : BOOLEAN,
                      notice : {"none", "incomplete", "truncated", "noTool"}]
            /\ log'.effects = 1 /\ ~log'.unclosed
        <4>1. log' = [log EXCEPT !.effects = 1, !.unclosed = FALSE]
          <5>1. log.effects + 1 = 1 /\ (log.unclosed \/ ~s.copy.closed) = FALSE
            BY <3>1 DEF Inv
          <5> QED  BY <2>7, <5>1 DEF ToolTakesEffect
        <4> QED  BY <4>1 DEF Inv
      <3>5. ~(pc = "preparing" /\ turn > 0)  BY <3>1 DEF Inv, Sound, SoundReady
      <3> QED  BY <2>7, <3>3, <3>4, <3>5 DEF ToolTakesEffect, Inv
    <2>8. CASE ToolRefused
      <3>1. s.at = "working" /\ s \in Streaming  BY <2>8 DEF ToolRefused, ToolAtWork, Inv, Sound
      <3>2. \E r \in BOOLEAN : (s.reject => r)
                               /\ s' = [s EXCEPT !.used = TRUE, !.reject = r, !.at = "acted"]
        <4>1. CASE s' = [s EXCEPT !.used = TRUE, !.at = "acted"]
          <5>1. s.reject \in BOOLEAN
                /\ s' = [s EXCEPT !.used = TRUE, !.reject = s.reject, !.at = "acted"]
            BY <3>1, <4>1 DEF Streaming
          <5> QED  BY <5>1
        <4>2. CASE s' = [s EXCEPT !.used = TRUE, !.reject = TRUE, !.at = "acted"]
          BY <4>2
        <4> QED  BY <2>8, <4>1, <4>2 DEF ToolRefused
      <3>3. Sound(s') /\ s'.used  BY <3>1, <3>2, StageSound DEF Inv
      <3>4. ~(pc = "preparing" /\ turn > 0)  BY <3>1 DEF Inv, Sound, SoundReady
      <3> QED  BY <2>8, <3>3, <3>4 DEF ToolRefused, Inv
    <2>9. CASE PresenterReturns
      <3>1. Sound(s') /\ s'.used = s.used  BY <2>9, PresenterReturnsSound DEF Inv
      <3>2. ~(pc = "preparing" /\ turn > 0)
        BY <2>9 DEF PresenterReturns, Inv, Sound, SoundReady
      <3> QED  BY <2>9, <3>1, <3>2 DEF PresenterReturns, Inv
    <2>10. CASE PresenterThrows
      <3>1. s \in Streaming /\ s.at \in {"working", "acted"}
        BY <2>10 DEF PresenterThrows, Inv, Sound
      <3>2. s.used \in BOOLEAN /\ s.reject \in BOOLEAN
            /\ s' = [s EXCEPT !.used = s.used, !.reject = s.reject, !.at = "dead"]
        BY <2>10, <3>1 DEF PresenterThrows, Streaming
      <3>3. Sound(s') /\ s'.used = s.used  BY <3>1, <3>2, StageSound DEF Inv
      <3>4. ~(pc = "preparing" /\ turn > 0)  BY <3>1 DEF Inv, Sound, SoundReady
      <3> QED  BY <2>10, <3>3, <3>4 DEF PresenterThrows, Inv
    <2>11. CASE UNCHANGED vars
      BY <2>11 DEF vars, Inv
    <2> QED
      BY <2>1, <2>2, <2>3, <2>4, <2>5, <2>6, <2>7, <2>8, <2>9, <2>10, <2>11
      DEF Next, Main, Presenter
  <1> QED  BY <1>1, <1>2, PTL DEF Spec

\* All variables keep their types; the index never runs past the end of an
\* answer by more than one.
THEOREM TurnTypeCorrect == Spec => []TypeOK
  <1>1. Inv => TypeOK  BY DEF Inv, Sound, TypeOK
  <1> QED  BY <1>1, TurnInvariant, PTL

\* A call whose closing tag never arrived is never carried out.
THEOREM OnlyClosedCallsHolds == Spec => []OnlyClosedCalls
  <1>1. Inv => OnlyClosedCalls  BY DEF Inv, OnlyClosedCalls
  <1> QED  BY <1>1, TurnInvariant, PTL

\* At most one call takes effect in a turn.
THEOREM OneEffectPerTurnHolds == Spec => []OneEffectPerTurn
  <1>1. Inv => OneEffectPerTurn  BY DEF Inv, OneEffectPerTurn
  <1> QED  BY <1>1, TurnInvariant, PTL

\* No finished block is taken up twice, or out of order.
THEOREM TakenUpOnceHolds == Spec => []TakenUpOnce
  <1>1. Inv => TakenUpOnce  BY DEF Inv, Sound, SoundIndex, TakenUpOnce
  <1> QED  BY <1>1, TurnInvariant, PTL

\* When the next request resets the streaming state, the presenter is at rest
\* and has left no block behind.
THEOREM NothingLeftBehindHolds == Spec => []NothingLeftBehind
  <1>1. ASSUME Inv, pc = "preparing", turn > 0
        PROVE  /\ s.at = "idle" /\ s.index > Len(s.content)
               /\ \/ s.reject \/ s.used
                  \/ \A n \in DOMAIN s.content : \E m \in DOMAIN s.begun : s.begun[m] = n
    <2>1. s \in Streaming /\ s.at = "idle" /\ s.index > Len(s.content)
      BY <1>1 DEF Inv, Sound, SoundReady
    <2>2. DOMAIN s.content = 1..Len(s.content) /\ Len(s.content) \in Nat /\ s.index \in Nat
      BY <2>1, AnswerIsSeq, BlocksAssumption DEF Streaming
    <2>3. \A n \in DOMAIN s.content : n \in 1..s.index - 1  BY <2>1, <2>2
    <2>4. s.reject \/ s.used \/ \A n \in 1..s.index - 1 : Begun(s, n)
      BY <1>1 DEF Inv, Sound, SoundIndex
    <2> QED  BY <2>1, <2>3, <2>4 DEF Begun
  <1>2. Inv => NothingLeftBehind  BY <1>1 DEF NothingLeftBehind
  <1> QED  BY <1>2, TurnInvariant, PTL
=============================================================================
