--------------------------- MODULE EvidenceCallers ---------------------------
(***************************************************************************)
(* EvidenceSync with its two kinds of caller: scheduleEvidencePush, which  *)
(* calls flush() and does not wait, and verify(), which awaits flush() and  *)
(* then asks the server to verify the trail it holds.                       *)
(***************************************************************************)
EXTENDS EvidenceSync

VARIABLES
    verify,     \* the verify() call: pc, the flow it awaits, rows at the call
    asked       \* history: greatest row id present at a flush() call, 0 after a failure

callerVars == <<vars, verify, asked>>

NoVerify == [pc |-> "idle", flow |-> NoFlow, rows |-> 0]

CallersInit == Init /\ verify = NoVerify /\ asked = 0

FlushCall(f) == FlushStart(f) \/ FlushWhileRunning

\* scheduleEvidencePush: flush(), not awaited.
ScheduleEvidencePush ==
    /\ \E f \in Flows : FlushCall(f)
    /\ asked' = Len(trail)
    /\ UNCHANGED verify

\* verify() up to its first suspension: flush() runs a drain of its own, or
\* returns at once because one is under way or the session has given up.
VerifyStart ==
    /\ verify.pc = "idle"
    /\ \/ \E f \in Flows :
            /\ FlushStart(f)
            /\ verify' = [pc |-> "flushing", flow |-> f, rows |-> Len(trail)]
       \/ /\ FlushWhileRunning
          /\ verify' = [pc |-> "asking", flow |-> NoFlow, rows |-> Len(trail)]
       \/ /\ inst[current].fails >= MaxFailures /\ ~inst[current].running
          /\ verify' = [pc |-> "asking", flow |-> NoFlow, rows |-> Len(trail)]
          /\ UNCHANGED vars
    /\ asked' = IF inst[current].running \/ inst[current].fails < MaxFailures
                THEN Len(trail) ELSE asked

\* The server verified the trail it holds, or could not be reached.
VerifyEnd ==
    /\ verify.pc = "asking"
    /\ verify' = NoVerify
    /\ UNCHANGED <<vars, asked>>

\* The flush() a verify() call awaits has returned.
FlushReturned ==
    verify' = IF verify.pc = "flushing" /\ flow'[verify.flow].pc = "idle"
              THEN [verify EXCEPT !.pc = "asking"] ELSE verify

\* A pass fails: nothing is promised any more of what was asked of it.
PassFails ==
    \E f \in Flows :
      /\ FlowFailure(f)
      /\ asked' = 0
      /\ verify' = IF verify.flow = f THEN [verify EXCEPT !.rows = 0] ELSE verify

Others ==
    \/ /\ \/ RecordEvent
          \/ \E f \in Flows : FlowStep(f)
          \/ ServerTakes
          \/ ReplaceInstance
       /\ FlushReturned
       /\ UNCHANGED asked
    \/ PassFails

\* Reloading the database ends the calls on it.
Restart == (Crash \/ Reopen) /\ verify' = NoVerify /\ asked' = 0

CallersNext == ScheduleEvidencePush \/ VerifyStart \/ VerifyEnd \/ Others \/ Restart

\* Promises are settled and resumed by the event loop, and a request is
\* answered or times out after REQUEST_TIMEOUT_MS.
CallersSpec ==
    /\ CallersInit /\ [][CallersNext]_callerVars
    /\ \A f \in Flows : WF_callerVars((FlowStep(f) \/ FlowFailure(f)) /\ Others)
    /\ WF_callerVars(ServerTakes /\ Others)
    /\ WF_callerVars(VerifyEnd)

-----------------------------------------------------------------------------
(* Properties. *)

\* A pass always ends: the running flag, which turns every later flush() into
\* a note, cannot stay set for ever.
RunningEnds == \A i \in Insts : inst[i].running ~> ~inst[i].running

\* A row that was there when flush() was called eventually reaches the server,
\* also when that flush() only left a note for a pass already under way; unless a
\* pass fails.
AskedIsPushed ==
    \A n \in Entries : (asked >= n) ~> (asked < n \/ trail[n] \in Held)

\* A verify() call is answered, whatever becomes of the drain it waits for and
\* however often that drain is asked to run again.
VerifyAnswers == verify.pc # "idle" ~> verify.pc = "idle"

\* verify() that ran a drain of its own, without failure, asks about a trail
\* that holds every row there was at the call.
OwnDrainCovers ==
    verify.pc = "asking" /\ verify.flow # NoFlow => \A n \in 1..verify.rows : trail[n] \in Held

\* Any pending backlog is pushed first, so a verification result describes the
\* whole trail (the comment on verify).
VerifyDescribesWholeTrail ==
    verify.pc = "asking" => \A n \in 1..verify.rows : trail[n] \in Held
=============================================================================
