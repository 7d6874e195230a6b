------------------------- MODULE SessionTurnsProofs -------------------------
(***************************************************************************)
(* What holds of SessionTurns for every set of turns, every set of         *)
(* interrupt calls, every choice of modes and every bound on the rounds.   *)
(*                                                                         *)
(* First what any turns do, overlapping or not: types, who may commit, and *)
(* whom an interrupt reaches.                                              *)
(*                                                                         *)
(* Then one client that waits for each turn's end before it sends the      *)
(* next, and streams that do not move to the background by themselves:     *)
(* nothing acknowledged is ever lost, whatever agents, interrupts and      *)
(* crashes do.  The argument is about the shape of the histories.  A       *)
(* turn's messages come last in its history, starting with its user        *)
(* message, and the only tool call without a result is the very last       *)
(* message.  Sanitizing then cuts no more than that message, so what the   *)
(* turn writes back always covers the envelope it has loaded.              *)
(*                                                                         *)
(* Last, turns that overlap and switch to the background again: the        *)
(* envelope stays well formed.  The messages of a turn are together in     *)
(* every history, behind its user message.  A turn adds its messages at    *)
(* the end of its own, so that only its last one may be a call without a   *)
(* result; when the sanitizer cuts a history, it cuts no other turn's      *)
(* messages into halves.                                                   *)
(***************************************************************************)
EXTENDS SessionTurns, SequenceTheorems, TLAPS

-----------------------------------------------------------------------------
(* Types.                                                                  *)

\* The prompts, answers and results that handlers append are messages.
LEMMA MsgIsMessage ==
  ASSUME NEW k \in Kinds, NEW t \in Turns
  PROVE  Msg(k, t) \in Message
BY DEF Msg, Message

\* Sanitizing a history gives a history.
LEMMA SanitizeType ==
  ASSUME NEW h \in History
  PROVE  Sanitize(h) \in History
<1> DEFINE last == {i \in DOMAIN h : /\ h[i].kind = "call"
                                     /\ \A j \in DOMAIN h : j > i => h[j].kind # "call"}
           bad  == {i \in last : Dangling(h, i)}
           k    == CHOOSE i \in bad : TRUE
<1>1. CASE bad = {}
  BY <1>1 DEF Sanitize
<1>2. CASE bad # {}
  <2>1. k \in bad
    BY <1>2
  <2>2. k \in 1..Len(h) /\ h[k] \in Message
    BY <2>1 DEF History
  <2> HIDE DEF k
  <2>3. SubSeq(h, 1, k - 1) \in Seq(Message)
    <3>1. h \in Seq(Message) /\ Len(h) \in Nat
      BY DEF History
    <3>2. 1 \in 1..Len(h) + 1 /\ k - 1 \in (1 - 1)..Len(h)
      BY <2>2, <3>1
    <3> QED
      BY <3>1, <3>2, SubSeqProperties
  <2>4. Msg("text", h[k].turn) \in Message
    BY <2>2, MsgIsMessage DEF Message, Kinds
  <2>5. Sanitize(h) = Append(SubSeq(h, 1, k - 1), Msg("text", h[k].turn))
    BY <1>2 DEF Sanitize, k
  <2>6. Append(SubSeq(h, 1, k - 1), Msg("text", h[k].turn)) \in Seq(Message)
    BY <2>3, <2>4, AppendProperties
  <2> QED
    BY <2>5, <2>6 DEF History
<1> QED
  BY <1>1, <1>2

\* The message lists of the next chunk are histories.
LEMMA NextStatesType ==
  ASSUME NEW t \in Turns, hist[t] \in History,
         NEW h \in NextStates(t)
  PROVE  h \in History
<1>1. \A k \in {"reply", "call", "result"} : Append(hist[t], Msg(k, t)) \in History
  BY MsgIsMessage DEF History, Kinds
<1> QED
  BY <1>1 DEF NextStates

\* What Revoke assigns to revoked has the type of revoked.
LEMMA RevokeType ==
  ASSUME revoked \in [Turns -> {"no", "turn", "stop", "stray"}],
         NEW S, NEW cause \in {"turn", "stop", "stray"}
  PROVE  Revoke(S, cause) \in [Turns -> {"no", "turn", "stop", "stray"}]
BY DEF Revoke

\* Ending a turn's coroutine leaves positions, histories and outcomes typed.
LEMMA AnswerType ==
  ASSUME TypeOK, NEW t \in Turns, NEW o \in Outcomes, Answer(t, o)
  PROVE  /\ pc' \in [Turns -> Positions]
         /\ hist' \in [Turns -> History]
         /\ outcome' \in [Turns -> Outcomes]
<1>1. << >> \in History
  BY EmptySeq DEF History
<1>2. outcome' \in [Turns -> Outcomes]
  BY DEF TypeOK, Answer
<1>3. CASE detached[t] /\ Goto(t, "append") /\ UNCHANGED hist
  BY <1>2, <1>3 DEF TypeOK, Goto, Positions
<1>4. CASE ~detached[t] /\ Return(t)
  BY <1>1, <1>2, <1>4 DEF TypeOK, Return, Goto, Positions
<1> QED
  BY <1>3, <1>4 DEF Answer

\* Every variable keeps its type: no handler stores a value the others
\* do not expect.
THEOREM TypeCorrect == Spec => []TypeOK
<1>1. Init => TypeOK
  <2> SUFFICES ASSUME Init PROVE TypeOK
    OBVIOUS
  <2> QED
    BY EmptySeq DEF Init, TypeOK, History, Positions, Outcomes, Terminal, Exec
<1>2. TypeOK /\ [Next]_vars => TypeOK'
  <2> SUFFICES ASSUME TypeOK, [Next]_vars PROVE TypeOK'
    OBVIOUS
  <2> USE DEF Goto, turnVars, ghosts
  <2>1. ASSUME NEW t \in Turns, Submit(t) PROVE TypeOK'
    BY <2>1 DEF Submit, TypeOK, Positions
  <2>2. ASSUME NEW t \in Turns, Load(t) PROVE TypeOK'
    <3>1. Append(envelope, Msg("user", t)) \in History
      BY MsgIsMessage, AppendProperties DEF TypeOK, History, Kinds
    <3> QED
      BY <2>2, <3>1 DEF Load, TypeOK, Positions
  <2>3. ASSUME NEW t \in Turns, PersistInput(t) PROVE TypeOK'
    BY <2>3 DEF PersistInput, TypeOK, Positions
  <2>4. ASSUME NEW t \in Turns, MarkRunning(t) PROVE TypeOK'
    BY <2>4, RevokeType DEF MarkRunning, TypeOK, Positions, Exec
  <2>5. ASSUME NEW t \in Turns, EnterBackground(t) PROVE TypeOK'
    BY <2>5 DEF EnterBackground, TypeOK, Positions
  <2>6. ASSUME NEW t \in Turns, Poll(t) PROVE TypeOK'
    BY <2>6 DEF Poll, TypeOK
  <2>7. ASSUME NEW t \in Turns, AgentReturns(t) PROVE TypeOK'
    <3>1. \A h \in Returned(t) : h \in History
      <4>1. \A k \in Kinds : Msg(k, t) \in Message
        BY MsgIsMessage
      <4>2. hist[t] \in Seq(Message)
        BY DEF TypeOK, History
      <4>3. <<Msg("call", t), Msg("result", t), Msg("reply", t)>> \in Seq(Message)
        BY <4>1 DEF Kinds
      <4>4. Append(hist[t], Msg("reply", t)) \in Seq(Message)
        BY <4>1, <4>2, AppendProperties DEF Kinds
      <4>5. hist[t] \o <<Msg("call", t), Msg("result", t), Msg("reply", t)>> \in Seq(Message)
        BY <4>2, <4>3, ConcatProperties
      <4> QED
        BY <4>4, <4>5 DEF Returned, History
    <3> QED
      BY <2>7, <3>1 DEF AgentReturns, TypeOK, Positions
  <2>8. ASSUME NEW t \in Turns, InterruptWins(t) PROVE TypeOK'
    BY <2>8 DEF InterruptWins, TypeOK, Positions, Outcomes
  <2>9. ASSUME NEW t \in Turns, ChunkInterrupted(t) PROVE TypeOK'
    BY <2>9, NextStatesType DEF ChunkInterrupted, TypeOK, Positions, Outcomes
  <2>10. ASSUME NEW t \in Turns, ChunkFailed(t) PROVE TypeOK'
    <3>1. Append(hist[t], Msg("text", t)) \in History
      BY MsgIsMessage, AppendProperties DEF TypeOK, History, Kinds
    <3> QED
      BY <2>10, <3>1 DEF ChunkFailed, TypeOK, Positions, Outcomes
  <2>11. ASSUME NEW t \in Turns, ChunkSwitches(t) PROVE TypeOK'
    BY <2>11, NextStatesType DEF ChunkSwitches, TypeOK, Positions
  <2>12. ASSUME NEW t \in Turns, ChunkContinues(t) PROVE TypeOK'
    BY <2>12, NextStatesType DEF ChunkContinues, TypeOK
  <2>13. ASSUME NEW t \in Turns, StreamEnds(t) PROVE TypeOK'
    BY <2>13 DEF StreamEnds, TypeOK, Positions
  <2>14. ASSUME NEW t \in Turns, AgentRaises(t) PROVE TypeOK'
    BY <2>14, AnswerType DEF AgentRaises, TypeOK, Positions, Outcomes
  <2>15. ASSUME NEW t \in Turns, CheckStatus(t) PROVE TypeOK'
    BY <2>15, AnswerType DEF CheckStatus, TypeOK, Positions, Outcomes
  <2>16. ASSUME NEW t \in Turns, SaveReply(t) PROVE TypeOK'
    BY <2>16 DEF SaveReply, TypeOK, Positions
  <2>17. ASSUME NEW t \in Turns, MarkCompleted(t) PROVE TypeOK'
    BY <2>17, AnswerType, RevokeType DEF MarkCompleted, TypeOK, Outcomes, Exec
  <2>18. ASSUME NEW t \in Turns, SavePartial(t) PROVE TypeOK'
    BY <2>18, SanitizeType DEF SavePartial, TypeOK, Positions
  <2>19. ASSUME NEW t \in Turns, MarkInterrupted(t) PROVE TypeOK'
    BY <2>19, AnswerType, RevokeType DEF MarkInterrupted, TypeOK, Exec
  <2>20. ASSUME NEW t \in Turns, AppendTerminal(t) PROVE TypeOK'
    <3>1. << >> \in History
      BY EmptySeq DEF History
    <3>2. bgStatus' \in [Turns -> Terminal \cup {"none", "running"}]
      BY <2>20 DEF AppendTerminal, TypeOK, Terminal
    <3> QED
      BY <2>20, <3>1, <3>2 DEF AppendTerminal, Return, TypeOK, Positions
  <2>21. ASSUME NEW t \in Turns, Crash(t) PROVE TypeOK'
    BY <2>21, EmptySeq DEF Crash, Return, TypeOK, Positions, Outcomes, History
  <2>22. ASSUME NEW i \in Interrupts, InterruptRead(i) PROVE TypeOK'
    BY <2>22 DEF InterruptRead, TypeOK
  <2>23. ASSUME NEW i \in Interrupts, InterruptWrite(i) PROVE TypeOK'
    <3>1. revoked' \in [Turns -> {"no", "turn", "stop", "stray"}]
      BY <2>23 DEF InterruptWrite, TypeOK, Revoke
    <3>2. /\ exec' \in [status : {"none", "running", "completed", "stopped"},
                         req : Turns \cup {NoTurn}]
          /\ icall' \in [Interrupts -> [at : {"idle", "write", "done"},
                                         req : Turns \cup {NoTurn}]]
      BY <2>23 DEF InterruptWrite, TypeOK, Exec
    <3>3. stopped' \subseteq Turns
      BY <2>23 DEF InterruptWrite, TypeOK
    <3> QED
      BY <2>23, <3>1, <3>2, <3>3 DEF InterruptWrite, TypeOK
  <2>24. CASE UNCHANGED vars
    BY <2>24 DEF vars, TypeOK
  <2> QED
    BY <2>1, <2>2, <2>3, <2>4, <2>5, <2>6, <2>7, <2>8, <2>9, <2>10, <2>11,
       <2>12, <2>13, <2>14, <2>15, <2>16, <2>17, <2>18, <2>19, <2>20, <2>21,
       <2>22, <2>23, <2>24
    DEF Next, ServerStep, AgentStep
<1> QED
  BY <1>1, <1>2, PTL DEF Spec

-----------------------------------------------------------------------------
(* Superseded turns.                                                       *)

\* "completed" is said last, after the reply has been saved.
CompletedIsLast ==
  \A t \in Turns : outcome[t] = "completed" => pc[t] \in {"append", "done"}

\* What makes RevokedNeverCommits inductive: while the agent of a revoked turn
\* runs, exec_status does not let the turn through.
RevokedInv ==
  /\ CompletedIsLast
  /\ \A t \in Turns : revoked[t] # "no" =>
       ~Committed(t) /\ (Pending(t) => ~MayFinalize(t))

\* What makes InterruptHonoured inductive: a turn that is never switched to the
\* background does not mark itself running again.
Early == {"idle", "load", "persist", "mark", "bgmeta"}

StoppedInv ==
  \A t \in stopped :
    /\ pc[t] # "idle"
    /\ mode[t] = "auto" \/ (pc[t] \notin Early /\ revoked[t] # "no")

\* What makes InterruptAimed inductive: only interrupt calls write "stopped",
\* and an interrupt call keeps the id it has read.
AimedInv ==
  /\ InterruptAimed
  /\ \A i \in Interrupts : icall[i].at = "idle" => icall[i].req = NoTurn
  /\ exec.status = "stopped" => exec.req \in Aimed \cup {NoTurn}

\* What makes RunningNamesLiveTurn inductive: the turn named by "running" has
\* not yet decided how it ends.
RunningInv ==
  exec.status = "running" =>
    /\ exec.req \in Turns
    /\ \/ pc[exec.req] \notin {"idle", "load", "append", "done"}
       \/ outcome[exec.req] \in {"raised", "crashed"}

\* No step breaks RevokedInv.
LEMMA RevokedStep == TypeOK /\ RevokedInv /\ [Next]_vars => RevokedInv'
<1> SUFFICES ASSUME TypeOK, RevokedInv, [Next]_vars PROVE RevokedInv'
  OBVIOUS
<1> USE DEF TypeOK, turnVars, ghosts, Goto, RevokedInv, CompletedIsLast, Committed, Pending, MayFinalize, Exec
<1>1. ASSUME NEW t \in Turns, Submit(t) PROVE RevokedInv'
  BY <1>1 DEF Submit
<1>2. ASSUME NEW t \in Turns, Load(t) PROVE RevokedInv'
  BY <1>2 DEF Load
<1>3. ASSUME NEW t \in Turns, PersistInput(t) PROVE RevokedInv'
  BY <1>3 DEF PersistInput
<1>4. ASSUME NEW t \in Turns, MarkRunning(t) PROVE RevokedInv'
  BY <1>4 DEF MarkRunning, Revoke
<1>5. ASSUME NEW t \in Turns, EnterBackground(t) PROVE RevokedInv'
  BY <1>5 DEF EnterBackground
<1>6. ASSUME NEW t \in Turns, Poll(t) PROVE RevokedInv'
  BY <1>6 DEF Poll
<1>7. ASSUME NEW t \in Turns, AgentReturns(t) PROVE RevokedInv'
  BY <1>7 DEF AgentReturns
<1>8. ASSUME NEW t \in Turns, InterruptWins(t) PROVE RevokedInv'
  BY <1>8 DEF InterruptWins
<1>9. ASSUME NEW t \in Turns, ChunkInterrupted(t) PROVE RevokedInv'
  BY <1>9 DEF ChunkInterrupted
<1>10. ASSUME NEW t \in Turns, ChunkFailed(t) PROVE RevokedInv'
  BY <1>10 DEF ChunkFailed
<1>11. ASSUME NEW t \in Turns, ChunkSwitches(t) PROVE RevokedInv'
  BY <1>11 DEF ChunkSwitches
<1>12. ASSUME NEW t \in Turns, ChunkContinues(t) PROVE RevokedInv'
  BY <1>12 DEF ChunkContinues
<1>13. ASSUME NEW t \in Turns, StreamEnds(t) PROVE RevokedInv'
  BY <1>13 DEF StreamEnds
<1>14. ASSUME NEW t \in Turns, AgentRaises(t) PROVE RevokedInv'
  BY <1>14 DEF AgentRaises, Answer, Return
<1>15. ASSUME NEW t \in Turns, CheckStatus(t) PROVE RevokedInv'
  BY <1>15 DEF CheckStatus, Answer, Return
<1>16. ASSUME NEW t \in Turns, SaveReply(t) PROVE RevokedInv'
  BY <1>16 DEF SaveReply
<1>17. ASSUME NEW t \in Turns, MarkCompleted(t) PROVE RevokedInv'
  BY <1>17 DEF MarkCompleted, Answer, Return, Revoke
<1>18. ASSUME NEW t \in Turns, SavePartial(t) PROVE RevokedInv'
  BY <1>18 DEF SavePartial
<1>19. ASSUME NEW t \in Turns, MarkInterrupted(t) PROVE RevokedInv'
  BY <1>19 DEF MarkInterrupted, Answer, Return, Revoke
<1>20. ASSUME NEW t \in Turns, AppendTerminal(t) PROVE RevokedInv'
  BY <1>20 DEF AppendTerminal, Return
<1>21. ASSUME NEW t \in Turns, Crash(t) PROVE RevokedInv'
  BY <1>21 DEF Crash, Return
<1>22. ASSUME NEW i \in Interrupts, InterruptRead(i) PROVE RevokedInv'
  BY <1>22 DEF InterruptRead
<1>23. ASSUME NEW i \in Interrupts, InterruptWrite(i) PROVE RevokedInv'
  BY <1>23 DEF InterruptWrite, Revoke
<1>24. CASE UNCHANGED vars
  BY <1>24 DEF vars
<1> QED
  BY <1>1, <1>2, <1>3, <1>4, <1>5, <1>6, <1>7, <1>8, <1>9, <1>10,
     <1>11, <1>12, <1>13, <1>14, <1>15, <1>16, <1>17, <1>18, <1>19,
     <1>20, <1>21, <1>22, <1>23, <1>24
  DEF Next, ServerStep, AgentStep

\* No step breaks StoppedInv.
LEMMA StoppedStep == TypeOK /\ StoppedInv /\ [Next]_vars => StoppedInv'
<1> SUFFICES ASSUME TypeOK, StoppedInv, [Next]_vars PROVE StoppedInv'
  OBVIOUS
<1> USE DEF TypeOK, turnVars, ghosts, Goto, StoppedInv, Early, Pending, Exec
<1>1. ASSUME NEW t \in Turns, Submit(t) PROVE StoppedInv'
  BY <1>1 DEF Submit
<1>2. ASSUME NEW t \in Turns, Load(t) PROVE StoppedInv'
  BY <1>2 DEF Load
<1>3. ASSUME NEW t \in Turns, PersistInput(t) PROVE StoppedInv'
  BY <1>3 DEF PersistInput
<1>4. ASSUME NEW t \in Turns, MarkRunning(t) PROVE StoppedInv'
  BY <1>4 DEF MarkRunning, Revoke
<1>5. ASSUME NEW t \in Turns, EnterBackground(t) PROVE StoppedInv'
  BY <1>5 DEF EnterBackground
<1>6. ASSUME NEW t \in Turns, Poll(t) PROVE StoppedInv'
  BY <1>6 DEF Poll
<1>7. ASSUME NEW t \in Turns, AgentReturns(t) PROVE StoppedInv'
  BY <1>7 DEF AgentReturns
<1>8. ASSUME NEW t \in Turns, InterruptWins(t) PROVE StoppedInv'
  BY <1>8 DEF InterruptWins
<1>9. ASSUME NEW t \in Turns, ChunkInterrupted(t) PROVE StoppedInv'
  BY <1>9 DEF ChunkInterrupted
<1>10. ASSUME NEW t \in Turns, ChunkFailed(t) PROVE StoppedInv'
  BY <1>10 DEF ChunkFailed
<1>11. ASSUME NEW t \in Turns, ChunkSwitches(t) PROVE StoppedInv'
  BY <1>11 DEF ChunkSwitches
<1>12. ASSUME NEW t \in Turns, ChunkContinues(t) PROVE StoppedInv'
  BY <1>12 DEF ChunkContinues
<1>13. ASSUME NEW t \in Turns, StreamEnds(t) PROVE StoppedInv'
  BY <1>13 DEF StreamEnds
<1>14. ASSUME NEW t \in Turns, AgentRaises(t) PROVE StoppedInv'
  BY <1>14 DEF AgentRaises, Answer, Return
<1>15. ASSUME NEW t \in Turns, CheckStatus(t) PROVE StoppedInv'
  BY <1>15 DEF CheckStatus, Answer, Return
<1>16. ASSUME NEW t \in Turns, SaveReply(t) PROVE StoppedInv'
  BY <1>16 DEF SaveReply
<1>17. ASSUME NEW t \in Turns, MarkCompleted(t) PROVE StoppedInv'
  BY <1>17 DEF MarkCompleted, Answer, Return, Revoke
<1>18. ASSUME NEW t \in Turns, SavePartial(t) PROVE StoppedInv'
  BY <1>18 DEF SavePartial
<1>19. ASSUME NEW t \in Turns, MarkInterrupted(t) PROVE StoppedInv'
  BY <1>19 DEF MarkInterrupted, Answer, Return, Revoke
<1>20. ASSUME NEW t \in Turns, AppendTerminal(t) PROVE StoppedInv'
  BY <1>20 DEF AppendTerminal, Return
<1>21. ASSUME NEW t \in Turns, Crash(t) PROVE StoppedInv'
  BY <1>21 DEF Crash, Return
<1>22. ASSUME NEW i \in Interrupts, InterruptRead(i) PROVE StoppedInv'
  BY <1>22 DEF InterruptRead
<1>23. ASSUME NEW i \in Interrupts, InterruptWrite(i) PROVE StoppedInv'
  BY <1>23 DEF InterruptWrite, Revoke
<1>24. CASE UNCHANGED vars
  BY <1>24 DEF vars
<1> QED
  BY <1>1, <1>2, <1>3, <1>4, <1>5, <1>6, <1>7, <1>8, <1>9, <1>10,
     <1>11, <1>12, <1>13, <1>14, <1>15, <1>16, <1>17, <1>18, <1>19,
     <1>20, <1>21, <1>22, <1>23, <1>24
  DEF Next, ServerStep, AgentStep

\* No step breaks AimedInv.
LEMMA AimedStep == TypeOK /\ AimedInv /\ [Next]_vars => AimedInv'
<1> SUFFICES ASSUME TypeOK, AimedInv, [Next]_vars PROVE AimedInv'
  OBVIOUS
<1> USE DEF TypeOK, turnVars, ghosts, Goto, AimedInv, InterruptAimed, Aimed, Exec
<1>1. ASSUME NEW t \in Turns, Submit(t) PROVE AimedInv'
  BY <1>1 DEF Submit
<1>2. ASSUME NEW t \in Turns, Load(t) PROVE AimedInv'
  BY <1>2 DEF Load
<1>3. ASSUME NEW t \in Turns, PersistInput(t) PROVE AimedInv'
  BY <1>3 DEF PersistInput
<1>4. ASSUME NEW t \in Turns, MarkRunning(t) PROVE AimedInv'
  BY <1>4 DEF MarkRunning
<1>5. ASSUME NEW t \in Turns, EnterBackground(t) PROVE AimedInv'
  BY <1>5 DEF EnterBackground
<1>6. ASSUME NEW t \in Turns, Poll(t) PROVE AimedInv'
  BY <1>6, TurnsAssumption DEF Poll
<1>7. ASSUME NEW t \in Turns, AgentReturns(t) PROVE AimedInv'
  BY <1>7 DEF AgentReturns
<1>8. ASSUME NEW t \in Turns, InterruptWins(t) PROVE AimedInv'
  BY <1>8 DEF InterruptWins
<1>9. ASSUME NEW t \in Turns, ChunkInterrupted(t) PROVE AimedInv'
  BY <1>9 DEF ChunkInterrupted
<1>10. ASSUME NEW t \in Turns, ChunkFailed(t) PROVE AimedInv'
  BY <1>10 DEF ChunkFailed
<1>11. ASSUME NEW t \in Turns, ChunkSwitches(t) PROVE AimedInv'
  BY <1>11 DEF ChunkSwitches
<1>12. ASSUME NEW t \in Turns, ChunkContinues(t) PROVE AimedInv'
  BY <1>12 DEF ChunkContinues
<1>13. ASSUME NEW t \in Turns, StreamEnds(t) PROVE AimedInv'
  BY <1>13 DEF StreamEnds
<1>14. ASSUME NEW t \in Turns, AgentRaises(t) PROVE AimedInv'
  BY <1>14 DEF AgentRaises, Answer, Return
<1>15. ASSUME NEW t \in Turns, CheckStatus(t) PROVE AimedInv'
  BY <1>15 DEF CheckStatus, Answer, Return
<1>16. ASSUME NEW t \in Turns, SaveReply(t) PROVE AimedInv'
  BY <1>16 DEF SaveReply
<1>17. ASSUME NEW t \in Turns, MarkCompleted(t) PROVE AimedInv'
  BY <1>17 DEF MarkCompleted, Answer, Return
<1>18. ASSUME NEW t \in Turns, SavePartial(t) PROVE AimedInv'
  BY <1>18 DEF SavePartial
<1>19. ASSUME NEW t \in Turns, MarkInterrupted(t) PROVE AimedInv'
  BY <1>19 DEF MarkInterrupted, Answer, Return
<1>20. ASSUME NEW t \in Turns, AppendTerminal(t) PROVE AimedInv'
  BY <1>20 DEF AppendTerminal, Return
<1>21. ASSUME NEW t \in Turns, Crash(t) PROVE AimedInv'
  BY <1>21 DEF Crash, Return
<1>22. ASSUME NEW i \in Interrupts, InterruptRead(i) PROVE AimedInv'
  <2>1. icall[i].req = NoTurn /\ Aimed \ {NoTurn} \subseteq Aimed'
    BY <1>22 DEF InterruptRead
  <2>2. \A t \in Turns : fired'[t] => t \in Aimed'
    BY <1>22, <2>1, TurnsAssumption DEF InterruptRead
  <2> QED
    BY <1>22, <2>1, <2>2 DEF InterruptRead
<1>23. ASSUME NEW i \in Interrupts, InterruptWrite(i) PROVE AimedInv'
  BY <1>23 DEF InterruptWrite
<1>24. CASE UNCHANGED vars
  BY <1>24 DEF vars
<1> QED
  BY <1>1, <1>2, <1>3, <1>4, <1>5, <1>6, <1>7, <1>8, <1>9, <1>10,
     <1>11, <1>12, <1>13, <1>14, <1>15, <1>16, <1>17, <1>18, <1>19,
     <1>20, <1>21, <1>22, <1>23, <1>24
  DEF Next, ServerStep, AgentStep

\* No step breaks RunningInv.
LEMMA RunningStep == TypeOK /\ RunningInv /\ [Next]_vars => RunningInv'
<1> SUFFICES ASSUME TypeOK, RunningInv, [Next]_vars PROVE RunningInv'
  OBVIOUS
<1> USE DEF TypeOK, turnVars, ghosts, Goto, RunningInv, Exec, MayFinalize
<1>1. ASSUME NEW t \in Turns, Submit(t) PROVE RunningInv'
  BY <1>1 DEF Submit
<1>2. ASSUME NEW t \in Turns, Load(t) PROVE RunningInv'
  BY <1>2 DEF Load
<1>3. ASSUME NEW t \in Turns, PersistInput(t) PROVE RunningInv'
  BY <1>3 DEF PersistInput
<1>4. ASSUME NEW t \in Turns, MarkRunning(t) PROVE RunningInv'
  BY <1>4 DEF MarkRunning
<1>5. ASSUME NEW t \in Turns, EnterBackground(t) PROVE RunningInv'
  BY <1>5 DEF EnterBackground
<1>6. ASSUME NEW t \in Turns, Poll(t) PROVE RunningInv'
  BY <1>6 DEF Poll
<1>7. ASSUME NEW t \in Turns, AgentReturns(t) PROVE RunningInv'
  BY <1>7 DEF AgentReturns
<1>8. ASSUME NEW t \in Turns, InterruptWins(t) PROVE RunningInv'
  BY <1>8 DEF InterruptWins
<1>9. ASSUME NEW t \in Turns, ChunkInterrupted(t) PROVE RunningInv'
  BY <1>9 DEF ChunkInterrupted
<1>10. ASSUME NEW t \in Turns, ChunkFailed(t) PROVE RunningInv'
  BY <1>10 DEF ChunkFailed
<1>11. ASSUME NEW t \in Turns, ChunkSwitches(t) PROVE RunningInv'
  BY <1>11 DEF ChunkSwitches
<1>12. ASSUME NEW t \in Turns, ChunkContinues(t) PROVE RunningInv'
  BY <1>12 DEF ChunkContinues
<1>13. ASSUME NEW t \in Turns, StreamEnds(t) PROVE RunningInv'
  BY <1>13 DEF StreamEnds
<1>14. ASSUME NEW t \in Turns, AgentRaises(t) PROVE RunningInv'
  BY <1>14 DEF AgentRaises, Answer, Return
<1>15. ASSUME NEW t \in Turns, CheckStatus(t) PROVE RunningInv'
  BY <1>15 DEF CheckStatus, Answer, Return
<1>16. ASSUME NEW t \in Turns, SaveReply(t) PROVE RunningInv'
  BY <1>16 DEF SaveReply
<1>17. ASSUME NEW t \in Turns, MarkCompleted(t) PROVE RunningInv'
  BY <1>17 DEF MarkCompleted, Answer, Return
<1>18. ASSUME NEW t \in Turns, SavePartial(t) PROVE RunningInv'
  BY <1>18 DEF SavePartial
<1>19. ASSUME NEW t \in Turns, MarkInterrupted(t) PROVE RunningInv'
  BY <1>19 DEF MarkInterrupted, Answer, Return
<1>20. ASSUME NEW t \in Turns, AppendTerminal(t) PROVE RunningInv'
  BY <1>20 DEF AppendTerminal, Return
<1>21. ASSUME NEW t \in Turns, Crash(t) PROVE RunningInv'
  BY <1>21 DEF Crash, Return
<1>22. ASSUME NEW i \in Interrupts, InterruptRead(i) PROVE RunningInv'
  BY <1>22 DEF InterruptRead
<1>23. ASSUME NEW i \in Interrupts, InterruptWrite(i) PROVE RunningInv'
  BY <1>23 DEF InterruptWrite
<1>24. CASE UNCHANGED vars
  BY <1>24 DEF vars
<1> QED
  BY <1>1, <1>2, <1>3, <1>4, <1>5, <1>6, <1>7, <1>8, <1>9, <1>10,
     <1>11, <1>12, <1>13, <1>14, <1>15, <1>16, <1>17, <1>18, <1>19,
     <1>20, <1>21, <1>22, <1>23, <1>24
  DEF Next, ServerStep, AgentStep

\* A turn that has lost exec_status never gets past _check_exec_status, for
\* any number of turns, interrupts and pods (agent_execution.py, invoke.py).
THEOREM NoCommitAfterRevocation == Spec => []RevokedNeverCommits
<1>1. Init => RevokedInv
  BY DEF Init, RevokedInv, CompletedIsLast, Committed, Pending
<1>2. RevokedInv => RevokedNeverCommits
  BY DEF RevokedInv, RevokedNeverCommits
<1> QED
  BY <1>1, <1>2, TypeCorrect, RevokedStep, PTL DEF Spec

\* A stop request that reaches a running turn is not lost: the turn does not
\* end as completed, unless it switches to the background (conversation.py).
THEOREM NoCommitAfterStop == Spec => []InterruptHonoured
<1>1. Init => StoppedInv /\ RevokedInv
  BY DEF Init, StoppedInv, RevokedInv, CompletedIsLast, Committed, Pending
<1>2. TypeOK /\ StoppedInv /\ RevokedInv => InterruptHonoured
  BY DEF TypeOK, StoppedInv, RevokedInv, InterruptHonoured
<1> QED
  BY <1>1, <1>2, TypeCorrect, StoppedStep, RevokedStep, PTL DEF Spec

\* The poller of a turn fires only for a stop request aimed at that turn
\* (interrupt_poller.py).
THEOREM PollersHitTheirTarget == Spec => []InterruptAimed
<1>1. Init => AimedInv
  BY DEF Init, AimedInv, InterruptAimed, Aimed, Exec
<1>2. AimedInv => InterruptAimed
  BY DEF AimedInv
<1> QED
  BY <1>1, <1>2, TypeCorrect, AimedStep, PTL DEF Spec

\* exec_status never says "running" for a turn that has ended in an orderly
\* way: an interrupt call never reads it of such a turn (agent_execution.py).
THEOREM RunningIsLive == Spec => []RunningNamesLiveTurn
<1>1. Init => RunningInv
  BY DEF Init, RunningInv, Exec
<1>2. RunningInv => RunningNamesLiveTurn
  BY DEF RunningInv, RunningNamesLiveTurn, InFlight
<1> QED
  BY <1>1, <1>2, TypeCorrect, RunningStep, PTL DEF Spec
-----------------------------------------------------------------------------
(* ONE TURN AT A TIME.                                                     *)

-----------------------------------------------------------------------------
(* Histories.                                                              *)

\* The turn's messages are a suffix of h that its user message opens.
TurnLast(h, t) ==
  \E p \in DOMAIN h :
    /\ h[p] = Msg("user", t)
    /\ \A i \in DOMAIN h : h[i].turn = t <=> i >= p

NoDangling(h) == \A i \in DOMAIN h : ~Dangling(h, i)
OnlyLast(h)   == \A i \in DOMAIN h : Dangling(h, i) => i = Len(h)

HistOK(h, t) == h \in History /\ TurnLast(h, t) /\ OnlyLast(h)

\* From h, turn t makes g: only calls are lost, only messages of t are new.
Grows(h, g, t) ==
  \A m : /\ Holds(h, m) /\ m.kind # "call" => Holds(g, m)
         /\ Holds(g, m) /\ m.turn # t => Holds(h, m)

\* Append, index by index.
LEMMA AppendIndex ==
  ASSUME NEW h \in History, NEW m \in Message
  PROVE  /\ Append(h, m) \in History
         /\ DOMAIN h = 1..Len(h) /\ Len(h) \in Nat
         /\ DOMAIN Append(h, m) = 1..(Len(h) + 1)
         /\ Len(Append(h, m)) = Len(h) + 1
         /\ \A i \in 1..Len(h) : Append(h, m)[i] = h[i]
         /\ Append(h, m)[Len(h) + 1] = m
BY AppendProperties DEF History

\* Appending loses nothing.
LEMMA AppendHolds ==
  ASSUME NEW h \in History, NEW m \in Message, NEW x
  PROVE  Holds(Append(h, m), x) <=> (Holds(h, x) \/ x = m)
<1>1. Holds(h, x) => Holds(Append(h, m), x)
  BY AppendIndex DEF Holds
<1>2. x = m => Holds(Append(h, m), x)
  BY AppendIndex DEF Holds
<1>3. ASSUME Holds(Append(h, m), x), x # m PROVE Holds(h, x)
  <2>1. PICK i \in 1..(Len(h) + 1) : Append(h, m)[i] = x
    BY <1>3, AppendIndex DEF Holds
  <2> QED
    BY <2>1, <1>3, AppendIndex DEF Holds
<1> QED
  BY <1>1, <1>2, <1>3

\* A history that ends in anything but a call has no dangling call.
LEMMA LastDecides ==
  ASSUME NEW h \in History, OnlyLast(h), LastKind(h) # "call"
  PROVE  NoDangling(h)
BY DEF OnlyLast, NoDangling, Dangling, LastKind

\* A turn's message goes to the end of its history.
LEMMA TurnLastAppend ==
  ASSUME NEW t \in Turns, NEW h, HistOK(h, t), NEW m \in Message, m.turn = t
  PROVE  TurnLast(Append(h, m), t)
<1>1. PICK p \in DOMAIN h : /\ h[p] = Msg("user", t)
                           /\ \A i \in DOMAIN h : h[i].turn = t <=> i >= p
  BY DEF HistOK, TurnLast
<1>2. \A i \in 1..(Len(h) + 1) : Append(h, m)[i].turn = t <=> i >= p
  BY <1>1, AppendIndex DEF HistOK
<1> QED
  BY <1>1, <1>2, AppendIndex DEF HistOK, TurnLast

\* The last message of a turn's history is the turn's.
LEMMA LastIsOwn ==
  ASSUME NEW t \in Turns, NEW h, HistOK(h, t)
  PROVE  Len(h) \in DOMAIN h /\ h[Len(h)].turn = t
<1>1. PICK p \in DOMAIN h : /\ h[p] = Msg("user", t)
                           /\ \A i \in DOMAIN h : h[i].turn = t <=> i >= p
  BY DEF HistOK, TurnLast
<1>2. DOMAIN h = 1..Len(h) /\ Len(h) \in Nat
  BY DEF HistOK, History
<1> QED
  BY <1>1, <1>2

\* A message after a history without dangling calls leaves only itself to
\* dangle.
LEMMA AppendToClosed ==
  ASSUME NEW h \in History, NoDangling(h), NEW m \in Message
  PROVE  OnlyLast(Append(h, m))
<1> SUFFICES ASSUME NEW i \in 1..Len(h), Dangling(Append(h, m), i) PROVE FALSE
  BY AppendIndex DEF OnlyLast
<1>1. h[i].kind = "call" /\ \A j \in DOMAIN h : j > i => h[j] # Msg("result", h[i].turn)
  BY AppendIndex DEF Dangling
<1> QED
  BY <1>1, AppendIndex DEF Dangling, NoDangling

\* The result of the last call closes it.
LEMMA ResultCloses ==
  ASSUME NEW t \in Turns, NEW h, HistOK(h, t), LastKind(h) = "call"
  PROVE  NoDangling(Append(h, Msg("result", t)))
<1> DEFINE g == Append(h, Msg("result", t))
<1>0. h \in History /\ Msg("result", t) \in Message
  BY MsgIsMessage DEF HistOK, Kinds
<1> SUFFICES ASSUME NEW i \in 1..(Len(h) + 1), Dangling(g, i) PROVE FALSE
  BY <1>0, AppendIndex DEF NoDangling
<1>1. i # Len(h) + 1
  BY <1>0, AppendIndex DEF Dangling, Msg
<1>2. i \in DOMAIN h /\ g[i] = h[i]
  BY <1>0, <1>1, AppendIndex
<1>3. Dangling(h, i)
  BY <1>0, <1>2, AppendIndex DEF Dangling
<1>4. i = Len(h)
  BY <1>2, <1>3 DEF HistOK, OnlyLast
<1>5. h[i].turn = t
  BY <1>4, LastIsOwn
<1>6. g[Len(h) + 1] = Msg("result", g[i].turn)
  BY <1>0, <1>2, <1>5, AppendIndex
<1> QED
  BY <1>0, <1>2, <1>6, AppendIndex DEF Dangling

\* Loading: the turn's user message after an envelope without dangling calls
\* and without messages of the turn.
LEMMA LoadHist ==
  ASSUME NEW t \in Turns, NEW h \in History, NoDangling(h),
         \A i \in DOMAIN h : h[i].turn # t
  PROVE  /\ HistOK(Append(h, Msg("user", t)), t)
         /\ NoDangling(Append(h, Msg("user", t)))
         /\ Grows(h, Append(h, Msg("user", t)), t)
<1> DEFINE g == Append(h, Msg("user", t))
<1>1. Msg("user", t) \in Message
  BY MsgIsMessage DEF Kinds
<1>2. g \in History /\ Len(g) = Len(h) + 1 /\ Len(h) \in Nat
  BY <1>1, AppendIndex
<1>3. OnlyLast(g)
  BY <1>1, AppendToClosed
<1>4. TurnLast(g, t)
  <2>1. Len(h) + 1 \in DOMAIN g /\ g[Len(h) + 1] = Msg("user", t)
    BY <1>1, AppendIndex
  <2>2. \A i \in DOMAIN g : g[i].turn = t <=> i >= Len(h) + 1
    BY <1>1, AppendIndex DEF Msg
  <2> QED
    BY <2>1, <2>2 DEF TurnLast
<1>5. LastKind(g) # "call"
  BY <1>1, AppendIndex DEF LastKind, Msg
<1>6. Grows(h, g, t)
  BY <1>1, AppendHolds DEF Grows, Msg
<1> QED
  BY <1>2, <1>3, <1>4, <1>5, <1>6, LastDecides DEF HistOK

\* A chunk: nothing is lost, and only the last message may dangle.
LEMMA ChunkHist ==
  ASSUME NEW t \in Turns, HistOK(hist[t], t), NEW h \in NextStates(t)
  PROVE  HistOK(h, t) /\ Grows(hist[t], h, t)
<1> DEFINE g(k) == Append(hist[t], Msg(k, t))
<1>1. hist[t] \in History /\ \A k \in Kinds : Msg(k, t) \in Message /\ Msg(k, t).turn = t
  BY MsgIsMessage DEF HistOK, Msg
<1>2. \A k \in Kinds : /\ g(k) \in History /\ TurnLast(g(k), t)
                       /\ Grows(hist[t], g(k), t)
  BY <1>1, AppendIndex, TurnLastAppend, AppendHolds DEF Grows
<1>3. ASSUME LastKind(hist[t]) # "call", NEW k \in Kinds PROVE OnlyLast(g(k))
  BY <1>1, <1>3, LastDecides, AppendToClosed DEF HistOK
<1>4. ASSUME LastKind(hist[t]) = "call" PROVE OnlyLast(g("result"))
  BY <1>4, ResultCloses DEF NoDangling, OnlyLast
<1>5. CASE h = hist[t]
  BY <1>5 DEF Grows
<1>6. CASE LastKind(hist[t]) = "call" /\ h = g("result")
  BY <1>2, <1>4, <1>6 DEF HistOK, Kinds
<1>7. CASE LastKind(hist[t]) # "call" /\ \E k \in {"reply", "call"} : h = g(k)
  BY <1>2, <1>3, <1>7 DEF HistOK, Kinds
<1>8. \/ h = hist[t]
      \/ LastKind(hist[t]) = "call" /\ h = g("result")
      \/ LastKind(hist[t]) # "call" /\ \E k \in {"reply", "call"} : h = g(k)
  BY DEF NextStates
<1> QED
  BY <1>5, <1>6, <1>7, <1>8

\* Three messages at once are three messages one by one.
LEMMA ThreeAppends ==
  ASSUME NEW t \in Turns, NEW h \in History
  PROVE  h \o <<Msg("call", t), Msg("result", t), Msg("reply", t)>>
           = Append(Append(Append(h, Msg("call", t)), Msg("result", t)), Msg("reply", t))
<1> DEFINE call == Append(h, Msg("call", t))
           result == Append(call, Msg("result", t))
<1> DEFINE a == Msg("call", t)
           b == Msg("result", t)
           c == Msg("reply", t)
<1>1. a \in Message /\ b \in Message /\ c \in Message /\ h \in Seq(Message)
  BY MsgIsMessage DEF History, Kinds
<1>2. /\ call \in Seq(Message) /\ result \in Seq(Message)
      /\ <<a>> \in Seq(Message) /\ <<b>> \in Seq(Message) /\ <<c>> \in Seq(Message)
  BY <1>1, AppendProperties
<1> HIDE DEF a, b, c
<1>3. Append(result, c) = ((h \o <<a>>) \o <<b>>) \o <<c>>
  BY <1>1, <1>2, AppendIsConcat DEF a, b
<1>4. ((h \o <<a>>) \o <<b>>) \o <<c>> = h \o ((<<a>> \o <<b>>) \o <<c>>)
  <2>1. <<a>> \o <<b>> \in Seq(Message)
    BY <1>2, ConcatProperties
  <2>2. (h \o <<a>>) \o <<b>> = h \o (<<a>> \o <<b>>)
    BY <1>1, <1>2, ConcatAssociative
  <2>3. (h \o (<<a>> \o <<b>>)) \o <<c>> = h \o ((<<a>> \o <<b>>) \o <<c>>)
    BY <1>1, <1>2, <2>1, ConcatAssociative
  <2> QED
    BY <2>2, <2>3
<1>5. (<<a>> \o <<b>>) \o <<c>> = <<a, b, c>>
  <2>1. Len(<<a>>) = 1 /\ Len(<<b>>) = 1 /\ Len(<<c>>) = 1
        /\ <<a>>[1] = a /\ <<b>>[1] = b /\ <<c>>[1] = c
    OBVIOUS
  <2>2. /\ <<a>> \o <<b>> \in Seq(Message) /\ Len(<<a>> \o <<b>>) = 2
        /\ (<<a>> \o <<b>>)[1] = a /\ (<<a>> \o <<b>>)[2] = b
    BY <1>2, <2>1, ConcatProperties
  <2> DEFINE abc == (<<a>> \o <<b>>) \o <<c>>
  <2>3. /\ abc \in Seq(Message) /\ Len(abc) = 3
        /\ abc[1] = a /\ abc[2] = b /\ abc[3] = c
    BY <1>2, <2>1, <2>2, ConcatProperties
  <2>4. <<a, b, c>> \in Seq(Message) /\ Len(<<a, b, c>>) = 3
    BY <1>1
  <2> HIDE DEF abc
  <2>5. \A i \in 1..3 : abc[i] = <<a, b, c>>[i]
    BY <2>3
  <2>6. abc = <<a, b, c>>
    BY <2>3, <2>4, <2>5, SeqEqual
  <2> QED
    BY <2>6 DEF abc
<1> QED
  BY <1>3, <1>4, <1>5 DEF a, b, c

\* A blocking agent's answer: nothing is lost, nothing dangles, and the reply
\* is there.
LEMMA ReturnedHist ==
  ASSUME NEW t \in Turns, HistOK(hist[t], t), NoDangling(hist[t]),
         NEW h \in Returned(t)
  PROVE  /\ HistOK(h, t) /\ NoDangling(h)
         /\ Holds(h, Msg("reply", t))
         /\ Grows(hist[t], h, t)
<1> DEFINE call == Append(hist[t], Msg("call", t))
           result == Append(call, Msg("result", t))
<1>1. \A k \in Kinds : Msg(k, t) \in Message /\ Msg(k, t).turn = t
  BY MsgIsMessage DEF Msg
<1>2. ASSUME NEW g, HistOK(g, t), NoDangling(g)
      PROVE  LET r == Append(g, Msg("reply", t))
             IN  /\ HistOK(r, t) /\ NoDangling(r) /\ Holds(r, Msg("reply", t))
                 /\ Grows(g, r, t)
  <2> DEFINE r == Append(g, Msg("reply", t))
  <2>1. g \in History /\ Msg("reply", t) \in Message
    BY <1>1, <1>2 DEF HistOK, Kinds
  <2>2. LastKind(r) = "reply" /\ r \in History
    BY <2>1, AppendIndex DEF LastKind, Msg
  <2>3. OnlyLast(r)
    BY <1>2, <2>1, AppendToClosed
  <2>4. NoDangling(r)
    BY <2>2, <2>3, LastDecides
  <2>5. TurnLast(r, t)
    BY <1>1, <1>2, TurnLastAppend DEF Kinds
  <2>6. Holds(r, Msg("reply", t)) /\ Grows(g, r, t)
    BY <1>1, <2>1, AppendHolds DEF Grows, Kinds
  <2> QED
    BY <2>2, <2>3, <2>4, <2>5, <2>6 DEF HistOK
<1>3. HistOK(call, t) /\ LastKind(call) = "call"
  <2>1. hist[t] \in History /\ Msg("call", t) \in Message
    BY <1>1 DEF HistOK, Kinds
  <2>2. call \in History /\ LastKind(call) = "call"
    BY <2>1, AppendIndex DEF LastKind, Msg
  <2> QED
    BY <1>1, <2>1, <2>2, AppendToClosed, TurnLastAppend DEF HistOK, Kinds
<1>4. HistOK(result, t) /\ NoDangling(result)
  <2>1. call \in History /\ Msg("result", t) \in Message
    BY <1>1, <1>3 DEF HistOK, Kinds
  <2>2. NoDangling(result)
    BY <1>3, ResultCloses
  <2> QED
    BY <1>1, <1>3, <2>1, <2>2, AppendIndex, TurnLastAppend
    DEF HistOK, NoDangling, OnlyLast, Kinds
<1>5. Grows(hist[t], result, t)
  <2>1. hist[t] \in History /\ call \in History
        /\ Msg("call", t) \in Message /\ Msg("result", t) \in Message
    BY <1>1, <1>3 DEF HistOK, Kinds
  <2>2. \A x : Holds(result, x) <=>
                 (Holds(hist[t], x) \/ x = Msg("call", t) \/ x = Msg("result", t))
    BY <2>1, AppendHolds
  <2> QED
    BY <1>1, <2>2 DEF Grows, Kinds
<1>6. hist[t] \o <<Msg("call", t), Msg("result", t), Msg("reply", t)>>
        = Append(result, Msg("reply", t))
  BY ThreeAppends DEF HistOK
<1>7. CASE h = Append(hist[t], Msg("reply", t))
  BY <1>2, <1>7
<1>8. CASE h = Append(result, Msg("reply", t))
  <2>1. /\ HistOK(h, t) /\ NoDangling(h) /\ Holds(h, Msg("reply", t))
        /\ Grows(result, h, t)
    BY <1>2, <1>4, <1>8
  <2>2. \A x : Holds(h, x) <=> (Holds(result, x) \/ x = Msg("reply", t))
    BY <1>1, <1>4, <1>8, AppendHolds DEF HistOK, Kinds
  <2>3. Grows(hist[t], h, t)
    BY <1>1, <1>5, <2>2 DEF Grows, Kinds
  <2> QED
    BY <2>1, <2>3
<1> QED
  BY <1>6, <1>7, <1>8 DEF Returned

\* A history whose last message, a call without result, becomes text.
LEMMA ReplaceLast ==
  ASSUME NEW t \in Turns, NEW h, HistOK(h, t), Dangling(h, Len(h)),
         NEW g \in History, Len(g) = Len(h), g[Len(h)] = Msg("text", t),
         \A i \in 1..(Len(h) - 1) : g[i] = h[i]
  PROVE  HistOK(g, t) /\ NoDangling(g) /\ Grows(h, g, t)
<1>1. /\ h \in History /\ Len(h) \in Nat
      /\ DOMAIN h = 1..Len(h) /\ DOMAIN g = 1..Len(h)
  BY DEF HistOK, History
<1>2. LastKind(g) # "call"
  BY DEF LastKind, Msg
<1>3. ASSUME NEW i \in 1..Len(h), Dangling(g, i) PROVE FALSE
  <2>1. i # Len(h)
    BY <1>3 DEF Dangling, Msg
  <2>2. i \in 1..(Len(h) - 1)
    <3>1. \A n \in Nat : \A k \in 1..n : k # n => k \in 1..(n - 1)
      OBVIOUS
    <3> QED
      BY <1>1, <2>1, <3>1
  <2>3. h[i] = g[i] /\ h[i].kind = "call" /\ ~Dangling(h, i)
    BY <1>1, <1>3, <2>1, <2>2 DEF HistOK, OnlyLast, Dangling
  <2>4. PICK j \in 1..Len(h) : j > i /\ h[j] = Msg("result", h[i].turn)
    BY <1>1, <2>3 DEF Dangling
  <2>5. j # Len(h)
    BY <2>4 DEF Dangling, Msg
  <2>6. g[j] = Msg("result", g[i].turn) /\ j \in DOMAIN g
    BY <1>1, <2>3, <2>4, <2>5
  <2> QED
    BY <1>3, <2>4, <2>6 DEF Dangling
<1>4. TurnLast(g, t)
  <2>1. PICK p \in DOMAIN h : /\ h[p] = Msg("user", t)
                              /\ \A i \in DOMAIN h : h[i].turn = t <=> i >= p
    BY DEF HistOK, TurnLast
  <2>2. p # Len(h)
    BY <2>1 DEF Dangling, Msg
  <2>3. p \in DOMAIN g /\ g[p] = Msg("user", t)
    BY <1>1, <2>1, <2>2
  <2>4. g[Len(h)].turn = t
    BY DEF Msg
  <2>5. \A i \in DOMAIN g : g[i].turn = t <=> i >= p
    BY <1>1, <2>1, <2>4
  <2> QED
    BY <2>3, <2>5 DEF TurnLast
<1>5. ASSUME NEW m, Holds(h, m), m.kind # "call" PROVE Holds(g, m)
  <2>1. PICK i \in DOMAIN h : h[i] = m
    BY <1>5 DEF Holds
  <2>2. i # Len(h)
    BY <1>5, <2>1 DEF Dangling
  <2>3. i \in DOMAIN g /\ g[i] = m
    BY <1>1, <2>1, <2>2
  <2> QED
    BY <2>3 DEF Holds
<1>6. ASSUME NEW m, Holds(g, m), m.turn # t PROVE Holds(h, m)
  <2>1. PICK i \in DOMAIN g : g[i] = m
    BY <1>6 DEF Holds
  <2>2. i # Len(h)
    BY <1>6, <2>1 DEF Msg
  <2>3. i \in DOMAIN h /\ h[i] = m
    BY <1>1, <2>1, <2>2
  <2> QED
    BY <2>3 DEF Holds
<1> QED
  BY <1>1, <1>3, <1>4, <1>5, <1>6 DEF HistOK, NoDangling, OnlyLast, Grows

\* The history but for its last message.
LEMMA FrontIndex ==
  ASSUME NEW h \in History, NEW n \in Nat, n = Len(h), n # 0
  PROVE  /\ SubSeq(h, 1, n - 1) \in History
         /\ Len(SubSeq(h, 1, n - 1)) = n - 1
         /\ \A i \in 1..(n - 1) : SubSeq(h, 1, n - 1)[i] = h[i]
<1>1. n - 1 \in Int /\ 1 \in Int /\ \A i \in 1..(n - 1) : h[i] \in Message
  BY DEF History
<1>2. /\ SubSeq(h, 1, n - 1) \in Seq(Message)
      /\ Len(SubSeq(h, 1, n - 1)) = IF 1 <= n - 1 THEN (n - 1) - 1 + 1 ELSE 0
      /\ \A i \in 1..((n - 1) - 1 + 1) : SubSeq(h, 1, n - 1)[i] = h[1 + i - 1]
  BY <1>1, SubSeqProperties
<1>3. (IF 1 <= n - 1 THEN (n - 1) - 1 + 1 ELSE 0) = n - 1
  OBVIOUS
<1>4. (n - 1) - 1 + 1 = n - 1 /\ \A i \in 1..(n - 1) : 1 + i - 1 = i
  OBVIOUS
<1> QED
  BY <1>2, <1>3, <1>4 DEF History

\* Sanitizing: at most the last message, a call, becomes text; nothing dangles
\* any more.
LEMMA SanitizeHist ==
  ASSUME NEW t \in Turns, NEW h, HistOK(h, t)
  PROVE  HistOK(Sanitize(h), t) /\ NoDangling(Sanitize(h)) /\ Grows(h, Sanitize(h), t)
<1> DEFINE last == {i \in DOMAIN h : /\ h[i].kind = "call"
                                     /\ \A j \in DOMAIN h : j > i => h[j].kind # "call"}
           bad  == {i \in last : Dangling(h, i)}
<1>1. /\ h \in History /\ DOMAIN h = 1..Len(h) /\ Len(h) \in Nat
      /\ Len(h) \in DOMAIN h /\ h[Len(h)].turn = t
  BY LastIsOwn DEF HistOK, History
<1>2. CASE Dangling(h, Len(h))
  <2>1. bad = {Len(h)}
    BY <1>1, <1>2 DEF HistOK, OnlyLast, Dangling
  <2>2. Sanitize(h) = Append(SubSeq(h, 1, Len(h) - 1), Msg("text", t))
    BY <1>1, <2>1 DEF Sanitize
  <2>3. Msg("text", t) \in Message
    BY MsgIsMessage DEF Kinds
  <2>4. /\ SubSeq(h, 1, Len(h) - 1) \in History
        /\ Len(SubSeq(h, 1, Len(h) - 1)) = Len(h) - 1
        /\ \A i \in 1..(Len(h) - 1) : SubSeq(h, 1, Len(h) - 1)[i] = h[i]
    BY <1>1, FrontIndex
  <2>5. \A f \in History : Len(f) = Len(h) - 1 =>
          /\ Append(f, Msg("text", t)) \in History
          /\ Len(Append(f, Msg("text", t))) = Len(h)
          /\ Append(f, Msg("text", t))[Len(h)] = Msg("text", t)
          /\ \A i \in 1..(Len(h) - 1) : Append(f, Msg("text", t))[i] = f[i]
    <3> SUFFICES ASSUME NEW f \in History, Len(f) = Len(h) - 1
                 PROVE  LET g == Append(f, Msg("text", t))
                        IN  /\ g \in History /\ Len(g) = Len(h)
                            /\ g[Len(h)] = Msg("text", t)
                            /\ \A i \in 1..(Len(h) - 1) : g[i] = f[i]
      OBVIOUS
    <3>1. Len(f) + 1 = Len(h)
      BY <1>1
    <3> QED
      BY <2>3, <3>1, AppendIndex
  <2>6. /\ Sanitize(h) \in History /\ Len(Sanitize(h)) = Len(h)
        /\ Sanitize(h)[Len(h)] = Msg("text", t)
        /\ \A i \in 1..(Len(h) - 1) : Sanitize(h)[i] = h[i]
    BY <2>2, <2>4, <2>5
  <2> QED
    BY <1>2, <2>6, ReplaceLast
<1>3. CASE ~Dangling(h, Len(h))
  <2>1. NoDangling(h)
    BY <1>1, <1>3 DEF HistOK, OnlyLast, NoDangling
  <2>2. bad = {}
    BY <2>1 DEF NoDangling
  <2>3. Sanitize(h) = h
    BY <2>2 DEF Sanitize
  <2> QED
    BY <2>1, <2>3 DEF Grows
<1> QED
  BY <1>2, <1>3

\* A failed answer of the model is one more text.
LEMMA FailedHist ==
  ASSUME NEW t \in Turns, NEW h, HistOK(h, t), LastKind(h) # "call"
  PROVE  /\ HistOK(Append(h, Msg("text", t)), t)
         /\ Grows(h, Append(h, Msg("text", t)), t)
<1>1. h \in History /\ Msg("text", t) \in Message /\ Msg("text", t).turn = t
  BY MsgIsMessage DEF HistOK, Kinds, Msg
<1>2. OnlyLast(Append(h, Msg("text", t)))
  BY <1>1, LastDecides, AppendToClosed DEF HistOK
<1> QED
  BY <1>1, <1>2, AppendIndex, AppendHolds, TurnLastAppend DEF HistOK, Grows

-----------------------------------------------------------------------------
(* The inductive invariant.                                                *)

\* The history h of t covers what e holds: no input is lost, no reply of
\* another turn.
Covers(e, h, t) ==
  \A u \in Turns :
    /\ Holds(e, Msg("user", u)) => Holds(h, Msg("user", u))
    /\ u # t /\ Holds(e, Msg("reply", u)) => Holds(h, Msg("reply", u))

Absent(h, t) == \A i \in DOMAIN h : h[i].turn # t

\* The turn has a history.
Started(t) == pc[t] \notin {"idle", "load", "done"}

\* The agent is not in the middle of a tool call.
Settled(t) ==
  \/ pc[t] \in {"persist", "mark", "bgmeta", "check", "save", "complete"}
  \/ pc[t] = "run" /\ mode[t] = "sync"

OneAtATime == \A t, u \in Turns : InFlight(t) /\ InFlight(u) => t = u

EnvelopeInv ==
  /\ NoDangling(envelope)
  /\ \A t \in Turns : pc[t] \in {"idle", "load"} => Absent(envelope, t)
  /\ saved \subseteq Users(envelope)

HistoryInv ==
  \A t \in Turns :
    IF Started(t)
    THEN /\ HistOK(hist[t], t)
         /\ Covers(envelope, hist[t], t)
         /\ before[t] \subseteq Users(hist[t])
         /\ Settled(t) => NoDangling(hist[t])
         /\ \A u \in Turns : pc[u] = "idle" => Absent(hist[t], u)
    ELSE hist[t] = << >>

RepliesInv ==
  \A t \in Turns :
    /\ pc[t] \in {"check", "save", "complete"} => Holds(hist[t], Msg("reply", t))
    /\ pc[t] = "complete" \/ outcome[t] = "completed"
         => Holds(envelope, Msg("reply", t))
    /\ bgStatus[t] = "completed" => pc[t] = "done" /\ outcome[t] = "completed"

SequentialInv == OneAtATime /\ EnvelopeInv /\ HistoryInv /\ RepliesInv

\* What a growing history keeps.
LEMMA GrowsKeeps ==
  ASSUME NEW t \in Turns, NEW h, NEW g, Grows(h, g, t)
  PROVE  /\ Users(h) \subseteq Users(g)
         /\ Covers(envelope, h, t) => Covers(envelope, g, t)
         /\ \A u \in Turns : u # t /\ Absent(h, u) => Absent(g, u)
<1>1. \A u \in Turns, k \in {"user", "reply"} :
        Holds(h, Msg(k, u)) => Holds(g, Msg(k, u))
  BY DEF Grows, Msg
<1>2. Users(h) \subseteq Users(g)
  BY <1>1 DEF Users
<1>3. Covers(envelope, h, t) => Covers(envelope, g, t)
  BY <1>1 DEF Covers
<1>4. ASSUME NEW u \in Turns, u # t, Absent(h, u), NEW i \in DOMAIN g, g[i].turn = u
      PROVE  FALSE
  <2>1. Holds(h, g[i])
    BY <1>4 DEF Grows, Holds
  <2> QED
    BY <1>4, <2>1 DEF Holds, Absent
<1> QED
  BY <1>2, <1>3, <1>4 DEF Absent

\* The history of a turn holds its user message.
LEMMA OwnInput ==
  ASSUME NEW t \in Turns, NEW h, HistOK(h, t)
  PROVE  Holds(h, Msg("user", t))
BY DEF HistOK, TurnLast, Holds

\* While a turn is in flight no other turn has a history.
LEMMA Alone ==
  ASSUME OneAtATime, NEW t \in Turns, InFlight(t), NEW u \in Turns, u # t
  PROVE  ~InFlight(u) /\ ~Started(u) /\ pc[u] # "load"
BY DEF OneAtATime, InFlight, Started

\* No step puts a second turn in flight.
LEMMA OneStep == ~Overlap /\ TypeOK /\ OneAtATime /\ [Next]_vars => OneAtATime'
<1> SUFFICES ASSUME ~Overlap, TypeOK, OneAtATime, [Next]_vars PROVE OneAtATime'
  OBVIOUS
<1> USE DEF TypeOK, turnVars, ghosts, Goto, OneAtATime, InFlight
<1>1. ASSUME NEW t \in Turns, Submit(t) PROVE OneAtATime'
  BY <1>1 DEF Submit
<1>2. ASSUME NEW t \in Turns, Load(t) PROVE OneAtATime'
  BY <1>2 DEF Load
<1>3. ASSUME NEW t \in Turns, PersistInput(t) PROVE OneAtATime'
  BY <1>3 DEF PersistInput
<1>4. ASSUME NEW t \in Turns, MarkRunning(t) PROVE OneAtATime'
  BY <1>4 DEF MarkRunning
<1>5. ASSUME NEW t \in Turns, EnterBackground(t) PROVE OneAtATime'
  BY <1>5 DEF EnterBackground
<1>6. ASSUME NEW t \in Turns, Poll(t) PROVE OneAtATime'
  BY <1>6 DEF Poll
<1>7. ASSUME NEW t \in Turns, AgentReturns(t) PROVE OneAtATime'
  BY <1>7 DEF AgentReturns
<1>8. ASSUME NEW t \in Turns, InterruptWins(t) PROVE OneAtATime'
  BY <1>8 DEF InterruptWins
<1>9. ASSUME NEW t \in Turns, ChunkInterrupted(t) PROVE OneAtATime'
  BY <1>9 DEF ChunkInterrupted
<1>10. ASSUME NEW t \in Turns, ChunkFailed(t) PROVE OneAtATime'
  BY <1>10 DEF ChunkFailed
<1>11. ASSUME NEW t \in Turns, ChunkSwitches(t) PROVE OneAtATime'
  BY <1>11 DEF ChunkSwitches
<1>12. ASSUME NEW t \in Turns, ChunkContinues(t) PROVE OneAtATime'
  BY <1>12 DEF ChunkContinues
<1>13. ASSUME NEW t \in Turns, StreamEnds(t) PROVE OneAtATime'
  BY <1>13 DEF StreamEnds
<1>14. ASSUME NEW t \in Turns, AgentRaises(t) PROVE OneAtATime'
  BY <1>14 DEF AgentRaises, Answer, Return
<1>15. ASSUME NEW t \in Turns, CheckStatus(t) PROVE OneAtATime'
  BY <1>15 DEF CheckStatus, Answer, Return
<1>16. ASSUME NEW t \in Turns, SaveReply(t) PROVE OneAtATime'
  BY <1>16 DEF SaveReply
<1>17. ASSUME NEW t \in Turns, MarkCompleted(t) PROVE OneAtATime'
  BY <1>17 DEF MarkCompleted, Answer, Return
<1>18. ASSUME NEW t \in Turns, SavePartial(t) PROVE OneAtATime'
  BY <1>18 DEF SavePartial
<1>19. ASSUME NEW t \in Turns, MarkInterrupted(t) PROVE OneAtATime'
  BY <1>19 DEF MarkInterrupted, Answer, Return
<1>20. ASSUME NEW t \in Turns, AppendTerminal(t) PROVE OneAtATime'
  BY <1>20 DEF AppendTerminal, Return
<1>21. ASSUME NEW t \in Turns, Crash(t) PROVE OneAtATime'
  BY <1>21 DEF Crash, Return
<1>22. ASSUME NEW i \in Interrupts, InterruptRead(i) PROVE OneAtATime'
  BY <1>22 DEF InterruptRead
<1>23. ASSUME NEW i \in Interrupts, InterruptWrite(i) PROVE OneAtATime'
  BY <1>23 DEF InterruptWrite
<1>24. CASE UNCHANGED vars
  BY <1>24 DEF vars
<1> QED
  BY <1>1, <1>2, <1>3, <1>4, <1>5, <1>6, <1>7, <1>8, <1>9, <1>10,
     <1>11, <1>12, <1>13, <1>14, <1>15, <1>16, <1>17, <1>18, <1>19,
     <1>20, <1>21, <1>22, <1>23, <1>24
  DEF Next, ServerStep, AgentStep

\* A step that leaves the envelope alone and takes no turn back to its start
\* keeps EnvelopeInv.
LEMMA EnvelopeFrame ==
  ASSUME EnvelopeInv, UNCHANGED <<envelope, saved>>,
         \A u \in Turns : pc'[u] \in {"idle", "load"} => pc[u] \in {"idle", "load"}
  PROVE  EnvelopeInv'
BY DEF EnvelopeInv, NoDangling, Dangling, Absent, Users, Holds

\* A step of t that writes a settled history of t that covers the envelope
\* keeps EnvelopeInv.
LEMMA EnvelopeWrite ==
  ASSUME OneAtATime, EnvelopeInv, NEW t \in Turns, InFlight(t), NEW h,
         HistOK(h, t), NoDangling(h), Covers(envelope, h, t),
         \A u \in Turns : pc[u] = "idle" => Absent(h, u),
         envelope' = h, saved' \subseteq saved \cup {t},
         pc'[t] \notin {"idle", "load"}, \A u \in Turns \ {t} : pc'[u] = pc[u]
  PROVE  EnvelopeInv'
<1>1. NoDangling(envelope)'
  BY DEF NoDangling, Dangling
<1>2. ASSUME NEW u \in Turns, pc'[u] \in {"idle", "load"} PROVE Absent(envelope, u)'
  <2>1. u # t /\ pc[u] \in {"idle", "load"}
    BY <1>2
  <2>2. pc[u] = "idle"
    BY <2>1, Alone
  <2> QED
    BY <2>1, <2>2 DEF Absent
<1>3. saved' \subseteq Users(envelope')
  <2>1. saved \subseteq Users(h)
    BY DEF EnvelopeInv, Covers, Users
  <2> QED
    BY <2>1, OwnInput DEF Users
<1>4. Users(envelope)' = Users(envelope')
  BY DEF Users, Holds
<1> QED
  BY <1>1, <1>2, <1>3, <1>4 DEF EnvelopeInv

\* No step spoils the envelope.
LEMMA EnvelopeStep ==
  TypeOK /\ SequentialInv /\ [Next]_vars => EnvelopeInv'
<1> SUFFICES ASSUME TypeOK, OneAtATime, EnvelopeInv, HistoryInv, [Next]_vars PROVE EnvelopeInv'
  BY DEF SequentialInv
<1> USE DEF TypeOK, turnVars, ghosts, Goto
<1>1. ASSUME NEW t \in Turns, Submit(t) PROVE EnvelopeInv'
  BY <1>1, EnvelopeFrame DEF Submit
<1>2. ASSUME NEW t \in Turns, Load(t) PROVE EnvelopeInv'
  BY <1>2, EnvelopeFrame DEF Load
<1>3. ASSUME NEW t \in Turns, PersistInput(t) PROVE EnvelopeInv'
  <2>1. Started(t) /\ InFlight(t) /\ Settled(t)
    BY <1>3 DEF PersistInput, Started, InFlight, Settled
  <2>2. /\ envelope' = hist[t] /\ saved' \subseteq saved \cup {t}
        /\ pc'[t] \notin {"idle", "load"} /\ \A u \in Turns \ {t} : pc'[u] = pc[u]
    BY <1>3 DEF PersistInput
  <2> QED
    BY <2>1, <2>2, EnvelopeWrite DEF HistoryInv
<1>4. ASSUME NEW t \in Turns, MarkRunning(t) PROVE EnvelopeInv'
  BY <1>4, EnvelopeFrame DEF MarkRunning
<1>5. ASSUME NEW t \in Turns, EnterBackground(t) PROVE EnvelopeInv'
  BY <1>5, EnvelopeFrame DEF EnterBackground
<1>6. ASSUME NEW t \in Turns, Poll(t) PROVE EnvelopeInv'
  BY <1>6, EnvelopeFrame DEF Poll
<1>7. ASSUME NEW t \in Turns, AgentReturns(t) PROVE EnvelopeInv'
  BY <1>7, EnvelopeFrame DEF AgentReturns
<1>8. ASSUME NEW t \in Turns, InterruptWins(t) PROVE EnvelopeInv'
  BY <1>8, EnvelopeFrame DEF InterruptWins
<1>9. ASSUME NEW t \in Turns, ChunkInterrupted(t) PROVE EnvelopeInv'
  BY <1>9, EnvelopeFrame DEF ChunkInterrupted
<1>10. ASSUME NEW t \in Turns, ChunkFailed(t) PROVE EnvelopeInv'
  BY <1>10, EnvelopeFrame DEF ChunkFailed
<1>11. ASSUME NEW t \in Turns, ChunkSwitches(t) PROVE EnvelopeInv'
  BY <1>11, EnvelopeFrame DEF ChunkSwitches
<1>12. ASSUME NEW t \in Turns, ChunkContinues(t) PROVE EnvelopeInv'
  BY <1>12, EnvelopeFrame DEF ChunkContinues
<1>13. ASSUME NEW t \in Turns, StreamEnds(t) PROVE EnvelopeInv'
  BY <1>13, EnvelopeFrame DEF StreamEnds
<1>14. ASSUME NEW t \in Turns, AgentRaises(t) PROVE EnvelopeInv'
  BY <1>14, EnvelopeFrame DEF AgentRaises, Answer, Return
<1>15. ASSUME NEW t \in Turns, CheckStatus(t) PROVE EnvelopeInv'
  BY <1>15, EnvelopeFrame DEF CheckStatus, Answer, Return
<1>16. ASSUME NEW t \in Turns, SaveReply(t) PROVE EnvelopeInv'
  <2>1. Started(t) /\ InFlight(t) /\ Settled(t)
    BY <1>16 DEF SaveReply, Started, InFlight, Settled
  <2>2. /\ envelope' = hist[t] /\ saved' \subseteq saved \cup {t}
        /\ pc'[t] \notin {"idle", "load"} /\ \A u \in Turns \ {t} : pc'[u] = pc[u]
    BY <1>16 DEF SaveReply
  <2> QED
    BY <2>1, <2>2, EnvelopeWrite DEF HistoryInv
<1>17. ASSUME NEW t \in Turns, MarkCompleted(t) PROVE EnvelopeInv'
  BY <1>17, EnvelopeFrame DEF MarkCompleted, Answer, Return
<1>18. ASSUME NEW t \in Turns, SavePartial(t) PROVE EnvelopeInv'
  <2> DEFINE h == Sanitize(hist[t])
  <2>1. Started(t) /\ InFlight(t)
    BY <1>18 DEF SavePartial, Started, InFlight
  <2>2. HistOK(hist[t], t) /\ HistOK(h, t) /\ NoDangling(h) /\ Grows(hist[t], h, t)
    BY <2>1, SanitizeHist DEF HistoryInv
  <2>3. Covers(envelope, h, t) /\ \A u \in Turns : pc[u] = "idle" => Absent(h, u)
    BY <2>1, <2>2, GrowsKeeps DEF HistoryInv, Started
  <2>4. /\ envelope' = h /\ saved' \subseteq saved \cup {t}
        /\ pc'[t] \notin {"idle", "load"} /\ \A u \in Turns \ {t} : pc'[u] = pc[u]
    BY <1>18 DEF SavePartial
  <2> HIDE DEF h
  <2> QED
    BY <2>1, <2>2, <2>3, <2>4, EnvelopeWrite
<1>19. ASSUME NEW t \in Turns, MarkInterrupted(t) PROVE EnvelopeInv'
  BY <1>19, EnvelopeFrame DEF MarkInterrupted, Answer, Return
<1>20. ASSUME NEW t \in Turns, AppendTerminal(t) PROVE EnvelopeInv'
  BY <1>20, EnvelopeFrame DEF AppendTerminal, Return
<1>21. ASSUME NEW t \in Turns, Crash(t) PROVE EnvelopeInv'
  BY <1>21, EnvelopeFrame DEF Crash, Return
<1>22. ASSUME NEW i \in Interrupts, InterruptRead(i) PROVE EnvelopeInv'
  BY <1>22, EnvelopeFrame DEF InterruptRead
<1>23. ASSUME NEW i \in Interrupts, InterruptWrite(i) PROVE EnvelopeInv'
  BY <1>23, EnvelopeFrame DEF InterruptWrite
<1>24. CASE UNCHANGED vars
  BY <1>24, EnvelopeFrame DEF vars
<1> QED
  BY <1>1, <1>2, <1>3, <1>4, <1>5, <1>6, <1>7, <1>8, <1>9, <1>10,
     <1>11, <1>12, <1>13, <1>14, <1>15, <1>16, <1>17, <1>18, <1>19,
     <1>20, <1>21, <1>22, <1>23, <1>24
  DEF Next, ServerStep, AgentStep

-----------------------------------------------------------------------------
(* Steps and histories.                                                    *)

\* A step that changes neither a history nor the envelope, and leaves the
\* middle of a tool call unsettled, keeps HistoryInv.
LEMMA HistoryFrame ==
  ASSUME HistoryInv, UNCHANGED <<hist, envelope, before>>,
         \A u \in Turns : /\ Started(u)' <=> Started(u)
                          /\ Settled(u)' => Settled(u)
                          /\ pc'[u] = "idle" => pc[u] = "idle"
  PROVE  HistoryInv'
<1> SUFFICES ASSUME NEW t \in Turns
             PROVE  IF Started(t)'
                    THEN /\ HistOK(hist[t], t)' /\ Covers(envelope, hist[t], t)'
                         /\ (before[t] \subseteq Users(hist[t]))'
                         /\ Settled(t)' => NoDangling(hist[t])'
                         /\ \A u \in Turns : pc'[u] = "idle" => Absent(hist[t], u)'
                    ELSE hist'[t] = << >>
  BY DEF HistoryInv
<1>1. CASE ~Started(t)
  BY <1>1 DEF HistoryInv
<1>2. CASE Started(t)
  <2>1. /\ HistOK(hist[t], t) /\ Covers(envelope, hist[t], t) /\ before[t] \subseteq Users(hist[t])
        /\ Settled(t) => NoDangling(hist[t])
        /\ \A u \in Turns : pc[u] = "idle" => Absent(hist[t], u)
    BY <1>2 DEF HistoryInv
  <2>2. HistOK(hist[t], t)' /\ Covers(envelope, hist[t], t)' /\ (before[t] \subseteq Users(hist[t]))'
    BY <2>1 DEF HistOK, TurnLast, OnlyLast, Dangling, Covers, Holds, Users
  <2>3. Settled(t)' => NoDangling(hist[t])'
    BY <2>1 DEF NoDangling, Dangling
  <2>4. \A u \in Turns : pc'[u] = "idle" => Absent(hist[t], u)'
    BY <2>1 DEF Absent
  <2> QED
    BY <1>2, <2>2, <2>3, <2>4
<1> QED
  BY <1>1, <1>2

\* A step that gives turn t the history h keeps HistoryInv when h is a good one.
LEMMA HistorySet ==
  ASSUME HistoryInv, TypeOK, NEW t \in Turns, NEW h,
         hist' = [hist EXCEPT ![t] = h], Started(t)',
         \A u \in Turns \ {t} : (Started(u)' <=> Started(u)) /\ ~Started(u),
         HistOK(h, t), Covers(envelope', h, t), before'[t] \subseteq Users(h),
         Settled(t)' => NoDangling(h),
         \A u \in Turns : pc'[u] = "idle" => Absent(h, u)
  PROVE  HistoryInv'
<1>1. hist'[t] = h /\ \A u \in Turns \ {t} : hist'[u] = hist[u]
  BY DEF TypeOK
<1>2. \A u \in Turns \ {t} : ~Started(u)' /\ hist'[u] = << >>
  BY <1>1 DEF HistoryInv
<1>3. /\ HistOK(hist[t], t)' /\ (before[t] \subseteq Users(hist[t]))'
      /\ Settled(t)' => NoDangling(hist[t])'
      /\ \A u \in Turns : pc'[u] = "idle" => Absent(hist[t], u)'
      /\ Covers(envelope, hist[t], t)'
  BY <1>1 DEF HistOK, TurnLast, OnlyLast, NoDangling, Dangling, Absent, Covers, Holds, Users
<1> QED
  BY <1>2, <1>3 DEF HistoryInv

\* A step that moves t only, with its history growing to h, keeps HistoryInv.
LEMMA HistoryGrows ==
  ASSUME HistoryInv, OneAtATime, TypeOK, NEW t \in Turns, Started(t), NEW h,
         hist' = [hist EXCEPT ![t] = h], HistOK(h, t), Grows(hist[t], h, t),
         \A u \in Turns \ {t} : pc'[u] = pc[u],
         Started(t)', pc'[t] # "idle", Settled(t)' => NoDangling(h),
         UNCHANGED before, envelope' = envelope \/ envelope' = h
  PROVE  HistoryInv'
<1>1. InFlight(t)
  BY DEF Started, InFlight
<1>2. \A u \in Turns \ {t} : (Started(u)' <=> Started(u)) /\ ~Started(u)
  BY <1>1, Alone DEF Started
<1>3. /\ Covers(envelope, h, t) /\ before[t] \subseteq Users(h)
      /\ \A u \in Turns : u # t /\ pc[u] = "idle" => Absent(h, u)
  BY GrowsKeeps DEF HistoryInv
<1>4. Covers(envelope', h, t)
  BY <1>3 DEF Covers, Holds
<1>5. \A u \in Turns : pc'[u] = "idle" => Absent(h, u)
  BY <1>3
<1> QED
  BY <1>2, <1>3, <1>4, <1>5, HistorySet

\* The end of a turn's coroutine takes its history away.
LEMMA HistoryEnds ==
  ASSUME HistoryInv, TypeOK, NEW t \in Turns, Return(t),
         UNCHANGED <<envelope, before, mode>>
  PROVE  HistoryInv'
<1>1. /\ hist'[t] = << >> /\ pc'[t] = "done"
      /\ \A u \in Turns \ {t} : hist'[u] = hist[u] /\ pc'[u] = pc[u]
  BY DEF Return, Goto, TypeOK
<1> SUFFICES ASSUME NEW u \in Turns, u # t
             PROVE  IF Started(u)'
                    THEN /\ HistOK(hist[u], u)' /\ Covers(envelope, hist[u], u)'
                         /\ (before[u] \subseteq Users(hist[u]))'
                         /\ Settled(u)' => NoDangling(hist[u])'
                         /\ \A v \in Turns : pc'[v] = "idle" => Absent(hist[u], v)'
                    ELSE hist'[u] = << >>
  BY <1>1 DEF HistoryInv, Started
<1>2. (Started(u)' <=> Started(u)) /\ (Settled(u)' <=> Settled(u))
  BY <1>1 DEF Started, Settled
<1>3. CASE ~Started(u)
  BY <1>1, <1>2, <1>3 DEF HistoryInv
<1>4. CASE Started(u)
  <2>1. /\ HistOK(hist[u], u) /\ Covers(envelope, hist[u], u) /\ before[u] \subseteq Users(hist[u])
        /\ Settled(u) => NoDangling(hist[u])
        /\ \A v \in Turns : pc[v] = "idle" => Absent(hist[u], v)
    BY <1>4 DEF HistoryInv
  <2>2. HistOK(hist[u], u)' /\ Covers(envelope, hist[u], u)' /\ (before[u] \subseteq Users(hist[u]))'
    BY <1>1, <2>1 DEF HistOK, TurnLast, OnlyLast, Dangling, Covers, Holds, Users
  <2>3. Settled(u)' => NoDangling(hist[u])'
    BY <1>1, <1>2, <2>1 DEF NoDangling, Dangling
  <2>4. \A v \in Turns : pc'[v] = "idle" => Absent(hist[u], v)'
    BY <1>1, <2>1 DEF Absent
  <2> QED
    BY <1>2, <1>4, <2>2, <2>3, <2>4
<1> QED
  BY <1>3, <1>4

\* The last word of a turn keeps HistoryInv, whether a frame is still to come
\* or not.
LEMMA HistoryAnswer ==
  ASSUME HistoryInv, TypeOK, NEW t \in Turns, Started(t), NEW o, Answer(t, o),
         UNCHANGED <<envelope, before, mode>>
  PROVE  HistoryInv'
<1>1. CASE detached[t] /\ Goto(t, "append") /\ UNCHANGED hist
  BY <1>1, HistoryFrame DEF Goto, Started, Settled, TypeOK
<1>2. CASE Return(t)
  BY <1>2, HistoryEnds
<1> QED
  BY <1>1, <1>2 DEF Answer

\* No step spoils a history.
LEMMA HistoryStep ==
  "auto" \notin Modes /\ TypeOK /\ SequentialInv /\ [Next]_vars => HistoryInv'
<1> SUFFICES ASSUME "auto" \notin Modes, TypeOK, OneAtATime, EnvelopeInv, HistoryInv,
                     [Next]_vars PROVE HistoryInv'
  BY DEF SequentialInv
<1> USE DEF TypeOK, turnVars, ghosts, Goto
<1>1. ASSUME NEW t \in Turns, Submit(t) PROVE HistoryInv'
  BY <1>1, HistoryFrame DEF Submit, Started, Settled
<1>2. ASSUME NEW t \in Turns, Load(t) PROVE HistoryInv'
  <2> DEFINE h == Append(envelope, Msg("user", t))
  <2>1. InFlight(t) /\ NoDangling(envelope) /\ Absent(envelope, t)
    BY <1>2 DEF Load, InFlight, EnvelopeInv
  <2>2. HistOK(h, t) /\ NoDangling(h) /\ Grows(envelope, h, t)
    BY <2>1, LoadHist DEF Absent
  <2>3. Covers(envelope', h, t) /\ before'[t] \subseteq Users(h)
    <3>1. Covers(envelope, envelope, t) /\ before'[t] \subseteq Users(envelope)
      BY <1>2 DEF Load, EnvelopeInv, Covers
    <3>2. Covers(envelope, h, t) /\ before'[t] \subseteq Users(h)
      BY <2>2, <3>1, GrowsKeeps
    <3> QED
      BY <1>2, <3>2 DEF Load, Covers, Holds
  <2>4. \A u \in Turns : pc'[u] = "idle" => Absent(h, u)
    <3> SUFFICES ASSUME NEW u \in Turns, pc'[u] = "idle" PROVE Absent(h, u)
      OBVIOUS
    <3>1. u # t /\ Absent(envelope, u)
      BY <1>2 DEF Load, EnvelopeInv
    <3> QED
      BY <2>2, <3>1, GrowsKeeps
  <2>5. \A u \in Turns \ {t} : (Started(u)' <=> Started(u)) /\ ~Started(u)
    BY <1>2, <2>1, Alone DEF Load, Started
  <2>6. Started(t)' /\ hist' = [hist EXCEPT ![t] = h]
    BY <1>2 DEF Load, Started
  <2> HIDE DEF h
  <2> QED
    BY <2>2, <2>3, <2>4, <2>5, <2>6, HistorySet
<1>3. ASSUME NEW t \in Turns, PersistInput(t) PROVE HistoryInv'
  <2>1. Started(t) /\ HistOK(hist[t], t)
    BY <1>3 DEF PersistInput, HistoryInv, Started
  <2>2. NoDangling(hist[t])
    BY <1>3, <2>1 DEF PersistInput, HistoryInv, Settled
  <2>3. hist' = [hist EXCEPT ![t] = hist[t]] /\ Grows(hist[t], hist[t], t)
    BY <1>3 DEF PersistInput, Grows
  <2> QED
    BY <1>3, <2>1, <2>2, <2>3, HistoryGrows DEF PersistInput, Started
<1>4. ASSUME NEW t \in Turns, MarkRunning(t) PROVE HistoryInv'
  BY <1>4, HistoryFrame DEF MarkRunning, Started, Settled
<1>5. ASSUME NEW t \in Turns, EnterBackground(t) PROVE HistoryInv'
  BY <1>5, HistoryFrame DEF EnterBackground, Started, Settled
<1>6. ASSUME NEW t \in Turns, Poll(t) PROVE HistoryInv'
  BY <1>6, HistoryFrame DEF Poll, Started, Settled
<1>7. ASSUME NEW t \in Turns, AgentReturns(t) PROVE HistoryInv'
  <2>1. Started(t) /\ HistOK(hist[t], t)
    BY <1>7 DEF AgentReturns, HistoryInv, Started
  <2>2. NoDangling(hist[t])
    BY <1>7, <2>1 DEF AgentReturns, HistoryInv, Settled
  <2>3. PICK h \in Returned(t) : hist' = [hist EXCEPT ![t] = h]
    BY <1>7 DEF AgentReturns
  <2>4. HistOK(h, t) /\ NoDangling(h) /\ Grows(hist[t], h, t)
    BY <2>1, <2>2, ReturnedHist
  <2> QED
    BY <1>7, <2>1, <2>3, <2>4, HistoryGrows DEF AgentReturns, Started
<1>8. ASSUME NEW t \in Turns, InterruptWins(t) PROVE HistoryInv'
  BY <1>8, HistoryFrame DEF InterruptWins, Started, Settled
<1>9. ASSUME NEW t \in Turns, ChunkInterrupted(t) PROVE HistoryInv'
  <2>1. Started(t) /\ HistOK(hist[t], t)
    BY <1>9 DEF ChunkInterrupted, HistoryInv, Started
  <2>2. PICK h \in NextStates(t) : hist' = [hist EXCEPT ![t] = h]
    BY <1>9 DEF ChunkInterrupted
  <2>3. HistOK(h, t) /\ Grows(hist[t], h, t)
    BY <2>1, ChunkHist
  <2> QED
    BY <1>9, <2>1, <2>2, <2>3, HistoryGrows DEF ChunkInterrupted, Started, Settled
<1>10. ASSUME NEW t \in Turns, ChunkFailed(t) PROVE HistoryInv'
  <2>1. Started(t) /\ HistOK(hist[t], t)
    BY <1>10 DEF ChunkFailed, HistoryInv, Started
  <2>2. /\ HistOK(Append(hist[t], Msg("text", t)), t)
        /\ Grows(hist[t], Append(hist[t], Msg("text", t)), t)
    BY <1>10, <2>1, FailedHist DEF ChunkFailed
  <2>3. hist' = [hist EXCEPT ![t] = Append(hist[t], Msg("text", t))]
    BY <1>10 DEF ChunkFailed
  <2> QED
    BY <1>10, <2>1, <2>2, <2>3, HistoryGrows DEF ChunkFailed, Started, Settled
<1>11. ASSUME NEW t \in Turns, ChunkSwitches(t) PROVE HistoryInv'
  BY <1>11 DEF ChunkSwitches
<1>12. ASSUME NEW t \in Turns, ChunkContinues(t) PROVE HistoryInv'
  <2>1. Started(t) /\ HistOK(hist[t], t)
    BY <1>12 DEF ChunkContinues, HistoryInv, Started
  <2>2. PICK h \in NextStates(t) : hist' = [hist EXCEPT ![t] = h]
    BY <1>12 DEF ChunkContinues
  <2>3. HistOK(h, t) /\ Grows(hist[t], h, t)
    BY <2>1, ChunkHist
  <2> QED
    BY <1>12, <2>1, <2>2, <2>3, HistoryGrows DEF ChunkContinues, Started, Settled
<1>13. ASSUME NEW t \in Turns, StreamEnds(t) PROVE HistoryInv'
  <2>1. Started(t) /\ HistOK(hist[t], t)
    BY <1>13 DEF StreamEnds, HistoryInv, Started
  <2>2. NoDangling(hist[t])
    BY <1>13, <2>1, LastDecides DEF StreamEnds, HistOK
  <2>3. hist' = [hist EXCEPT ![t] = hist[t]] /\ Grows(hist[t], hist[t], t)
    BY <1>13 DEF StreamEnds, Grows
  <2> QED
    BY <1>13, <2>1, <2>2, <2>3, HistoryGrows DEF StreamEnds, Started
<1>14. ASSUME NEW t \in Turns, AgentRaises(t) PROVE HistoryInv'
  <2>1. CASE UNCHANGED hist /\ Goto(t, "isave")
    BY <1>14, <2>1, HistoryFrame DEF AgentRaises, Started, Settled
  <2>2. CASE Answer(t, "raised")
    BY <1>14, <2>2, HistoryAnswer DEF AgentRaises, Started
  <2> QED
    BY <1>14, <2>1, <2>2 DEF AgentRaises
<1>15. ASSUME NEW t \in Turns, CheckStatus(t) PROVE HistoryInv'
  <2>1. CASE Goto(t, "save") /\ UNCHANGED hist
    BY <1>15, <2>1, HistoryFrame DEF CheckStatus, Started, Settled
  <2>2. CASE Answer(t, "stopped")
    BY <1>15, <2>2, HistoryAnswer DEF CheckStatus, Started
  <2> QED
    BY <1>15, <2>1, <2>2 DEF CheckStatus
<1>16. ASSUME NEW t \in Turns, SaveReply(t) PROVE HistoryInv'
  <2>1. Started(t) /\ HistOK(hist[t], t)
    BY <1>16 DEF SaveReply, HistoryInv, Started
  <2>2. NoDangling(hist[t])
    BY <1>16, <2>1 DEF SaveReply, HistoryInv, Settled
  <2>3. hist' = [hist EXCEPT ![t] = hist[t]] /\ Grows(hist[t], hist[t], t)
    BY <1>16 DEF SaveReply, Grows
  <2> QED
    BY <1>16, <2>1, <2>2, <2>3, HistoryGrows DEF SaveReply, Started
<1>17. ASSUME NEW t \in Turns, MarkCompleted(t) PROVE HistoryInv'
  BY <1>17, HistoryAnswer DEF MarkCompleted, Started
<1>18. ASSUME NEW t \in Turns, SavePartial(t) PROVE HistoryInv'
  <2>1. Started(t) /\ HistOK(hist[t], t)
    BY <1>18 DEF SavePartial, HistoryInv, Started
  <2>2. HistOK(Sanitize(hist[t]), t) /\ Grows(hist[t], Sanitize(hist[t]), t)
    BY <2>1, SanitizeHist
  <2>3. hist' = [hist EXCEPT ![t] = Sanitize(hist[t])]
    BY <1>18 DEF SavePartial
  <2> QED
    BY <1>18, <2>1, <2>2, <2>3, HistoryGrows DEF SavePartial, Started, Settled
<1>19. ASSUME NEW t \in Turns, MarkInterrupted(t) PROVE HistoryInv'
  BY <1>19, HistoryAnswer DEF MarkInterrupted, Started
<1>20. ASSUME NEW t \in Turns, AppendTerminal(t) PROVE HistoryInv'
  BY <1>20, HistoryEnds DEF AppendTerminal
<1>21. ASSUME NEW t \in Turns, Crash(t) PROVE HistoryInv'
  BY <1>21, HistoryEnds DEF Crash
<1>22. ASSUME NEW i \in Interrupts, InterruptRead(i) PROVE HistoryInv'
  BY <1>22, HistoryFrame DEF InterruptRead, Started, Settled
<1>23. ASSUME NEW i \in Interrupts, InterruptWrite(i) PROVE HistoryInv'
  BY <1>23, HistoryFrame DEF InterruptWrite, Started, Settled
<1>24. CASE UNCHANGED vars
  BY <1>24, HistoryFrame DEF vars, Started, Settled
<1> QED
  BY <1>1, <1>2, <1>3, <1>4, <1>5, <1>6, <1>7, <1>8, <1>9, <1>10,
     <1>11, <1>12, <1>13, <1>14, <1>15, <1>16, <1>17, <1>18, <1>19,
     <1>20, <1>21, <1>22, <1>23, <1>24
  DEF Next, ServerStep, AgentStep

-----------------------------------------------------------------------------
(* Steps and replies.                                                      *)

\* A step that leaves the envelope alone keeps RepliesInv if it reports no
\* turn as completed that has not saved its reply.
LEMMA RepliesFrame ==
  ASSUME RepliesInv, UNCHANGED envelope,
         \A u \in Turns :
           /\ pc'[u] \in {"check", "save", "complete"} =>
                pc[u] \in {"check", "save", "complete"} /\ hist'[u] = hist[u]
           /\ pc'[u] = "complete" => pc[u] = "complete"
           /\ outcome'[u] = "completed" => outcome[u] = "completed" \/ pc[u] = "complete"
           /\ bgStatus'[u] = "completed" => pc'[u] = "done" /\ outcome'[u] = "completed"
  PROVE  RepliesInv'
BY DEF RepliesInv, Holds

\* A step of t that writes its history, before it is completed, keeps
\* RepliesInv.
LEMMA RepliesWrite ==
  ASSUME OneAtATime, RepliesInv, CompletedIsLast, NEW t \in Turns, InFlight(t),
         pc[t] # "append", NEW h, Covers(envelope, h, t), envelope' = h,
         UNCHANGED <<outcome, bgStatus>>,
         \A u \in Turns \ {t} : pc'[u] = pc[u],
         pc'[t] \in {"mark", "complete", "icomplete"},
         hist'[t] = h, pc'[t] = "complete" => Holds(h, Msg("reply", t))
  PROVE  RepliesInv'
<1> SUFFICES ASSUME NEW u \in Turns
             PROVE  /\ pc'[u] \in {"check", "save", "complete"} => Holds(hist'[u], Msg("reply", u))
                    /\ pc'[u] = "complete" \/ outcome'[u] = "completed"
                         => Holds(envelope', Msg("reply", u))
                    /\ bgStatus'[u] = "completed" => pc'[u] = "done" /\ outcome'[u] = "completed"
  BY DEF RepliesInv, Holds
<1>1. CASE u = t
  BY <1>1 DEF RepliesInv, CompletedIsLast, InFlight
<1>2. CASE u # t
  <2>1. ~InFlight(u) /\ pc'[u] = pc[u] /\ pc[u] \in {"idle", "done"}
    BY <1>2, Alone DEF InFlight
  <2> QED
    BY <1>2, <2>1 DEF RepliesInv, Covers
<1> QED
  BY <1>1, <1>2

\* No step loses the reply of a completed turn.
LEMMA RepliesStep ==
  TypeOK /\ CompletedIsLast /\ SequentialInv /\ [Next]_vars => RepliesInv'
<1> SUFFICES ASSUME TypeOK, CompletedIsLast, OneAtATime, HistoryInv, RepliesInv,
                     [Next]_vars PROVE RepliesInv'
  BY DEF SequentialInv
<1> USE DEF TypeOK, turnVars, ghosts, Goto
<1>1. ASSUME NEW t \in Turns, Submit(t) PROVE RepliesInv'
  BY <1>1, RepliesFrame DEF Submit, RepliesInv
<1>2. ASSUME NEW t \in Turns, Load(t) PROVE RepliesInv'
  BY <1>2, RepliesFrame DEF Load, RepliesInv
<1>3. ASSUME NEW t \in Turns, PersistInput(t) PROVE RepliesInv'
  <2>1. Started(t) /\ InFlight(t) /\ Covers(envelope, hist[t], t)
    BY <1>3 DEF PersistInput, HistoryInv, Started, InFlight
  <2>2. pc'[t] = "complete" => Holds(hist[t], Msg("reply", t))
    BY <1>3 DEF PersistInput, RepliesInv
  <2> QED
    BY <1>3, <2>1, <2>2, RepliesWrite DEF PersistInput
<1>4. ASSUME NEW t \in Turns, MarkRunning(t) PROVE RepliesInv'
  BY <1>4, RepliesFrame DEF MarkRunning, RepliesInv
<1>5. ASSUME NEW t \in Turns, EnterBackground(t) PROVE RepliesInv'
  BY <1>5, RepliesFrame DEF EnterBackground, RepliesInv
<1>6. ASSUME NEW t \in Turns, Poll(t) PROVE RepliesInv'
  BY <1>6, RepliesFrame DEF Poll, RepliesInv
<1>7. ASSUME NEW t \in Turns, AgentReturns(t) PROVE RepliesInv'
  <2>1. Started(t) /\ HistOK(hist[t], t) /\ NoDangling(hist[t])
    BY <1>7 DEF AgentReturns, HistoryInv, Started, Settled
  <2>2. PICK h \in Returned(t) : hist' = [hist EXCEPT ![t] = h]
    BY <1>7 DEF AgentReturns
  <2>3. Holds(hist'[t], Msg("reply", t))
    BY <2>1, <2>2, ReturnedHist
  <2> QED
    BY <1>7, <2>2, <2>3 DEF AgentReturns, RepliesInv, Holds
<1>8. ASSUME NEW t \in Turns, InterruptWins(t) PROVE RepliesInv'
  BY <1>8, RepliesFrame DEF InterruptWins, RepliesInv
<1>9. ASSUME NEW t \in Turns, ChunkInterrupted(t) PROVE RepliesInv'
  BY <1>9, RepliesFrame DEF ChunkInterrupted, RepliesInv
<1>10. ASSUME NEW t \in Turns, ChunkFailed(t) PROVE RepliesInv'
  BY <1>10, RepliesFrame DEF ChunkFailed, RepliesInv
<1>11. ASSUME NEW t \in Turns, ChunkSwitches(t) PROVE RepliesInv'
  BY <1>11, RepliesFrame DEF ChunkSwitches, RepliesInv
<1>12. ASSUME NEW t \in Turns, ChunkContinues(t) PROVE RepliesInv'
  BY <1>12, RepliesFrame DEF ChunkContinues, RepliesInv
<1>13. ASSUME NEW t \in Turns, StreamEnds(t) PROVE RepliesInv'
  <2>1. Started(t) /\ HistOK(hist[t], t)
    BY <1>13 DEF StreamEnds, HistoryInv, Started
  <2>2. Len(hist[t]) \in DOMAIN hist[t] /\ hist[t][Len(hist[t])] = Msg("reply", t)
    <3>1. hist[t][Len(hist[t])] \in Message /\ Len(hist[t]) \in DOMAIN hist[t]
      BY <2>1, LastIsOwn DEF HistOK, History
    <3> QED
      BY <1>13, <2>1, <3>1, LastIsOwn DEF StreamEnds, LastKind, Msg, Message
  <2>3. Holds(hist[t], Msg("reply", t))
    BY <2>2 DEF Holds
  <2> QED
    BY <1>13, <2>3 DEF StreamEnds, RepliesInv, Holds
<1>14. ASSUME NEW t \in Turns, AgentRaises(t) PROVE RepliesInv'
  BY <1>14, RepliesFrame DEF AgentRaises, Answer, Return, RepliesInv
<1>15. ASSUME NEW t \in Turns, CheckStatus(t) PROVE RepliesInv'
  BY <1>15, RepliesFrame DEF CheckStatus, Answer, Return, RepliesInv
<1>16. ASSUME NEW t \in Turns, SaveReply(t) PROVE RepliesInv'
  <2>1. Started(t) /\ InFlight(t) /\ Covers(envelope, hist[t], t)
    BY <1>16 DEF SaveReply, HistoryInv, Started, InFlight
  <2>2. pc'[t] = "complete" => Holds(hist[t], Msg("reply", t))
    BY <1>16 DEF SaveReply, RepliesInv
  <2> QED
    BY <1>16, <2>1, <2>2, RepliesWrite DEF SaveReply
<1>17. ASSUME NEW t \in Turns, MarkCompleted(t) PROVE RepliesInv'
  BY <1>17, RepliesFrame DEF MarkCompleted, Answer, Return, RepliesInv
<1>18. ASSUME NEW t \in Turns, SavePartial(t) PROVE RepliesInv'
  <2>1. Started(t) /\ InFlight(t) /\ HistOK(hist[t], t) /\ Covers(envelope, hist[t], t)
    BY <1>18 DEF SavePartial, HistoryInv, Started, InFlight
  <2>2. Covers(envelope, Sanitize(hist[t]), t)
    BY <2>1, SanitizeHist, GrowsKeeps
  <2> QED
    BY <1>18, <2>1, <2>2, RepliesWrite DEF SavePartial
<1>19. ASSUME NEW t \in Turns, MarkInterrupted(t) PROVE RepliesInv'
  BY <1>19, RepliesFrame DEF MarkInterrupted, Answer, Return, RepliesInv
<1>20. ASSUME NEW t \in Turns, AppendTerminal(t) PROVE RepliesInv'
  BY <1>20, RepliesFrame DEF AppendTerminal, Return, RepliesInv, Terminal
<1>21. ASSUME NEW t \in Turns, Crash(t) PROVE RepliesInv'
  BY <1>21, RepliesFrame DEF Crash, InFlight, Return, RepliesInv
<1>22. ASSUME NEW i \in Interrupts, InterruptRead(i) PROVE RepliesInv'
  BY <1>22, RepliesFrame DEF InterruptRead, RepliesInv
<1>23. ASSUME NEW i \in Interrupts, InterruptWrite(i) PROVE RepliesInv'
  BY <1>23, RepliesFrame DEF InterruptWrite, RepliesInv
<1>24. CASE UNCHANGED vars
  BY <1>24, RepliesFrame DEF vars, RepliesInv
<1> QED
  BY <1>1, <1>2, <1>3, <1>4, <1>5, <1>6, <1>7, <1>8, <1>9, <1>10,
     <1>11, <1>12, <1>13, <1>14, <1>15, <1>16, <1>17, <1>18, <1>19,
     <1>20, <1>21, <1>22, <1>23, <1>24
  DEF Next, ServerStep, AgentStep

-----------------------------------------------------------------------------
(* Theorems.                                                               *)

\* SequentialInv is an invariant when clients take turns.
LEMMA SequentialCorrect ==
  ASSUME ~Overlap, "auto" \notin Modes
  PROVE  Spec => [](TypeOK /\ RevokedInv /\ SequentialInv)
<1>1. Init => RevokedInv /\ SequentialInv
  <2> SUFFICES ASSUME Init PROVE RevokedInv /\ SequentialInv
    OBVIOUS
  <2>1. RevokedInv
    BY DEF Init, RevokedInv, CompletedIsLast, Committed, Pending
  <2>2. DOMAIN << >> = {}
    OBVIOUS
  <2>3. OneAtATime /\ HistoryInv /\ RepliesInv
    BY DEF Init, OneAtATime, InFlight, HistoryInv, Started, RepliesInv
  <2>4. EnvelopeInv
    BY <2>2 DEF Init, EnvelopeInv, NoDangling, Absent
  <2> QED
    BY <2>1, <2>3, <2>4 DEF SequentialInv
<1>2. TypeOK /\ RevokedInv /\ SequentialInv /\ [Next]_vars => SequentialInv'
  <2> SUFFICES ASSUME TypeOK, RevokedInv, SequentialInv, [Next]_vars PROVE SequentialInv'
    OBVIOUS
  <2>1. CompletedIsLast /\ OneAtATime
    BY DEF RevokedInv, SequentialInv
  <2> QED
    BY <2>1, OneStep, EnvelopeStep, HistoryStep, RepliesStep DEF SequentialInv
<1> QED
  BY <1>1, <1>2, TypeCorrect, RevokedStep, PTL DEF Spec

\* A reply that was reported as completed stays in the session envelope
\* (_finalize_execution, _finalize_interrupted_execution).
THEOREM RepliesKept ==
  ASSUME ~Overlap, "auto" \notin Modes
  PROVE  Spec => []AcknowledgedKept
<1>1. SequentialInv => AcknowledgedKept
  BY DEF SequentialInv, RepliesInv, AcknowledgedKept
<1> QED
  BY <1>1, SequentialCorrect, PTL

\* When /message says "completed", the reply is in the envelope
\* (_drain_background).
THEOREM CompletedMeansStored ==
  ASSUME ~Overlap, "auto" \notin Modes
  PROVE  Spec => []TerminalAfterPersist
<1>1. SequentialInv => TerminalAfterPersist
  BY DEF SequentialInv, RepliesInv, TerminalAfterPersist
<1> QED
  BY <1>1, SequentialCorrect, PTL

\* A turn runs on a history with every input persisted before it was loaded
\* (_persist_input_and_set_running).
THEOREM LaterTurnsSeeInput ==
  ASSUME ~Overlap, "auto" \notin Modes
  PROVE  Spec => []SubsequentSeesInput
<1>1. SequentialInv => SubsequentSeesInput
  <2> SUFFICES ASSUME SequentialInv, NEW t \in Turns, Len(hist[t]) > 0
               PROVE  before[t] \subseteq Users(hist[t])
    BY DEF SubsequentSeesInput
  <2>1. hist[t] # << >>
    OBVIOUS
  <2> QED
    BY <2>1 DEF SequentialInv, HistoryInv
<1> QED
  BY <1>1, SequentialCorrect, PTL

\* No handler removes a user message from the envelope
\* (_sanitize_interrupted_state and every write of the envelope).
THEOREM InputsStay ==
  ASSUME ~Overlap, "auto" \notin Modes
  PROVE  Spec => InputsNeverRemoved
<1>1. TypeOK /\ SequentialInv /\ [Next]_vars => [Users(envelope) \subseteq Users(envelope')]_vars
  <2> SUFFICES ASSUME TypeOK, OneAtATime, HistoryInv, Next
               PROVE  Users(envelope) \subseteq Users(envelope')
    BY DEF SequentialInv
  <2>1. CASE UNCHANGED envelope
    BY <2>1
  <2>2. ASSUME NEW t \in Turns, PersistInput(t) \/ SaveReply(t)
        PROVE  Users(envelope) \subseteq Users(envelope')
    <3>1. Covers(envelope, hist[t], t) /\ envelope' = hist[t]
      BY <2>2 DEF PersistInput, SaveReply, HistoryInv, Started
    <3> QED
      BY <3>1 DEF Covers, Users
  <2>3. ASSUME NEW t \in Turns, SavePartial(t)
        PROVE  Users(envelope) \subseteq Users(envelope')
    <3>1. HistOK(hist[t], t) /\ Covers(envelope, hist[t], t) /\ envelope' = Sanitize(hist[t])
      BY <2>3 DEF SavePartial, HistoryInv, Started
    <3>2. Covers(envelope, Sanitize(hist[t]), t)
      BY <3>1, SanitizeHist, GrowsKeeps
    <3> QED
      BY <3>1, <3>2 DEF Covers, Users
  <2>4. \/ UNCHANGED envelope
        \/ \E t \in Turns : PersistInput(t) \/ SaveReply(t) \/ SavePartial(t)
    BY DEF Next, ServerStep, AgentStep, Submit, Load, MarkRunning, EnterBackground,
       Poll, AgentReturns, InterruptWins, ChunkInterrupted, ChunkFailed,
       ChunkSwitches, ChunkContinues, StreamEnds, AgentRaises, CheckStatus,
       MarkCompleted, MarkInterrupted, AppendTerminal, Crash, InterruptRead,
       InterruptWrite, turnVars
  <2> QED
    BY <2>1, <2>2, <2>3, <2>4
<1> QED
  BY <1>1, SequentialCorrect, PTL DEF Spec, InputsNeverRemoved
-----------------------------------------------------------------------------
(* THE ENVELOPE, WHOEVER OVERLAPS.                                         *)

-----------------------------------------------------------------------------
(* Histories.  D is who has moved to the background.                       *)

Once(h) ==
  \A i, j \in DOMAIN h : h[i] = h[j] /\ h[i].kind \in {"user", "reply"} => i = j

Opened(h) == \A i \in DOMAIN h : \E j \in 1..i : h[j] = Msg("user", h[i].turn)

Together(h) ==
  \A i, j, k \in DOMAIN h : i < j /\ j < k /\ h[i].turn = h[k].turn => h[j].turn = h[i].turn

Shape(h) == h \in History /\ Once(h) /\ Opened(h) /\ Together(h)

\* Who has a call without a result has moved to the background...
Closed(h, D) == \A i \in DOMAIN h : Dangling(h, i) => D[h[i].turn]

\* ... or is t, and the call is the last message.
Open(h, t, D) == \A i \in DOMAIN h : Dangling(h, i) => D[h[i].turn] \/ i = Len(h)

\* The last message is t's, and its reply comes last.
Own(h, t) ==
  /\ Len(h) # 0 /\ h[Len(h)].turn = t
  /\ \A i \in DOMAIN h : h[i] = Msg("reply", t) => i = Len(h)

Names(h, t) == \E i \in DOMAIN h : h[i].turn = t

LEMMA HistoryDomain ==
  ASSUME NEW h \in History
  PROVE  /\ Len(h) \in Nat /\ DOMAIN h = 1..Len(h)
         /\ \A i \in DOMAIN h : h[i] \in Message
BY DEF History

\* Appending the next message of the turn.
LEMMA AppendOwn ==
  ASSUME NEW t \in Turns, NEW D, NEW h, Shape(h), Own(h, t), Open(h, t, D),
         LastKind(h) # "reply",
         NEW k \in Kinds \ {"user"}, LastKind(h) = "call" => k = "result"
  PROVE  LET g == Append(h, Msg(k, t))
         IN  /\ Shape(g) /\ Own(g, t) /\ Open(g, t, D) /\ LastKind(g) = k
             /\ \A u \in Turns : Names(g, u) => Names(h, u)
<1> DEFINE m == Msg(k, t)
           g == Append(h, m)
           n == Len(h)
<1>1. h \in History /\ n \in Nat /\ n # 0 /\ DOMAIN h = 1..n /\ h[n].turn = t
  BY HistoryDomain DEF Shape, Own
<1>2. m \in Message /\ m.kind = k /\ m.turn = t
  BY MsgIsMessage DEF Msg
<1>3. /\ g \in History /\ DOMAIN g = 1..(n + 1) /\ Len(g) = n + 1
      /\ \A i \in 1..n : g[i] = h[i]
      /\ g[n + 1] = m
  BY <1>1, <1>2, AppendIndex
<1> HIDE DEF g, n, m
<1>4. \A i \in 1..n : h[i] # Msg("reply", t)
  BY <1>1 DEF Own, LastKind, Msg, n
<1>5. Once(g)
  <2> SUFFICES ASSUME NEW i \in 1..(n + 1), NEW j \in 1..(n + 1), g[i] = g[j],
                      g[i].kind \in {"user", "reply"}
               PROVE  i = j
    BY <1>3 DEF Once
  <2>1. CASE i \in 1..n /\ j \in 1..n
    BY <1>1, <1>3, <2>1 DEF Shape, Once
  <2>2. \A l \in 1..n : g[l] # m \/ m.kind \notin {"user", "reply"}
    BY <1>2, <1>3, <1>4 DEF m, Msg
  <2>3. CASE i = n + 1 /\ j \in 1..n
    BY <1>3, <2>2, <2>3
  <2>4. CASE j = n + 1 /\ i \in 1..n
    BY <1>3, <2>2, <2>4
  <2> QED BY <1>1, <2>1, <2>3, <2>4
<1>6. Opened(g)
  <2>1. \A i \in 1..n : \E j \in 1..i : h[j] = Msg("user", h[i].turn)
    BY <1>1 DEF Shape, Opened
  <2>2. \A i \in 1..n : \E j \in 1..i : g[j] = Msg("user", g[i].turn)
    <3> TAKE i \in 1..n
    <3>1. PICK j \in 1..i : h[j] = Msg("user", h[i].turn)
      BY <2>1
    <3> QED BY <1>1, <1>3, <3>1
  <2>3. PICK j \in 1..n : h[j] = Msg("user", t)
    BY <1>1, <2>1
  <2>4. \E l \in 1..(n + 1) : g[l] = Msg("user", g[n + 1].turn)
    BY <1>1, <1>2, <1>3, <2>3
  <2>5. \A i \in 1..(n + 1) : i \in 1..n \/ i = n + 1
    BY <1>1
  <2> QED BY <1>3, <2>2, <2>4, <2>5 DEF Opened
<1>7. Together(g)
  <2> SUFFICES ASSUME NEW i \in 1..(n + 1), NEW j \in 1..(n + 1), NEW l \in 1..(n + 1),
                      i < j, j < l, g[i].turn = g[l].turn
               PROVE  g[j].turn = g[i].turn
    BY <1>3 DEF Together
  <2>1. i \in 1..n /\ j \in 1..n /\ g[i] = h[i] /\ g[j] = h[j]
    BY <1>1, <1>3
  <2>2. CASE l \in 1..n
    BY <1>1, <1>3, <2>1, <2>2 DEF Shape, Together
  <2>3. CASE l = n + 1
    <3>1. h[i].turn = h[n].turn /\ n \in DOMAIN h
      BY <1>1, <1>2, <1>3, <2>1, <2>3
    <3>2. j = n \/ j < n
      BY <1>1, <2>1
    <3> QED BY <1>1, <2>1, <3>1, <3>2 DEF Shape, Together
  <2> QED BY <1>1, <2>2, <2>3
<1>8. Own(g, t)
  BY <1>1, <1>2, <1>3, <1>4 DEF Own
<1>9. Open(g, t, D)
  <2> SUFFICES ASSUME NEW i \in 1..n, Dangling(g, i) PROVE D[g[i].turn]
    BY <1>1, <1>3 DEF Open
  <2>1. Dangling(h, i)
    BY <1>1, <1>3 DEF Dangling
  <2>2. CASE i = n
    <3>1. LastKind(h) = "call"
      BY <2>1, <2>2 DEF Dangling, LastKind, n
    <3>2. g[n + 1] = Msg("result", g[i].turn)
      BY <1>1, <1>3, <2>2, <3>1 DEF m
    <3> QED BY <1>1, <1>3, <2>2, <3>2 DEF Dangling
  <2> QED BY <1>1, <1>3, <2>1, <2>2 DEF Open, n
<1>10. LastKind(g) = k
  BY <1>2, <1>3 DEF LastKind
<1>11. \A u \in Turns : Names(g, u) => Names(h, u)
  BY <1>1, <1>2, <1>3 DEF Names
<1> QED BY <1>3, <1>5, <1>6, <1>7, <1>8, <1>9, <1>10, <1>11 DEF Shape, g, m

\* Loading: the user message after an envelope that does not know the turn.
LEMMA LoadOwn ==
  ASSUME NEW t \in Turns, NEW D, NEW h, Shape(h), Closed(h, D), ~Names(h, t)
  PROVE  LET g == Append(h, Msg("user", t))
         IN  /\ Shape(g) /\ Own(g, t) /\ Open(g, t, D) /\ LastKind(g) = "user"
             /\ \A u \in Turns : Names(g, u) => Names(h, u) \/ u = t
<1> DEFINE m == Msg("user", t)
           g == Append(h, m)
           n == Len(h)
<1>1. h \in History /\ n \in Nat /\ DOMAIN h = 1..n /\ \A i \in 1..n : h[i].turn # t
  BY HistoryDomain DEF Shape, Names
<1>2. m \in Message /\ m.kind = "user" /\ m.turn = t
  BY MsgIsMessage DEF Msg, Kinds
<1>3. /\ g \in History /\ DOMAIN g = 1..(n + 1) /\ Len(g) = n + 1
      /\ \A i \in 1..n : g[i] = h[i]
      /\ g[n + 1] = m
  BY <1>1, <1>2, AppendIndex
<1> HIDE DEF g, n, m
<1>4. Once(g)
  <2> SUFFICES ASSUME NEW i \in 1..(n + 1), NEW j \in 1..(n + 1), g[i] = g[j],
                      g[i].kind \in {"user", "reply"}
               PROVE  i = j
    BY <1>3 DEF Once
  <2>1. CASE i \in 1..n /\ j \in 1..n
    BY <1>1, <1>3, <2>1 DEF Shape, Once
  <2>2. \A l \in 1..n : g[l] # m
    BY <1>1, <1>2, <1>3
  <2> QED BY <1>1, <1>3, <2>1, <2>2
<1>5. Opened(g)
  <2>1. \A i \in 1..n : \E j \in 1..i : g[j] = Msg("user", g[i].turn)
    <3> TAKE i \in 1..n
    <3>1. PICK j \in 1..i : h[j] = Msg("user", h[i].turn)
      BY <1>1 DEF Shape, Opened
    <3> QED BY <1>1, <1>3, <3>1
  <2>2. n + 1 \in 1..(n + 1) /\ g[n + 1] = Msg("user", g[n + 1].turn)
    BY <1>1, <1>2, <1>3 DEF m
  <2> QED BY <1>1, <1>3, <2>1, <2>2 DEF Opened
<1>6. Together(g)
  BY <1>1, <1>2, <1>3 DEF Shape, Together
<1>7. Own(g, t)
  BY <1>1, <1>2, <1>3 DEF Own, Msg
<1>8. Open(g, t, D)
  BY <1>1, <1>3 DEF Open, Closed, Dangling
<1>9. LastKind(g) = "user" /\ \A u \in Turns : Names(g, u) => Names(h, u) \/ u = t
  BY <1>1, <1>2, <1>3 DEF LastKind, Names
<1> QED BY <1>3, <1>4, <1>5, <1>6, <1>7, <1>8, <1>9 DEF Shape, g, m

\* A history that is written back as it is.
LEMMA OpenCloses ==
  ASSUME NEW t \in Turns, NEW D, NEW h, Shape(h), Own(h, t), Open(h, t, D),
         LastKind(h) # "call" \/ D[t]
  PROVE  Closed(h, D)
BY DEF Open, Closed, Own, Dangling, LastKind

\* Sanitizing: a cut takes nothing off that answers what it leaves.
LEMMA SanitizeOwn ==
  ASSUME NEW t \in Turns, NEW D, NEW h, Shape(h), Own(h, t), Open(h, t, D)
  PROVE  /\ Shape(Sanitize(h)) /\ Closed(Sanitize(h), D)
         /\ \A u \in Turns : Names(Sanitize(h), u) => Names(h, u)
<1> DEFINE last == {i \in DOMAIN h : /\ h[i].kind = "call"
                                     /\ \A j \in DOMAIN h : j > i => h[j].kind # "call"}
           bad  == {i \in last : Dangling(h, i)}
           n == Len(h)
<1>1. h \in History /\ n \in Nat /\ n # 0 /\ DOMAIN h = 1..n
  BY HistoryDomain DEF Shape, Own
<1>2. CASE bad = {}
  <2>1. Sanitize(h) = h
    BY <1>2 DEF Sanitize
  <2>2. ~Dangling(h, n)
    BY <1>1, <1>2 DEF Dangling
  <2>3. Closed(h, D)
    BY <2>2 DEF Open, Closed
  <2> QED BY <2>1, <2>3
<1>3. ASSUME bad # {} PROVE /\ Shape(Sanitize(h)) /\ Closed(Sanitize(h), D)
                           /\ \A u \in Turns : Names(Sanitize(h), u) => Names(h, u)
  <2> DEFINE k == CHOOSE i \in bad : TRUE
             m == Msg("text", h[k].turn)
             f == SubSeq(h, 1, k - 1)
             g == Append(f, m)
  <2>1. /\ k \in 1..n /\ k \in Nat /\ Dangling(h, k)
        /\ h[k] \in Message /\ h[k].kind = "call"
    <3>1. k \in bad
      BY <1>3
    <3> QED BY <1>1, <3>1, HistoryDomain
  <2>2. Sanitize(h) = g
    BY <1>3 DEF Sanitize
  <2> HIDE DEF k
  <2>3. m \in Message /\ m.kind = "text" /\ m.turn = h[k].turn
    BY <2>1, MsgIsMessage DEF Msg, Message, Kinds
  <2>4. /\ f \in History /\ Len(f) = k - 1 /\ \A i \in 1..(k - 1) : f[i] = h[i]
    <3>1. h \in Seq(Message) /\ 1 \in 1..Len(h) + 1 /\ k - 1 \in (1 - 1)..Len(h)
      BY <1>1, <2>1 DEF History
    <3>2. /\ f \in Seq(Message)
          /\ Len(f) = IF 1 <= k - 1 THEN (k - 1) - 1 + 1 ELSE 0
          /\ \A i \in 1..((k - 1) - 1 + 1) : f[i] = h[1 + i - 1]
      BY <3>1, SubSeqProperties
    <3>3. (k - 1) - 1 + 1 = k - 1 /\ \A i \in 1..(k - 1) : 1 + i - 1 = i
      BY <2>1
    <3>4. (IF 1 <= k - 1 THEN (k - 1) - 1 + 1 ELSE 0) = k - 1
      BY <2>1
    <3> QED BY <3>2, <3>3, <3>4 DEF History
  <2>5. /\ g \in History /\ DOMAIN g = 1..k
        /\ \A i \in 1..(k - 1) : g[i] = h[i]
        /\ g[k] = m
    <3> HIDE DEF f, m
    <3>1. Len(f) + 1 = k
      BY <2>1, <2>4
    <3>2. /\ g \in History /\ DOMAIN g = 1..(Len(f) + 1) /\ g[Len(f) + 1] = m
          /\ \A i \in 1..Len(f) : g[i] = f[i]
      BY <2>3, <2>4, AppendIndex
    <3> HIDE DEF g
    <3> QED BY <2>4, <3>1, <3>2
  <2> HIDE DEF g, m, f
  <2>6. \A i \in 1..k : i \in 1..n /\ g[i].turn = h[i].turn /\ (i \in 1..(k - 1) \/ i = k)
    BY <1>1, <2>1, <2>3, <2>5
  <2>7. Once(g)
    <3> SUFFICES ASSUME NEW i \in 1..k, NEW j \in 1..k, g[i] = g[j],
                        g[i].kind \in {"user", "reply"}
                 PROVE  i = j
      BY <2>5 DEF Once
    <3>1. i # k /\ j # k
      BY <2>3, <2>5
    <3>2. h[i] = h[j] /\ h[i].kind \in {"user", "reply"}
      BY <2>5, <2>6, <3>1
    <3> QED BY <1>1, <2>6, <3>2 DEF Shape, Once
  <2>8. Opened(g)
    <3> SUFFICES ASSUME NEW i \in 1..k PROVE \E j \in 1..i : g[j] = Msg("user", g[i].turn)
      BY <2>5 DEF Opened
    <3>1. PICK j \in 1..i : h[j] = Msg("user", h[i].turn)
      BY <1>1, <2>6 DEF Shape, Opened
    <3>2. j # k
      BY <2>1, <3>1 DEF Msg
    <3> QED BY <2>1, <2>5, <2>6, <3>1, <3>2
  <2>9. Together(g)
    BY <1>1, <2>5, <2>6 DEF Shape, Together
  <2>10. Closed(g, D)
    <3> SUFFICES ASSUME NEW i \in 1..k, Dangling(g, i) PROVE D[g[i].turn]
      BY <2>5 DEF Closed
    <3>1. i # k /\ i < k /\ g[i] = h[i] /\ h[i].kind = "call"
      BY <2>1, <2>3, <2>5, <2>6 DEF Dangling
    <3>2. Dangling(h, i)
      <4> SUFFICES ASSUME NEW j \in 1..n, j > i, h[j] = Msg("result", h[i].turn) PROVE FALSE
        BY <1>1, <2>6, <3>1 DEF Dangling
      <4>1. j # k
        BY <2>1 DEF Msg
      <4>2. CASE j < k
        BY <2>1, <2>5, <2>6, <3>1, <4>2 DEF Dangling
      <4>3. CASE j > k
        <5>1. h[k].turn = h[i].turn
          BY <1>1, <2>1, <2>6, <3>1, <4>3 DEF Shape, Together, Msg
        <5> QED BY <1>1, <2>1, <4>3, <5>1 DEF Dangling
      <4> QED BY <2>1, <4>1, <4>2, <4>3
    <3>3. i # Len(h) /\ i \in DOMAIN h
      BY <1>1, <2>1, <2>6, <3>1
    <3> QED BY <3>1, <3>2, <3>3 DEF Open
  <2>11. \A u \in Turns : Names(g, u) => Names(h, u)
    BY <1>1, <2>5, <2>6 DEF Names
  <2> QED BY <2>2, <2>5, <2>7, <2>8, <2>9, <2>10, <2>11 DEF Shape
<1> QED BY <1>2, <1>3

-----------------------------------------------------------------------------
(* The invariant.                                                          *)

\* Positions from which a turn may yet write its history to the envelope.
Acting == {"persist", "mark", "bgmeta", "run", "check", "save", "isave"}

\* Turn t at position p, sent in mode m, with history h.
TurnShape(p, m, h, D, t) ==
  /\ p \in Acting => Shape(h) /\ Own(h, t) /\ Open(h, t, D)
  /\ p \in {"idle", "load"} => ~D[t]
  /\ p \in {"persist", "mark"} /\ ~D[t] => LastKind(h) = "user"
  /\ m = "sync" => ~D[t] /\ p # "bgmeta" /\ (p = "run" => LastKind(h) = "user")
  /\ p \in {"check", "save"} => LastKind(h) = "reply"

\* Nobody knows of a turn that has not loaded the envelope.
WellFormedInv ==
  /\ Shape(envelope) /\ Closed(envelope, detached)
  /\ \A t \in Turns : TurnShape(pc[t], mode[t], hist[t], detached, t)
  /\ \A t \in Turns : pc[t] \in {"idle", "load"} =>
       ~Names(envelope, t) /\ \A u \in Turns : ~Names(hist[u], t)

\* Nothing is spoilt when a turn moves to the background.
LEMMA MoreDetached ==
  ASSUME NEW D, NEW E, \A u \in Turns : D[u] => E[u]
  PROVE  /\ \A h : Shape(h) /\ Closed(h, D) => Closed(h, E)
         /\ \A h, t : Shape(h) /\ Open(h, t, D) => Open(h, t, E)
<1> SUFFICES ASSUME NEW h, Shape(h), NEW i \in DOMAIN h, D[h[i].turn] PROVE E[h[i].turn]
  BY DEF Closed, Open
<1>1. h[i].turn \in Turns
  BY HistoryDomain DEF Shape, Message
<1> QED BY <1>1

\* A step of turn t, which gives it the history h and leaves the envelope e.
LEMMA WellFormedStep ==
  ASSUME WellFormedInv, NEW t \in Turns, NEW h, NEW e,
         Shape(e), Closed(e, detached'), envelope' = e, hist'[t] = h,
         TurnShape(pc'[t], mode'[t], h, detached', t), pc'[t] \notin {"idle", "load"},
         \A u \in Turns \ {t} : /\ pc'[u] = pc[u] /\ mode'[u] = mode[u]
                                /\ hist'[u] = hist[u] /\ detached'[u] = detached[u],
         detached[t] => detached'[t],
         \A u \in Turns \ {t} : Names(e, u) \/ Names(h, u) => Names(envelope, u) \/ Names(hist[t], u)
  PROVE  WellFormedInv'
<1>1. \A u \in Turns : detached[u] => detached'[u]
  OBVIOUS
<1>2. \A u \in Turns : TurnShape(pc'[u], mode'[u], hist'[u], detached', u)
  <2> SUFFICES ASSUME NEW u \in Turns, u # t
               PROVE  TurnShape(pc'[u], mode'[u], hist'[u], detached', u)
    OBVIOUS
  <2>1. /\ TurnShape(pc[u], mode[u], hist[u], detached, u)
        /\ pc'[u] = pc[u] /\ mode'[u] = mode[u] /\ hist'[u] = hist[u] /\ detached'[u] = detached[u]
    BY DEF WellFormedInv
  <2>2. Shape(hist[u]) /\ Open(hist[u], u, detached) => Open(hist[u], u, detached')
    BY <1>1, MoreDetached
  <2> QED BY <2>1, <2>2 DEF TurnShape
<1>3. \A u \in Turns : pc'[u] \in {"idle", "load"} =>
        ~Names(envelope', u) /\ \A v \in Turns : ~Names(hist'[v], u)
  <2> SUFFICES ASSUME NEW u \in Turns, pc'[u] \in {"idle", "load"}
               PROVE  ~Names(e, u) /\ \A v \in Turns : ~Names(hist'[v], u)
    OBVIOUS
  <2>1. u # t /\ pc[u] \in {"idle", "load"}
    OBVIOUS
  <2>2. ~Names(envelope, u) /\ \A v \in Turns : ~Names(hist[v], u)
    BY <2>1 DEF WellFormedInv
  <2>3. ~Names(e, u) /\ ~Names(h, u)
    BY <2>1, <2>2
  <2> QED BY <2>2, <2>3
<1>4. Shape(envelope') /\ Closed(envelope', detached')
  OBVIOUS
<1> QED BY <1>2, <1>3, <1>4 DEF WellFormedInv

\* A step of t that leaves the envelope as it is.
LEMMA HistoryChanges ==
  ASSUME TypeOK, WellFormedInv, NEW t \in Turns, NEW h, NEW p,
         UNCHANGED <<envelope, detached, mode>>,
         Goto(t, p), hist' = [hist EXCEPT ![t] = h],
         p \notin {"idle", "load"}, TurnShape(p, mode[t], h, detached, t),
         \A u \in Turns \ {t} : Names(h, u) => Names(envelope, u) \/ Names(hist[t], u)
  PROVE  WellFormedInv'
<1>1. /\ pc'[t] = p /\ hist'[t] = h
      /\ \A u \in Turns \ {t} : /\ pc'[u] = pc[u] /\ mode'[u] = mode[u]
                                /\ hist'[u] = hist[u] /\ detached'[u] = detached[u]
  BY DEF TypeOK, Goto
<1>2. Shape(envelope) /\ Closed(envelope, detached)
  BY DEF WellFormedInv
<1> QED BY <1>1, <1>2, WellFormedStep

LEMMA TurnMoves ==
  ASSUME TypeOK, WellFormedInv, NEW t \in Turns, NEW p,
         UNCHANGED <<envelope, detached, mode, hist>>, Goto(t, p),
         p \notin {"idle", "load"}, TurnShape(p, mode[t], hist[t], detached, t)
  PROVE  WellFormedInv'
<1>1. hist' = [hist EXCEPT ![t] = hist[t]]
  BY DEF TypeOK
<1> QED BY <1>1, HistoryChanges

\* The end of a turn's coroutine.
LEMMA TurnReturns ==
  ASSUME TypeOK, WellFormedInv, NEW t \in Turns, Return(t),
         UNCHANGED <<envelope, detached, mode>>
  PROVE  WellFormedInv'
<1> DEFINE nothing == << >>
<1>1. Goto(t, "done") /\ hist' = [hist EXCEPT ![t] = nothing]
  BY DEF Return
<1>2. TurnShape("done", mode[t], nothing, detached, t)
  BY DEF WellFormedInv, TurnShape, Acting
<1>3. \A u \in Turns \ {t} : Names(nothing, u) => Names(envelope, u) \/ Names(hist[t], u)
  BY DEF Names
<1> HIDE DEF nothing
<1> QED BY <1>1, <1>2, <1>3, HistoryChanges

LEMMA TurnAnswers ==
  ASSUME TypeOK, WellFormedInv, NEW t \in Turns, NEW o, Answer(t, o),
         UNCHANGED <<envelope, detached, mode>>
  PROVE  WellFormedInv'
<1>1. CASE Return(t)
  BY <1>1, TurnReturns
<1>2. CASE Goto(t, "append") /\ UNCHANGED hist
  <2>1. TurnShape("append", mode[t], hist[t], detached, t)
    BY DEF WellFormedInv, TurnShape, Acting
  <2> QED BY <1>2, <2>1, TurnMoves
<1> QED BY <1>1, <1>2 DEF Answer

\* A step of t that writes e, its history or what the sanitizer makes of it.
LEMMA EnvelopeWritten ==
  ASSUME TypeOK, WellFormedInv, NEW t \in Turns, NEW e, NEW p,
         UNCHANGED <<detached, mode>>, Goto(t, p), envelope' = e,
         hist' = [hist EXCEPT ![t] = e],
         Shape(e), Closed(e, detached), \A u \in Turns : Names(e, u) => Names(hist[t], u),
         p \notin {"idle", "load"}, TurnShape(p, mode[t], e, detached, t)
  PROVE  WellFormedInv'
<1>1. /\ pc'[t] = p /\ hist'[t] = e
      /\ \A u \in Turns \ {t} : /\ pc'[u] = pc[u] /\ mode'[u] = mode[u]
                                /\ hist'[u] = hist[u] /\ detached'[u] = detached[u]
  BY DEF TypeOK, Goto
<1> QED BY <1>1, WellFormedStep

-----------------------------------------------------------------------------
(* What an agent makes of a history.                                       *)

LEMMA ChunkOwn ==
  ASSUME NEW t \in Turns, NEW D, Shape(hist[t]), Own(hist[t], t), Open(hist[t], t, D),
         NEW h \in NextStates(t)
  PROVE  /\ Shape(h) /\ Own(h, t) /\ Open(h, t, D)
         /\ \A u \in Turns : Names(h, u) => Names(hist[t], u)
<1>1. \/ h = hist[t]
      \/ LastKind(hist[t]) = "call" /\ h = Append(hist[t], Msg("result", t))
      \/ LastKind(hist[t]) \in {"user", "result"} /\
           \E k \in {"reply", "call"} : h = Append(hist[t], Msg(k, t))
  BY DEF NextStates
<1>2. CASE LastKind(hist[t]) = "call" /\ h = Append(hist[t], Msg("result", t))
  BY <1>2, AppendOwn DEF Kinds
<1>3. ASSUME LastKind(hist[t]) \in {"user", "result"}, NEW k \in {"reply", "call"},
             h = Append(hist[t], Msg(k, t))
      PROVE  /\ Shape(h) /\ Own(h, t) /\ Open(h, t, D)
             /\ \A u \in Turns : Names(h, u) => Names(hist[t], u)
  BY <1>3, AppendOwn DEF Kinds
<1> QED BY <1>1, <1>2, <1>3

LEMMA ReturnedOwn ==
  ASSUME NEW t \in Turns, NEW D, Shape(hist[t]), Own(hist[t], t), Open(hist[t], t, D),
         LastKind(hist[t]) = "user", NEW h \in Returned(t)
  PROVE  /\ Shape(h) /\ Own(h, t) /\ Open(h, t, D) /\ LastKind(h) = "reply"
         /\ \A u \in Turns : Names(h, u) => Names(hist[t], u)
<1> DEFINE call == Append(hist[t], Msg("call", t))
           result == Append(call, Msg("result", t))
<1>1. /\ Shape(call) /\ Own(call, t) /\ Open(call, t, D) /\ LastKind(call) = "call"
      /\ \A u \in Turns : Names(call, u) => Names(hist[t], u)
  BY AppendOwn DEF Kinds
<1> HIDE DEF call
<1>2. /\ Shape(result) /\ Own(result, t) /\ Open(result, t, D) /\ LastKind(result) = "result"
      /\ \A u \in Turns : Names(result, u) => Names(call, u)
  BY <1>1, AppendOwn DEF Kinds
<1> HIDE DEF result
<1>3. h \in {Append(hist[t], Msg("reply", t)), Append(result, Msg("reply", t))}
  BY ThreeAppends DEF Returned, call, result, Shape
<1>4. CASE h = Append(hist[t], Msg("reply", t))
  BY <1>4, AppendOwn DEF Kinds
<1>5. CASE h = Append(result, Msg("reply", t))
  <2>1. /\ Shape(h) /\ Own(h, t) /\ Open(h, t, D) /\ LastKind(h) = "reply"
        /\ \A u \in Turns : Names(h, u) => Names(result, u)
    BY <1>2, <1>5, AppendOwn DEF Kinds
  <2> QED BY <1>1, <1>2, <2>1
<1> QED BY <1>3, <1>4, <1>5

-----------------------------------------------------------------------------
(* Every step keeps the invariant.                                         *)

LEMMA EnvelopeUntouched ==
  ASSUME WellFormedInv, UNCHANGED <<pc, mode, hist, detached, envelope>>
  PROVE  WellFormedInv'
BY DEF WellFormedInv

LEMMA SubmitKeepsForm ==
  ASSUME TypeOK, WellFormedInv, NEW t \in Turns, Submit(t)
  PROVE  WellFormedInv'
<1>1. /\ pc[t] = "idle" /\ pc'[t] = "load" /\ UNCHANGED <<hist, detached, envelope>>
      /\ \A u \in Turns \ {t} : pc'[u] = pc[u] /\ mode'[u] = mode[u]
  BY DEF Submit, Goto, TypeOK
<1>2. TurnShape("load", mode'[t], hist[t], detached, t)
  BY <1>1 DEF WellFormedInv, TurnShape, Acting
<1>3. \A u \in Turns : TurnShape(pc'[u], mode'[u], hist[u], detached, u)
  BY <1>1, <1>2 DEF WellFormedInv
<1>4. \A u \in Turns : pc'[u] \in {"idle", "load"} => pc[u] \in {"idle", "load"}
  BY <1>1
<1> QED BY <1>1, <1>3, <1>4 DEF WellFormedInv

LEMMA LoadKeepsForm ==
  ASSUME TypeOK, WellFormedInv, NEW t \in Turns, Load(t)
  PROVE  WellFormedInv'
<1> DEFINE h == Append(envelope, Msg("user", t))
<1>1. /\ pc[t] = "load" /\ hist' = [hist EXCEPT ![t] = h] /\ Goto(t, "persist")
      /\ UNCHANGED <<envelope, detached, mode>>
  BY DEF Load
<1>2. /\ Shape(envelope) /\ Closed(envelope, detached) /\ ~Names(envelope, t) /\ ~detached[t]
  BY <1>1 DEF WellFormedInv, TurnShape
<1>3. /\ Shape(h) /\ Own(h, t) /\ Open(h, t, detached) /\ LastKind(h) = "user"
      /\ \A u \in Turns : Names(h, u) => Names(envelope, u) \/ u = t
  BY <1>2, LoadOwn
<1> HIDE DEF h
<1>4. TurnShape("persist", mode[t], h, detached, t)
  BY <1>2, <1>3 DEF TurnShape
<1> QED BY <1>1, <1>3, <1>4, HistoryChanges

\* The envelope takes the whole history of t.
LEMMA WriteKeepsForm ==
  ASSUME TypeOK, WellFormedInv, NEW t \in Turns, NEW p,
         UNCHANGED <<detached, mode, hist>>, Goto(t, p), envelope' = hist[t],
         pc[t] \in {"persist", "save"}, p \in {"mark", "complete"},
         p = "mark" => pc[t] = "persist"
  PROVE  WellFormedInv'
<1>1. TurnShape(pc[t], mode[t], hist[t], detached, t)
  BY DEF WellFormedInv
<1>2. /\ Shape(hist[t]) /\ Own(hist[t], t) /\ Open(hist[t], t, detached)
      /\ LastKind(hist[t]) # "call" \/ detached[t]
  BY <1>1 DEF TurnShape, Acting
<1>3. Closed(hist[t], detached)
  BY <1>2, OpenCloses
<1>4. TurnShape(p, mode[t], hist[t], detached, t)
  BY <1>1, <1>2 DEF TurnShape, Acting
<1>5. hist' = [hist EXCEPT ![t] = hist[t]]
  BY DEF TypeOK
<1> QED BY <1>2, <1>3, <1>4, <1>5, EnvelopeWritten

LEMMA SwitchKeepsForm ==
  ASSUME TypeOK, WellFormedInv, NEW t \in Turns, EnterBackground(t)
  PROVE  WellFormedInv'
<1>1. /\ pc[t] = "bgmeta" /\ pc'[t] = "persist" /\ detached'[t] /\ UNCHANGED <<mode, hist, envelope>>
      /\ \A u \in Turns \ {t} : pc'[u] = pc[u] /\ detached'[u] = detached[u]
  BY DEF EnterBackground, Goto, TypeOK
<1>2. \A u \in Turns : detached[u] => detached'[u]
  BY <1>1
<1>3. /\ TurnShape("bgmeta", mode[t], hist[t], detached, t)
      /\ Shape(envelope) /\ Closed(envelope, detached)
  BY <1>1 DEF WellFormedInv
<1>4. Closed(envelope, detached')
  BY <1>2, <1>3, MoreDetached
<1>5. Shape(hist[t]) /\ Own(hist[t], t) /\ Open(hist[t], t, detached') /\ mode[t] # "sync"
  BY <1>2, <1>3, MoreDetached DEF TurnShape, Acting
<1>6. TurnShape("persist", mode[t], hist[t], detached', t)
  BY <1>1, <1>5 DEF TurnShape
<1> QED BY <1>1, <1>3, <1>4, <1>6, WellFormedStep

\* The steps of an agent.
LEMMA AgentKeepsForm ==
  ASSUME TypeOK, WellFormedInv, NEW t \in Turns, AgentStep(t)
  PROVE  WellFormedInv'
<1>1. /\ pc[t] = "run" /\ UNCHANGED <<mode, detached, envelope>>
      /\ TurnShape("run", mode[t], hist[t], detached, t)
  BY DEF AgentStep, AgentReturns, AgentRaises, ChunkInterrupted, ChunkFailed,
         ChunkSwitches, ChunkContinues, WellFormedInv
<1>2. Shape(hist[t]) /\ Own(hist[t], t) /\ Open(hist[t], t, detached)
  BY <1>1 DEF TurnShape, Acting
<1>3. CASE AgentReturns(t)
  <2>1. mode[t] = "sync" /\ LastKind(hist[t]) = "user"
    BY <1>1, <1>3 DEF AgentReturns, TurnShape
  <2>2. PICK h \in Returned(t) : hist' = [hist EXCEPT ![t] = h]
    BY <1>3 DEF AgentReturns
  <2>3. /\ Shape(h) /\ Own(h, t) /\ Open(h, t, detached) /\ LastKind(h) = "reply"
        /\ \A u \in Turns : Names(h, u) => Names(hist[t], u)
    BY <1>2, <2>1, ReturnedOwn
  <2>4. TurnShape("check", mode[t], h, detached, t)
    BY <1>1, <2>3 DEF TurnShape
  <2>5. Goto(t, "check")
    BY <1>3 DEF AgentReturns
  <2> QED BY <1>1, <2>2, <2>3, <2>4, <2>5, HistoryChanges
<1>4. CASE AgentRaises(t)
  <2>1. CASE Goto(t, "isave") /\ UNCHANGED hist
    <3>1. TurnShape("isave", mode[t], hist[t], detached, t)
      BY <1>1 DEF TurnShape, Acting
    <3> QED BY <1>1, <2>1, <3>1, TurnMoves
  <2>2. CASE Answer(t, "raised")
    BY <1>1, <2>2, TurnAnswers
  <2> QED BY <1>4, <2>1, <2>2 DEF AgentRaises
<1>5. ASSUME NEW h \in NextStates(t), NEW p \in {"run", "isave", "bgmeta"}, mode[t] # "sync",
             hist' = [hist EXCEPT ![t] = h], Goto(t, p)
      PROVE  WellFormedInv'
  <2>1. /\ Shape(h) /\ Own(h, t) /\ Open(h, t, detached)
        /\ \A u \in Turns : Names(h, u) => Names(hist[t], u)
    BY <1>2, ChunkOwn
  <2>2. TurnShape(p, mode[t], h, detached, t)
    BY <1>5, <2>1 DEF TurnShape
  <2> QED BY <1>1, <1>5, <2>1, <2>2, HistoryChanges
<1>6. CASE ChunkFailed(t)
  <2> DEFINE h == Append(hist[t], Msg("text", t))
  <2>1. /\ hist' = [hist EXCEPT ![t] = h] /\ Goto(t, "isave")
        /\ LastKind(hist[t]) \in {"user", "result"} /\ mode[t] # "sync"
    BY <1>6 DEF ChunkFailed, TypeOK
  <2>2. /\ Shape(h) /\ Own(h, t) /\ Open(h, t, detached)
        /\ \A u \in Turns : Names(h, u) => Names(hist[t], u)
    BY <1>2, <2>1, AppendOwn DEF Kinds
  <2> HIDE DEF h
  <2>3. TurnShape("isave", mode[t], h, detached, t)
    BY <2>1, <2>2 DEF TurnShape
  <2> QED BY <1>1, <2>1, <2>2, <2>3, HistoryChanges
<1>7. CASE ChunkInterrupted(t)
  BY <1>5, <1>7 DEF ChunkInterrupted
<1>8. CASE ChunkSwitches(t)
  BY <1>5, <1>8 DEF ChunkSwitches
<1>9. CASE ChunkContinues(t)
  <2>1. Goto(t, "run")
    BY <1>1, <1>9 DEF ChunkContinues, TypeOK, Goto
  <2> QED BY <1>5, <1>9, <2>1 DEF ChunkContinues
<1> QED BY <1>3, <1>4, <1>6, <1>7, <1>8, <1>9 DEF AgentStep

\* The steps of finalizing.
LEMMA FinalKeepsForm ==
  ASSUME TypeOK, WellFormedInv, NEW t \in Turns,
         \/ StreamEnds(t) \/ CheckStatus(t) \/ MarkCompleted(t)
         \/ SavePartial(t) \/ MarkInterrupted(t) \/ AppendTerminal(t) \/ Crash(t)
  PROVE  WellFormedInv'
<1>1. CASE StreamEnds(t)
  <2>1. /\ pc[t] = "run" /\ mode[t] # "sync" /\ LastKind(hist[t]) = "reply" /\ Goto(t, "check")
        /\ UNCHANGED <<envelope, detached, mode, hist>>
    BY <1>1 DEF StreamEnds
  <2>2. TurnShape("check", mode[t], hist[t], detached, t)
    BY <2>1 DEF WellFormedInv, TurnShape, Acting
  <2> QED BY <2>1, <2>2, TurnMoves
<1>2. CASE CheckStatus(t)
  <2>1. /\ pc[t] = "check" /\ UNCHANGED <<envelope, detached, mode>>
        /\ Answer(t, "stopped") \/ (Goto(t, "save") /\ UNCHANGED hist)
    BY <1>2 DEF CheckStatus
  <2>2. TurnShape("save", mode[t], hist[t], detached, t)
    BY <2>1 DEF WellFormedInv, TurnShape, Acting
  <2> QED BY <2>1, <2>2, TurnMoves, TurnAnswers
<1>3. CASE SavePartial(t)
  <2> DEFINE h == Sanitize(hist[t])
  <2>1. /\ pc[t] = "isave" /\ Goto(t, "icomplete") /\ hist' = [hist EXCEPT ![t] = h]
        /\ envelope' = h /\ UNCHANGED <<detached, mode>>
    BY <1>3 DEF SavePartial
  <2>2. TurnShape("isave", mode[t], hist[t], detached, t)
    BY <2>1 DEF WellFormedInv
  <2>3. Shape(hist[t]) /\ Own(hist[t], t) /\ Open(hist[t], t, detached)
    BY <2>2 DEF TurnShape, Acting
  <2>4. Shape(h) /\ Closed(h, detached) /\ \A u \in Turns : Names(h, u) => Names(hist[t], u)
    BY <2>3, SanitizeOwn
  <2> HIDE DEF h
  <2>5. TurnShape("icomplete", mode[t], h, detached, t)
    BY <2>2 DEF TurnShape, Acting
  <2> QED BY <2>1, <2>4, <2>5, EnvelopeWritten
<1>4. CASE MarkCompleted(t)
  BY <1>4, TurnAnswers DEF MarkCompleted
<1>5. CASE MarkInterrupted(t)
  BY <1>5, TurnAnswers DEF MarkInterrupted
<1>6. CASE AppendTerminal(t) \/ Crash(t)
  BY <1>6, TurnReturns DEF AppendTerminal, Crash
<1> QED BY <1>1, <1>2, <1>3, <1>4, <1>5, <1>6

LEMMA WellFormedNext ==
  TypeOK /\ WellFormedInv /\ [Next]_vars => WellFormedInv'
<1> SUFFICES ASSUME TypeOK, WellFormedInv, [Next]_vars PROVE WellFormedInv'
  OBVIOUS
<1>1. ASSUME NEW t \in Turns, Submit(t) \/ Load(t) \/ EnterBackground(t) PROVE WellFormedInv'
  BY <1>1, SubmitKeepsForm, LoadKeepsForm, SwitchKeepsForm
<1>2. ASSUME NEW t \in Turns, PersistInput(t) PROVE WellFormedInv'
  <2>1. /\ pc[t] = "persist" /\ Goto(t, "mark") /\ envelope' = hist[t]
        /\ UNCHANGED <<detached, mode, hist>>
    BY <1>2 DEF PersistInput
  <2> QED BY <2>1, WriteKeepsForm
<1>3. ASSUME NEW t \in Turns, MarkRunning(t) PROVE WellFormedInv'
  <2>1. /\ pc[t] = "mark" /\ UNCHANGED <<envelope, detached, mode, hist>>
        /\ \/ Goto(t, "run")
           \/ mode[t] = "background" /\ Goto(t, "bgmeta")
    BY <1>3 DEF MarkRunning
  <2>2. TurnShape("mark", mode[t], hist[t], detached, t)
    BY <2>1 DEF WellFormedInv
  <2>3. TurnShape("run", mode[t], hist[t], detached, t)
    BY <2>2 DEF TurnShape, Acting
  <2>4. mode[t] = "background" => TurnShape("bgmeta", mode[t], hist[t], detached, t)
    BY <2>2 DEF TurnShape, Acting
  <2> QED BY <2>1, <2>3, <2>4, TurnMoves
<1>4. ASSUME NEW t \in Turns, InterruptWins(t) PROVE WellFormedInv'
  <2>1. pc[t] = "run" /\ Goto(t, "isave") /\ UNCHANGED <<envelope, detached, mode, hist>>
    BY <1>4 DEF InterruptWins
  <2>2. TurnShape("isave", mode[t], hist[t], detached, t)
    BY <2>1 DEF WellFormedInv, TurnShape, Acting
  <2> QED BY <2>1, <2>2, TurnMoves
<1>5. ASSUME NEW t \in Turns, SaveReply(t) PROVE WellFormedInv'
  <2>1. /\ pc[t] = "save" /\ Goto(t, "complete") /\ envelope' = hist[t]
        /\ UNCHANGED <<detached, mode, hist>>
    BY <1>5 DEF SaveReply
  <2> QED BY <2>1, WriteKeepsForm
<1>6. ASSUME NEW t \in Turns, Poll(t) PROVE WellFormedInv'
  BY <1>6, EnvelopeUntouched DEF Poll
<1>7. ASSUME NEW i \in Interrupts, InterruptRead(i) \/ InterruptWrite(i) PROVE WellFormedInv'
  BY <1>7, EnvelopeUntouched DEF InterruptRead, InterruptWrite, turnVars
<1>8. CASE UNCHANGED vars
  BY <1>8, EnvelopeUntouched DEF vars, turnVars
<1> QED
  BY <1>1, <1>2, <1>3, <1>4, <1>5, <1>6, <1>7, <1>8, AgentKeepsForm, FinalKeepsForm
  DEF Next, ServerStep

-----------------------------------------------------------------------------
(* The theorem.                                                            *)

\* However turns overlap, switch, are stopped, fail or die with their pod,
\* every write of the envelope (_persist_input_and_set_running,
\* _finalize_execution, _finalize_interrupted_execution) leaves one that holds
\* no message twice, nothing before its user message, and no call without
\* its result but those of turns that switched to the background.
THEOREM EnvelopeStaysWellFormed == Spec => []EnvelopeWellFormed
<1>1. Init => WellFormedInv
  <2> SUFFICES ASSUME Init PROVE WellFormedInv
    OBVIOUS
  <2> DEFINE nothing == << >>
  <2>1. nothing \in History /\ DOMAIN nothing = {}
    BY DEF History
  <2>2. envelope = nothing /\ \A t \in Turns : hist[t] = nothing /\ pc[t] = "idle"
                                              /\ mode[t] = "none" /\ ~detached[t]
    BY DEF Init
  <2> HIDE DEF nothing
  <2>3. /\ Shape(nothing) /\ Closed(nothing, detached)
        /\ \A t \in Turns : ~Names(nothing, t)
    BY <2>1 DEF Shape, Once, Opened, Together, Closed, Names
  <2>4. \A t \in Turns : TurnShape("idle", "none", nothing, detached, t)
    BY <2>2 DEF TurnShape, Acting
  <2> QED BY <2>2, <2>3, <2>4 DEF WellFormedInv
<1>2. WellFormedInv => EnvelopeWellFormed
  BY DEF WellFormedInv, Shape, Once, Opened, Closed, EnvelopeWellFormed
<1> QED
  BY <1>1, <1>2, TypeCorrect, WellFormedNext, PTL DEF Spec
=============================================================================
