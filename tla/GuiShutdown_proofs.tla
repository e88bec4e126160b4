---------------------------- MODULE GuiShutdown_proofs ----------------------------
(***************************************************************************)
(* Theorems about the PTY handle of PtyIo, for any set of threads, any     *)
(* calls they may make and any number of reap attempts, and about the GUI  *)
(* runtime that holds it, for any number of resizes and any sizes. IInv    *)
(* (PtyIo) is the inductive invariant of the handle: the lemmas show that  *)
(* it holds initially and that every step preserves it, first the steps of *)
(* the factory and the child, then those outside a call, then those inside *)
(* one. The GUI runtime makes only steps of PtyIo, so that the theorems    *)
(* about the handle hold of it; its own invariant follows the close of     *)
(* shutdown() through the steps of the call, and the handle of the event   *)
(* loop thread through the phases.                                         *)
(***************************************************************************)
EXTENDS GuiShutdown, TLAPS

----------------------------------------------------------------------------
(* The PTY handle.                                                         *)

LEMMA InitEstablishes == Init => IInv
<1> SUFFICES ASSUME Init PROVE IInv
  OBVIOUS
<1> USE PtyConstants DEF Init
<1>1. SessionTypes BY DEF SessionTypes
<1>2. ThreadTypes BY DEF ThreadTypes, Place, Answer
<1>3. TypeOK BY <1>1, <1>2 DEF TypeOK
<1>4. LocksHeldByCallers BY DEF LocksHeldByCallers
<1>5. SentinelOnlyWhenLost /\ BeforeReady /\ HandlesOfOpenSession /\ InsideBeforeFinal
  BY DEF SentinelOnlyWhenLost, BeforeReady, HandlesOfOpenSession, InsideBeforeFinal
<1>6. CodesAreReal /\ LiveChildHasOwner /\ AttemptsLeft
  BY DEF CodesAreReal, LiveChildHasOwner, AttemptsLeft
<1> QED BY <1>3, <1>4, <1>5, <1>6 DEF IInv

(* The factory and the child. *)
LEMMA SessionPreserves ==
  ASSUME IInv, Factory \/ ProcessExits
  PROVE  IInv'
<1> USE PtyConstants DEF innerVars, threadVars, processVars
<1>1. /\ TypeOK /\ LocksHeldByCallers /\ SentinelOnlyWhenLost /\ BeforeReady
      /\ HandlesOfOpenSession /\ InsideBeforeFinal /\ CodesAreReal /\ LiveChildHasOwner
      /\ AttemptsLeft
  BY DEF IInv
<1>2. /\ SessionTypes /\ closed \in BOOLEAN /\ ThreadTypes
      /\ pc \in [Threads -> Place] /\ result \in [Threads -> Answer]
      /\ op \in [Threads -> Op \cup {"none", "drop"}]
      /\ waited \in [Threads -> {"none", "unknown", "final"}]
      /\ tries \in [Threads -> 0 .. ReapAttempts] /\ calls \in [Threads -> Nat]
  BY DEF IInv, TypeOK, ThreadTypes
<1>3. CASE SpawnChild
  <2>1. SessionTypes' BY <1>2, <1>3 DEF SessionTypes, SpawnChild
  <2>2. (closed \in BOOLEAN)' BY <1>2, <1>3 DEF SpawnChild
  <2>3. ThreadTypes' BY <1>2, <1>3 DEF ThreadTypes, SpawnChild
  <2>4. LocksHeldByCallers' BY <1>1, <1>2, <1>3 DEF LocksHeldByCallers, SpawnChild
  <2>5. (BeforeReady /\ HandlesOfOpenSession /\ AttemptsLeft)' BY <1>1, <1>2, <1>3 DEF
    BeforeReady, HandlesOfOpenSession, AttemptsLeft, SpawnChild
  <2>6. (InsideBeforeFinal /\ CodesAreReal)' BY <1>1, <1>2, <1>3 DEF InsideBeforeFinal,
    CodesAreReal, LocksHeldByCallers, BeforeReady, SpawnChild
  <2>7. (SentinelOnlyWhenLost /\ LiveChildHasOwner)' BY <1>1, <1>2, <1>3 DEF
    SentinelOnlyWhenLost, LiveChildHasOwner, CodesAreReal, BeforeReady, SpawnChild
  <2> QED BY <2>1, <2>2, <2>3, <2>4, <2>5, <2>6, <2>7 DEF IInv, TypeOK
<1>4. CASE SpawnFails
  <2>1. SessionTypes' BY <1>2, <1>4 DEF SessionTypes, SpawnFails
  <2>2. (closed \in BOOLEAN)' BY <1>2, <1>4 DEF SpawnFails
  <2>3. ThreadTypes' BY <1>2, <1>4 DEF ThreadTypes, SpawnFails
  <2>4. LocksHeldByCallers' BY <1>1, <1>2, <1>4 DEF LocksHeldByCallers, SpawnFails
  <2>5. (BeforeReady /\ HandlesOfOpenSession /\ AttemptsLeft)' BY <1>1, <1>2, <1>4 DEF
    BeforeReady, HandlesOfOpenSession, AttemptsLeft, SpawnFails
  <2>6. (InsideBeforeFinal /\ CodesAreReal)' BY <1>1, <1>2, <1>4 DEF InsideBeforeFinal,
    CodesAreReal, LocksHeldByCallers, SpawnFails
  <2>7. (SentinelOnlyWhenLost /\ LiveChildHasOwner)' BY <1>1, <1>2, <1>4 DEF
    SentinelOnlyWhenLost, LiveChildHasOwner, CodesAreReal, BeforeReady, SpawnFails
  <2> QED BY <2>1, <2>2, <2>3, <2>4, <2>5, <2>6, <2>7 DEF IInv, TypeOK
<1>5. CASE SpawnSucceeds
  <2>1. SessionTypes' BY <1>2, <1>5 DEF SessionTypes, SpawnSucceeds
  <2>2. (closed \in BOOLEAN)' BY <1>2, <1>5 DEF SpawnSucceeds
  <2>3. ThreadTypes' BY <1>2, <1>5 DEF ThreadTypes, SpawnSucceeds
  <2>4. LocksHeldByCallers' BY <1>1, <1>2, <1>5 DEF LocksHeldByCallers, SpawnSucceeds
  <2>5. (BeforeReady /\ HandlesOfOpenSession /\ AttemptsLeft)' BY <1>1, <1>2, <1>5 DEF
    BeforeReady, HandlesOfOpenSession, AttemptsLeft, SpawnSucceeds
  <2>6. (InsideBeforeFinal /\ CodesAreReal)' BY <1>1, <1>2, <1>5 DEF InsideBeforeFinal,
    CodesAreReal, LocksHeldByCallers, SpawnSucceeds
  <2>7. (SentinelOnlyWhenLost /\ LiveChildHasOwner)' BY <1>1, <1>2, <1>5 DEF
    SentinelOnlyWhenLost, LiveChildHasOwner, CodesAreReal, BeforeReady, SpawnSucceeds
  <2> QED BY <2>1, <2>2, <2>3, <2>4, <2>5, <2>6, <2>7 DEF IInv, TypeOK
<1>6. CASE ProcessExits
  <2>1. SessionTypes' BY <1>2, <1>6 DEF SessionTypes, ProcessExits
  <2>2. (closed \in BOOLEAN)' BY <1>2, <1>6 DEF ProcessExits
  <2>3. ThreadTypes' BY <1>2, <1>6 DEF ThreadTypes, ProcessExits
  <2>4. LocksHeldByCallers' BY <1>1, <1>2, <1>6 DEF LocksHeldByCallers, ProcessExits
  <2>5. (BeforeReady /\ HandlesOfOpenSession /\ AttemptsLeft)' BY <1>1, <1>2, <1>6 DEF
    BeforeReady, HandlesOfOpenSession, AttemptsLeft, ProcessExits
  <2>6. (InsideBeforeFinal /\ CodesAreReal)' BY <1>1, <1>2, <1>6 DEF InsideBeforeFinal,
    CodesAreReal, LocksHeldByCallers, ProcessExits
  <2>7. (SentinelOnlyWhenLost /\ LiveChildHasOwner)' BY <1>1, <1>2, <1>6 DEF
    SentinelOnlyWhenLost, LiveChildHasOwner, CodesAreReal, BeforeReady, ProcessExits
  <2> QED BY <2>1, <2>2, <2>3, <2>4, <2>5, <2>6, <2>7 DEF IInv, TypeOK
<1> QED BY <1>3, <1>4, <1>5, <1>6 DEF Factory

(* A thread that calls, shares the handle or lets go of it. *)
LEMMA HolderPreserves ==
  ASSUME NEW t \in Threads, IInv,
         Release(t) \/ (\E o \in Op : Call(t, o)) \/ (\E u \in Threads : Share(t, u))
  PROVE  IInv'
<1> USE PtyConstants DEF innerVars, threadVars, processVars
<1>1. /\ TypeOK /\ LocksHeldByCallers /\ SentinelOnlyWhenLost /\ BeforeReady
      /\ HandlesOfOpenSession /\ InsideBeforeFinal /\ CodesAreReal /\ LiveChildHasOwner
      /\ AttemptsLeft
  BY DEF IInv
<1>2. /\ SessionTypes /\ closed \in BOOLEAN /\ ThreadTypes
      /\ pc \in [Threads -> Place] /\ result \in [Threads -> Answer]
      /\ op \in [Threads -> Op \cup {"none", "drop"}]
      /\ waited \in [Threads -> {"none", "unknown", "final"}]
      /\ tries \in [Threads -> 0 .. ReapAttempts] /\ calls \in [Threads -> Nat]
  BY DEF IInv, TypeOK, ThreadTypes
<1>3. CASE Release(t)
  <2>1. SessionTypes' BY <1>2, <1>3 DEF SessionTypes, Release, Goes
  <2>2. (closed \in BOOLEAN)' BY <1>2, <1>3 DEF Release, Goes
  <2>3. ThreadTypes' BY <1>2, <1>3 DEF ThreadTypes, Release, Goes, Place
  <2>4. LocksHeldByCallers' BY <1>1, <1>2, <1>3 DEF LocksHeldByCallers, Release, Goes
  <2>5. (BeforeReady /\ HandlesOfOpenSession /\ AttemptsLeft)' BY <1>1, <1>2, <1>3 DEF
    BeforeReady, HandlesOfOpenSession, AttemptsLeft, Release, Goes
  <2>6. (InsideBeforeFinal /\ CodesAreReal)' BY <1>1, <1>2, <1>3 DEF InsideBeforeFinal,
    CodesAreReal, LocksHeldByCallers, Release, Goes
  <2>7. (SentinelOnlyWhenLost /\ LiveChildHasOwner)' BY <1>1, <1>2, <1>3 DEF
    SentinelOnlyWhenLost, LiveChildHasOwner, CodesAreReal, BeforeReady, Release, Goes
  <2> QED BY <2>1, <2>2, <2>3, <2>4, <2>5, <2>6, <2>7 DEF IInv, TypeOK
<1>4. CASE \E o \in Op : Call(t, o)
  <2>1. SessionTypes' BY <1>2, <1>4 DEF SessionTypes, Call, Goes
  <2>2. (closed \in BOOLEAN)' BY <1>2, <1>4 DEF Call, Goes
  <2>3. ThreadTypes'
    <3>1. PICK o \in Op : Call(t, o) BY <1>4
    <3>2. op' \in [Threads -> Op \cup {"none", "drop"}] BY <1>2, <3>1 DEF Call
    <3>3. calls' \in [Threads -> Nat] BY <1>2, <3>1 DEF Call
    <3>4. pc' \in [Threads -> Place] /\ UNCHANGED result BY <1>2, <3>1 DEF Call, Goes, Place
    <3> QED BY <1>2, <3>1, <3>2, <3>3, <3>4 DEF ThreadTypes, Call
  <2>4. LocksHeldByCallers' BY <1>1, <1>2, <1>4 DEF LocksHeldByCallers, Call, Goes
  <2>5. (BeforeReady /\ HandlesOfOpenSession /\ AttemptsLeft)' BY <1>1, <1>2, <1>4 DEF
    BeforeReady, HandlesOfOpenSession, AttemptsLeft, Call, Goes
  <2>6. (InsideBeforeFinal /\ CodesAreReal)' BY <1>1, <1>2, <1>4 DEF InsideBeforeFinal,
    CodesAreReal, LocksHeldByCallers, Call, Goes
  <2>7. (SentinelOnlyWhenLost /\ LiveChildHasOwner)' BY <1>1, <1>2, <1>4 DEF
    SentinelOnlyWhenLost, LiveChildHasOwner, CodesAreReal, BeforeReady, Call, Goes
  <2> QED BY <2>1, <2>2, <2>3, <2>4, <2>5, <2>6, <2>7 DEF IInv, TypeOK
<1>5. CASE \E u \in Threads : Share(t, u)
  <2>1. SessionTypes' BY <1>2, <1>5 DEF SessionTypes, Share
  <2>2. (closed \in BOOLEAN)' BY <1>2, <1>5 DEF Share
  <2>3. ThreadTypes' BY <1>2, <1>5 DEF ThreadTypes, Share, Place
  <2>4. LocksHeldByCallers' BY <1>1, <1>2, <1>5 DEF LocksHeldByCallers, Share
  <2>5. (BeforeReady /\ HandlesOfOpenSession /\ AttemptsLeft)' BY <1>1, <1>2, <1>5 DEF
    BeforeReady, HandlesOfOpenSession, AttemptsLeft, Share
  <2>6. (InsideBeforeFinal /\ CodesAreReal)' BY <1>1, <1>2, <1>5 DEF InsideBeforeFinal,
    CodesAreReal, LocksHeldByCallers, Share
  <2>7. (SentinelOnlyWhenLost /\ LiveChildHasOwner)' BY <1>1, <1>2, <1>5 DEF
    SentinelOnlyWhenLost, LiveChildHasOwner, CodesAreReal, BeforeReady, Share
  <2> QED BY <2>1, <2>2, <2>3, <2>4, <2>5, <2>6, <2>7 DEF IInv, TypeOK
<1> QED BY <1>3, <1>4, <1>5

(* What the end of a call does to the types. *)
LEMMA ReturnsEffect ==
  ASSUME NEW t \in Threads, NEW value \in Answer, ThreadTypes, Returns(t, value)
  PROVE  /\ pc' \in [Threads -> Place] /\ result' \in [Threads -> Answer]
         /\ innerLock' \in Threads \cup {Nobody}
BY DEF ThreadTypes, Returns, Place

(* What going to another place does to the types. *)
LEMMA GoesEffect ==
  ASSUME NEW t \in Threads, NEW place \in Place, ThreadTypes, Goes(t, place)
  PROVE  pc' \in [Threads -> Place] /\ result' \in [Threads -> Answer]
BY DEF ThreadTypes, Goes

(* A step inside a call. *)
LEMMA StepPreserves ==
  ASSUME NEW t \in Threads, IInv, Step(t)
  PROVE  IInv'
<1> USE PtyConstants DEF innerVars, threadVars, processVars
<1>1. /\ TypeOK /\ LocksHeldByCallers /\ SentinelOnlyWhenLost /\ BeforeReady
      /\ HandlesOfOpenSession /\ InsideBeforeFinal /\ CodesAreReal /\ LiveChildHasOwner /\ AttemptsLeft
  BY DEF IInv
<1>2. /\ SessionTypes /\ closed \in BOOLEAN /\ ThreadTypes
      /\ pc \in [Threads -> Place] /\ result \in [Threads -> Answer]
      /\ op \in [Threads -> Op \cup {"none", "drop"}]
      /\ waited \in [Threads -> {"none", "unknown", "final"}]
      /\ tries \in [Threads -> 0 .. ReapAttempts] /\ calls \in [Threads -> Nat]
  BY DEF IInv, TypeOK, ThreadTypes
<1>3. /\ {"idle", "enter", "refresh", "lock child", "waiting", "relock", "signal",
          "reap"} \subseteq Place
      /\ {"none", "ok", "refused", "reader", "writer", "running", "unknown", "final",
          "error"} \subseteq Answer
  BY DEF Place, Answer
<1>4. CASE EnterRefresh(t)
  <2>1. SessionTypes' BY <1>2, <1>4 DEF SessionTypes, EnterRefresh, Returns, Goes, hasFinalExit,
    polls
  <2>2. (closed \in BOOLEAN)' BY <1>2, <1>4 DEF EnterRefresh, Returns, Goes, hasFinalExit, polls
  <2>3. ThreadTypes' BY <1>2, <1>3, <1>4, ReturnsEffect, GoesEffect DEF ThreadTypes,
    EnterRefresh, hasFinalExit, polls
  <2>4. LocksHeldByCallers' BY <1>1, <1>2, <1>4 DEF LocksHeldByCallers, EnterRefresh, Returns,
    Goes, hasFinalExit, polls
  <2>5. (BeforeReady /\ HandlesOfOpenSession /\ AttemptsLeft)' BY <1>1, <1>2, <1>4 DEF
    BeforeReady, HandlesOfOpenSession, AttemptsLeft, EnterRefresh, Returns, Goes, hasFinalExit,
    polls
  <2>6. (InsideBeforeFinal /\ CodesAreReal)' BY <1>1, <1>2, <1>4 DEF InsideBeforeFinal,
    CodesAreReal, LocksHeldByCallers, EnterRefresh, Returns, Goes, hasFinalExit, polls
  <2>7. (SentinelOnlyWhenLost /\ LiveChildHasOwner)' BY <1>1, <1>2, <1>4 DEF
    SentinelOnlyWhenLost, LiveChildHasOwner, CodesAreReal, BeforeReady, EnterRefresh, Returns,
    Goes, hasFinalExit, polls
  <2> QED BY <2>1, <2>2, <2>3, <2>4, <2>5, <2>6, <2>7 DEF IInv, TypeOK
<1>5. CASE RefreshFindsRunning(t)
  <2>1. SessionTypes' BY <1>2, <1>5 DEF SessionTypes, RefreshFindsRunning, TryWaitAnswers,
    Returns, Goes, ensureOpen
  <2>2. (closed \in BOOLEAN)' BY <1>2, <1>5 DEF RefreshFindsRunning, TryWaitAnswers, Returns,
    Goes, ensureOpen
  <2>3. ThreadTypes' BY <1>2, <1>3, <1>5, ReturnsEffect, GoesEffect DEF ThreadTypes,
    RefreshFindsRunning, TryWaitAnswers, ensureOpen
  <2>4. LocksHeldByCallers'
    <3>0. pc[t] = "refresh" /\ UNCHANGED childLock BY <1>5 DEF RefreshFindsRunning
    <3>1. CASE op[t] = "wait" /\ Goes(t, "lock child") /\ innerLock' = Nobody
      BY <1>1, <1>2, <3>0, <3>1 DEF LocksHeldByCallers, Goes
    <3>2. CASE \E value \in Answer : Returns(t, value)
      BY <1>1, <1>2, <3>0, <3>2 DEF LocksHeldByCallers, Returns
    <3> QED BY <1>3, <1>5, <3>1, <3>2 DEF RefreshFindsRunning
  <2>5. (BeforeReady /\ HandlesOfOpenSession /\ AttemptsLeft)' BY <1>1, <1>2, <1>5 DEF
    BeforeReady, HandlesOfOpenSession, AttemptsLeft, RefreshFindsRunning, TryWaitAnswers,
    Returns, Goes, ensureOpen
  <2>6. (InsideBeforeFinal /\ CodesAreReal)' BY <1>1, <1>2, <1>5 DEF InsideBeforeFinal,
    CodesAreReal, LocksHeldByCallers, RefreshFindsRunning, TryWaitAnswers, Returns, Goes,
    ensureOpen
  <2>7. (SentinelOnlyWhenLost /\ LiveChildHasOwner)' BY <1>1, <1>2, <1>5 DEF
    SentinelOnlyWhenLost, LiveChildHasOwner, CodesAreReal, BeforeReady, RefreshFindsRunning,
    TryWaitAnswers, Returns, Goes, ensureOpen
  <2> QED BY <2>1, <2>2, <2>3, <2>4, <2>5, <2>6, <2>7 DEF IInv, TypeOK
<1>6. CASE RefreshFindsExit(t)
  <2>1. SessionTypes' BY <1>2, <1>6 DEF SessionTypes, RefreshFindsExit, TryWaitAnswers,
    cacheExitCode, closeHandles, Returns, polls
  <2>2. (closed \in BOOLEAN)' BY <1>2, <1>6 DEF RefreshFindsExit, TryWaitAnswers, cacheExitCode,
    closeHandles, Returns, polls
  <2>3. ThreadTypes' BY <1>2, <1>3, <1>6, ReturnsEffect, GoesEffect DEF ThreadTypes,
    RefreshFindsExit, TryWaitAnswers, cacheExitCode, closeHandles, polls
  <2>4. LocksHeldByCallers' BY <1>1, <1>2, <1>6 DEF LocksHeldByCallers, RefreshFindsExit,
    TryWaitAnswers, cacheExitCode, closeHandles, Returns, polls
  <2>5. (BeforeReady /\ HandlesOfOpenSession /\ AttemptsLeft)' BY <1>1, <1>2, <1>6 DEF
    BeforeReady, HandlesOfOpenSession, AttemptsLeft, RefreshFindsExit, TryWaitAnswers,
    cacheExitCode, closeHandles, Returns, polls
  <2>6. (InsideBeforeFinal /\ CodesAreReal)' BY <1>1, <1>2, <1>6 DEF InsideBeforeFinal,
    CodesAreReal, LocksHeldByCallers, RefreshFindsExit, TryWaitAnswers, cacheExitCode,
    closeHandles, Returns, polls
  <2>7. (SentinelOnlyWhenLost /\ LiveChildHasOwner)' BY <1>1, <1>2, <1>6 DEF
    SentinelOnlyWhenLost, LiveChildHasOwner, CodesAreReal, BeforeReady, RefreshFindsExit,
    TryWaitAnswers, cacheExitCode, closeHandles, Returns, polls
  <2> QED BY <2>1, <2>2, <2>3, <2>4, <2>5, <2>6, <2>7 DEF IInv, TypeOK
<1>7. CASE RefreshFails(t)
  <2>1. SessionTypes' BY <1>2, <1>7 DEF SessionTypes, RefreshFails, TryWaitAnswers, Returns
  <2>2. (closed \in BOOLEAN)' BY <1>2, <1>7 DEF RefreshFails, TryWaitAnswers, Returns
  <2>3. ThreadTypes' BY <1>2, <1>3, <1>7, ReturnsEffect, GoesEffect DEF ThreadTypes,
    RefreshFails, TryWaitAnswers
  <2>4. LocksHeldByCallers' BY <1>1, <1>2, <1>7 DEF LocksHeldByCallers, RefreshFails,
    TryWaitAnswers, Returns
  <2>5. (BeforeReady /\ HandlesOfOpenSession /\ AttemptsLeft)' BY <1>1, <1>2, <1>7 DEF
    BeforeReady, HandlesOfOpenSession, AttemptsLeft, RefreshFails, TryWaitAnswers, Returns
  <2>6. (InsideBeforeFinal /\ CodesAreReal)' BY <1>1, <1>2, <1>7 DEF InsideBeforeFinal,
    CodesAreReal, LocksHeldByCallers, RefreshFails, TryWaitAnswers, Returns
  <2>7. (SentinelOnlyWhenLost /\ LiveChildHasOwner)' BY <1>1, <1>2, <1>7 DEF
    SentinelOnlyWhenLost, LiveChildHasOwner, CodesAreReal, BeforeReady, RefreshFails,
    TryWaitAnswers, Returns
  <2> QED BY <2>1, <2>2, <2>3, <2>4, <2>5, <2>6, <2>7 DEF IInv, TypeOK
<1>8. CASE WaitLocksChild(t)
  <2>1. SessionTypes' BY <1>2, <1>8 DEF SessionTypes, WaitLocksChild, Goes
  <2>2. (closed \in BOOLEAN)' BY <1>2, <1>8 DEF WaitLocksChild, Goes
  <2>3. ThreadTypes' BY <1>2, <1>3, <1>8, ReturnsEffect, GoesEffect DEF ThreadTypes,
    WaitLocksChild
  <2>4. LocksHeldByCallers' BY <1>1, <1>2, <1>8 DEF LocksHeldByCallers, WaitLocksChild, Goes
  <2>5. (BeforeReady /\ HandlesOfOpenSession /\ AttemptsLeft)' BY <1>1, <1>2, <1>8 DEF
    BeforeReady, HandlesOfOpenSession, AttemptsLeft, WaitLocksChild, Goes
  <2>6. (InsideBeforeFinal /\ CodesAreReal)' BY <1>1, <1>2, <1>8 DEF InsideBeforeFinal,
    CodesAreReal, LocksHeldByCallers, WaitLocksChild, Goes
  <2>7. (SentinelOnlyWhenLost /\ LiveChildHasOwner)' BY <1>1, <1>2, <1>8 DEF
    SentinelOnlyWhenLost, LiveChildHasOwner, CodesAreReal, BeforeReady, WaitLocksChild, Goes
  <2> QED BY <2>1, <2>2, <2>3, <2>4, <2>5, <2>6, <2>7 DEF IInv, TypeOK
<1>9. CASE WaitEnds(t)
  <2>1. SessionTypes' BY <1>2, <1>9 DEF SessionTypes, WaitEnds, TryWaitAnswers, Goes
  <2>2. (closed \in BOOLEAN)' BY <1>2, <1>9 DEF WaitEnds, TryWaitAnswers, Goes
  <2>3. ThreadTypes' BY <1>2, <1>3, <1>9, ReturnsEffect, GoesEffect DEF ThreadTypes, WaitEnds,
    TryWaitAnswers
  <2>4. LocksHeldByCallers' BY <1>1, <1>2, <1>9 DEF LocksHeldByCallers, WaitEnds,
    TryWaitAnswers, Goes
  <2>5. (BeforeReady /\ HandlesOfOpenSession /\ AttemptsLeft)' BY <1>1, <1>2, <1>9 DEF
    BeforeReady, HandlesOfOpenSession, AttemptsLeft, WaitEnds, TryWaitAnswers, Goes
  <2>6. (InsideBeforeFinal /\ CodesAreReal)' BY <1>1, <1>2, <1>9 DEF InsideBeforeFinal,
    CodesAreReal, LocksHeldByCallers, WaitEnds, TryWaitAnswers, Goes
  <2>7. (SentinelOnlyWhenLost /\ LiveChildHasOwner)' BY <1>1, <1>2, <1>9 DEF
    SentinelOnlyWhenLost, LiveChildHasOwner, CodesAreReal, BeforeReady, WaitEnds,
    TryWaitAnswers, Goes
  <2> QED BY <2>1, <2>2, <2>3, <2>4, <2>5, <2>6, <2>7 DEF IInv, TypeOK
<1>10. CASE WaitRelocks(t)
  <2>1. SessionTypes' BY <1>2, <1>10 DEF SessionTypes, WaitRelocks, hasFinalExit, cacheExitCode,
    closeHandles, Returns
  <2>2. (closed \in BOOLEAN)' BY <1>2, <1>10 DEF WaitRelocks, hasFinalExit, cacheExitCode,
    closeHandles, Returns
  <2>3. ThreadTypes' BY <1>2, <1>3, <1>10, ReturnsEffect, GoesEffect DEF ThreadTypes,
    WaitRelocks, hasFinalExit, cacheExitCode, closeHandles
  <2>4. LocksHeldByCallers' BY <1>1, <1>2, <1>10 DEF LocksHeldByCallers, WaitRelocks,
    hasFinalExit, cacheExitCode, closeHandles, Returns
  <2>5. (BeforeReady /\ HandlesOfOpenSession /\ AttemptsLeft)' BY <1>1, <1>2, <1>10 DEF
    BeforeReady, HandlesOfOpenSession, AttemptsLeft, WaitRelocks, hasFinalExit, cacheExitCode,
    closeHandles, Returns
  <2>6. (InsideBeforeFinal /\ CodesAreReal)' BY <1>1, <1>2, <1>10 DEF InsideBeforeFinal,
    CodesAreReal, LocksHeldByCallers, WaitRelocks, hasFinalExit, cacheExitCode, closeHandles,
    Returns
  <2>7. (SentinelOnlyWhenLost /\ LiveChildHasOwner)' BY <1>1, <1>2, <1>10 DEF
    SentinelOnlyWhenLost, LiveChildHasOwner, CodesAreReal, BeforeReady, WaitRelocks,
    hasFinalExit, cacheExitCode, closeHandles, Returns
  <2> QED BY <2>1, <2>2, <2>3, <2>4, <2>5, <2>6, <2>7 DEF IInv, TypeOK
<1>11. CASE \E size \in Sizes : Resize(t, size)
  <2>1. SessionTypes' BY <1>2, <1>11 DEF SessionTypes, Resize, ensureOpen, normalizeSize,
    cacheExitCode, closeHandles, Returns
  <2>2. (closed \in BOOLEAN)' BY <1>2, <1>11 DEF Resize, ensureOpen, normalizeSize,
    cacheExitCode, closeHandles, Returns
  <2>3. ThreadTypes' BY <1>2, <1>3, <1>11, ReturnsEffect, GoesEffect DEF ThreadTypes, Resize,
    ensureOpen, normalizeSize, cacheExitCode, closeHandles
  <2>4. LocksHeldByCallers' BY <1>1, <1>2, <1>11 DEF LocksHeldByCallers, Resize, ensureOpen,
    normalizeSize, cacheExitCode, closeHandles, Returns
  <2>5. (BeforeReady /\ HandlesOfOpenSession /\ AttemptsLeft)' BY <1>1, <1>2, <1>11 DEF
    BeforeReady, HandlesOfOpenSession, AttemptsLeft, Resize, ensureOpen, normalizeSize,
    cacheExitCode, closeHandles, Returns
  <2>6. (InsideBeforeFinal /\ CodesAreReal)' BY <1>1, <1>2, <1>11 DEF InsideBeforeFinal,
    CodesAreReal, LocksHeldByCallers, Resize, ensureOpen, normalizeSize, cacheExitCode,
    closeHandles, Returns
  <2>7. (SentinelOnlyWhenLost /\ LiveChildHasOwner)' BY <1>1, <1>2, <1>11 DEF
    SentinelOnlyWhenLost, LiveChildHasOwner, CodesAreReal, BeforeReady, Resize, ensureOpen,
    normalizeSize, cacheExitCode, closeHandles, Returns
  <2> QED BY <2>1, <2>2, <2>3, <2>4, <2>5, <2>6, <2>7 DEF IInv, TypeOK
<1>12. CASE EnterTerminate(t)
  <2>1. SessionTypes' BY <1>2, <1>12 DEF SessionTypes, EnterTerminate, closeHandles,
    hasFinalExit, Returns, Goes
  <2>2. (closed \in BOOLEAN)' BY <1>2, <1>12 DEF EnterTerminate, closeHandles, hasFinalExit,
    Returns, Goes
  <2>3. ThreadTypes' BY <1>2, <1>3, <1>12, ReturnsEffect, GoesEffect DEF ThreadTypes,
    EnterTerminate, closeHandles, hasFinalExit
  <2>4. LocksHeldByCallers' BY <1>1, <1>2, <1>12 DEF LocksHeldByCallers, EnterTerminate,
    closeHandles, hasFinalExit, Returns, Goes
  <2>5. (BeforeReady /\ HandlesOfOpenSession /\ AttemptsLeft)' BY <1>1, <1>2, <1>12 DEF
    BeforeReady, HandlesOfOpenSession, AttemptsLeft, EnterTerminate, closeHandles, hasFinalExit,
    Returns, Goes
  <2>6. (InsideBeforeFinal /\ CodesAreReal)' BY <1>1, <1>2, <1>12 DEF InsideBeforeFinal,
    CodesAreReal, LocksHeldByCallers, EnterTerminate, closeHandles, hasFinalExit, Returns, Goes
  <2>7. (SentinelOnlyWhenLost /\ LiveChildHasOwner)' BY <1>1, <1>2, <1>12 DEF
    SentinelOnlyWhenLost, LiveChildHasOwner, CodesAreReal, BeforeReady, EnterTerminate,
    closeHandles, hasFinalExit, Returns, Goes
  <2> QED BY <2>1, <2>2, <2>3, <2>4, <2>5, <2>6, <2>7 DEF IInv, TypeOK
<1>13. CASE Signal(t)
  <2>1. SessionTypes' BY <1>2, <1>13 DEF SessionTypes, Signal, cacheExitCode, closeHandles,
    Returns, Goes
  <2>2. (closed \in BOOLEAN)' BY <1>2, <1>13 DEF Signal, cacheExitCode, closeHandles, Returns,
    Goes
  <2>3. ThreadTypes'
    <3>0. UNCHANGED <<childLock, op, waited, calls>> /\ ReapAttempts \in 0 .. ReapAttempts
      BY <1>13 DEF Signal
    <3>1. CASE UNCHANGED <<innerVars, innerLock>> /\ tries' = [tries EXCEPT ![t] = ReapAttempts]
               /\ Goes(t, "reap")
      BY <1>2, <1>3, <3>0, <3>1, GoesEffect DEF ThreadTypes
    <3>2. CASE UNCHANGED tries /\ \E value \in {"ok", "error"} : Returns(t, value)
      BY <1>2, <1>3, <3>0, <3>2, ReturnsEffect DEF ThreadTypes
    <3> QED BY <1>13, <3>1, <3>2 DEF Signal
  <2>4. LocksHeldByCallers' BY <1>1, <1>2, <1>13 DEF LocksHeldByCallers, Signal, cacheExitCode,
    closeHandles, Returns, Goes
  <2>5. (BeforeReady /\ HandlesOfOpenSession /\ AttemptsLeft)' BY <1>1, <1>2, <1>13 DEF
    BeforeReady, HandlesOfOpenSession, AttemptsLeft, Signal, cacheExitCode, closeHandles,
    Returns, Goes
  <2>6. (InsideBeforeFinal /\ CodesAreReal)' BY <1>1, <1>2, <1>13 DEF InsideBeforeFinal,
    CodesAreReal, LocksHeldByCallers, Signal, cacheExitCode, closeHandles, Returns, Goes
  <2>7. (SentinelOnlyWhenLost /\ LiveChildHasOwner)' BY <1>1, <1>2, <1>13 DEF
    SentinelOnlyWhenLost, LiveChildHasOwner, CodesAreReal, BeforeReady, Signal, cacheExitCode,
    closeHandles, Returns, Goes
  <2> QED BY <2>1, <2>2, <2>3, <2>4, <2>5, <2>6, <2>7 DEF IInv, TypeOK
<1>14. CASE Reap(t)
  <2>1. SessionTypes' BY <1>2, <1>14 DEF SessionTypes, Reap, AttemptFails, TryWaitAnswers,
    cacheExitCode, closeHandles, Returns, Goes
  <2>2. (closed \in BOOLEAN)' BY <1>2, <1>14 DEF Reap, AttemptFails, TryWaitAnswers,
    cacheExitCode, closeHandles, Returns, Goes
  <2>3. ThreadTypes'
    <3>0. UNCHANGED <<childLock, op, waited, calls>> /\ 0 \in 0 .. ReapAttempts
      BY <1>14 DEF Reap
    <3>1. CASE AttemptFails(t)
      <4>1. tries[t] - 1 \in 0 .. ReapAttempts BY <1>1, <1>2, <1>14 DEF AttemptsLeft, Reap
      <4> QED BY <1>2, <1>3, <3>0, <3>1, <4>1, ReturnsEffect, GoesEffect DEF ThreadTypes, AttemptFails
    <3>2. CASE tries' = [tries EXCEPT ![t] = 0] /\ \E value \in {"ok", "error"} : Returns(t, value)
      BY <1>2, <1>3, <3>0, <3>2, ReturnsEffect DEF ThreadTypes
    <3> QED BY <1>14, <3>1, <3>2 DEF Reap
  <2>4. LocksHeldByCallers' BY <1>1, <1>2, <1>14 DEF LocksHeldByCallers, Reap, AttemptFails,
    TryWaitAnswers, cacheExitCode, closeHandles, Returns, Goes
  <2>5. (BeforeReady /\ HandlesOfOpenSession /\ AttemptsLeft)' BY <1>1, <1>2, <1>14 DEF
    BeforeReady, HandlesOfOpenSession, AttemptsLeft, Reap, AttemptFails, TryWaitAnswers,
    cacheExitCode, closeHandles, Returns, Goes
  <2>6. (InsideBeforeFinal /\ CodesAreReal)' BY <1>1, <1>2, <1>14 DEF InsideBeforeFinal,
    CodesAreReal, LocksHeldByCallers, Reap, AttemptFails, TryWaitAnswers, cacheExitCode,
    closeHandles, Returns, Goes
  <2>7. (SentinelOnlyWhenLost /\ LiveChildHasOwner)' BY <1>1, <1>2, <1>14 DEF
    SentinelOnlyWhenLost, LiveChildHasOwner, CodesAreReal, BeforeReady, Reap, AttemptFails,
    TryWaitAnswers, cacheExitCode, closeHandles, Returns, Goes
  <2> QED BY <2>1, <2>2, <2>3, <2>4, <2>5, <2>6, <2>7 DEF IInv, TypeOK
<1>15. CASE WaitFails(t)
  <2>1. SessionTypes' BY <1>2, <1>15 DEF SessionTypes, WaitFails, Returns
  <2>2. (closed \in BOOLEAN)' BY <1>2, <1>15 DEF WaitFails, Returns
  <2>3. ThreadTypes' BY <1>2, <1>3, <1>15, ReturnsEffect, GoesEffect DEF ThreadTypes, WaitFails
  <2>4. LocksHeldByCallers' BY <1>1, <1>2, <1>15 DEF LocksHeldByCallers, WaitFails, Returns
  <2>5. (BeforeReady /\ HandlesOfOpenSession /\ AttemptsLeft)' BY <1>1, <1>2, <1>15 DEF
    BeforeReady, HandlesOfOpenSession, AttemptsLeft, WaitFails, Returns
  <2>6. (InsideBeforeFinal /\ CodesAreReal)' BY <1>1, <1>2, <1>15 DEF InsideBeforeFinal,
    CodesAreReal, LocksHeldByCallers, WaitFails, Returns
  <2>7. (SentinelOnlyWhenLost /\ LiveChildHasOwner)' BY <1>1, <1>2, <1>15 DEF
    SentinelOnlyWhenLost, LiveChildHasOwner, CodesAreReal, BeforeReady, WaitFails, Returns
  <2> QED BY <2>1, <2>2, <2>3, <2>4, <2>5, <2>6, <2>7 DEF IInv, TypeOK
<1> QED BY <1>4, <1>5, <1>6, <1>7, <1>8, <1>9, <1>10, <1>11, <1>12, <1>13, <1>14, <1>15 DEF
  Step, Progress

(* Nothing changes. *)
LEMMA StutterPreserves ==
  ASSUME IInv, UNCHANGED vars
  PROVE  IInv'
BY DEF vars, processVars, innerVars, threadVars, IInv, TypeOK, SessionTypes, ThreadTypes,
       LocksHeldByCallers, SentinelOnlyWhenLost, BeforeReady, HandlesOfOpenSession,
       InsideBeforeFinal, CodesAreReal, LiveChildHasOwner, AttemptsLeft

LEMMA NextPreserves ==
  ASSUME IInv, [Next]_vars
  PROVE  IInv'
<1>1. CASE Factory \/ ProcessExits BY <1>1, SessionPreserves
<1>2. ASSUME NEW t \in Threads, Step(t) PROVE IInv' BY <1>2, StepPreserves
<1>3. ASSUME NEW t \in Threads,
             Release(t) \/ (\E o \in Op : Call(t, o)) \/ (\E u \in Threads : Share(t, u))
      PROVE  IInv'
  BY <1>3, HolderPreserves
<1>4. CASE UNCHANGED vars BY <1>4, StutterPreserves
<1>5. \A t \in Threads : MayCall[t] \subseteq Op BY PtyConstants
<1> QED BY <1>1, <1>2, <1>3, <1>4, <1>5 DEF Next, Finished

(* IInv holds in every state of every run. *)
THEOREM Invariance == Spec => []IInv
<1>1. Init => IInv BY InitEstablishes
<1>2. IInv /\ [Next]_vars => IInv' BY NextPreserves
<1> QED BY <1>1, <1>2, PTL DEF Spec

(* Every variable has its type, and no degenerate size reaches the PTY.     *)
THEOREM TypeCorrectness == Spec => []TypeOK
<1>1. IInv => TypeOK BY DEF IInv
<1> QED BY <1>1, Invariance, PTL

(* Each mutex has exactly the holder whose place in its call implies it.    *)
THEOREM MutualExclusion == Spec => []LocksHeldByCallers
<1>1. IInv => LocksHeldByCallers BY DEF IInv
<1> QED BY <1>1, Invariance, PTL

(* A session whose exit is known hands out neither reader nor writer.       *)
THEOREM KnownExitIsClosed == Spec => []ExitClosesHandles
<1>1. IInv => ExitClosesHandles BY DEF IInv, HandlesOfOpenSession, ExitClosesHandles
<1> QED BY <1>1, Invariance, PTL

(* The sentinel is answered only when the exit status was lost.             *)
THEOREM SentinelIsHonest == Spec => []SentinelOnlyWhenLost
<1>1. IInv => SentinelOnlyWhenLost BY DEF IInv
<1> QED BY <1>1, Invariance, PTL

(* A child that outlives its handle was sent its signal, or the system      *)
(* refused to.                                                              *)
THEOREM NoChildLeftBehind == Spec => []NoOrphan
<1>1. IInv => NoOrphan
  BY DEF IInv, NoOrphan, gone, LiveChildHasOwner, BeforeReady
<1> QED BY <1>1, Invariance, PTL

(* The exit code of the child, once cached, stands.                         *)
THEOREM FinalCodeIsStable == Spec => FinalExitStands
<1>1. ASSUME IInv, [Next]_vars, exitCode = "final" PROVE exitCode' = "final"
  <2>1. CASE Factory BY <1>1, <2>1
    DEF Factory, SpawnChild, SpawnFails, SpawnSucceeds, innerVars, processVars
  <2>2. CASE ProcessExits BY <1>1, <2>2 DEF ProcessExits, innerVars
  <2>3. ASSUME NEW t \in Threads, Step(t) PROVE exitCode' = "final"
    <3>1. pc[t] \notin {"refresh", "signal", "reap"}
      BY <1>1 DEF IInv, InsideBeforeFinal
    <3>2. CASE EnterRefresh(t) \/ WaitLocksChild(t) \/ WaitEnds(t) \/ WaitFails(t)
      BY <1>1, <3>2 DEF EnterRefresh, WaitLocksChild, WaitEnds, WaitFails, innerVars
    <3>3. CASE WaitRelocks(t) BY <1>1, <3>3 DEF WaitRelocks, hasFinalExit
    <3>4. CASE \E size \in Sizes : Resize(t, size)
      BY <1>1, <3>4 DEF Resize, ensureOpen, innerVars
    <3>5. CASE EnterTerminate(t) BY <1>1, <3>5 DEF EnterTerminate
    <3> QED BY <2>3, <3>1, <3>2, <3>3, <3>4, <3>5 DEF Step, Progress, RefreshFindsRunning,
              RefreshFindsExit, RefreshFails, Signal, Reap
  <2>4. ASSUME NEW t \in Threads,
               Release(t) \/ (\E o \in MayCall[t] : Call(t, o))
                          \/ (\E u \in Threads : Share(t, u))
        PROVE  exitCode' = "final"
    BY <1>1, <2>4 DEF Release, Call, Share, innerVars
  <2>5. CASE UNCHANGED vars BY <1>1, <2>5 DEF vars, innerVars
  <2> QED BY <1>1, <2>1, <2>2, <2>3, <2>4, <2>5 DEF Next, Finished
<1>2. IInv /\ [Next]_vars => [exitCode = "final" => exitCode' = "final"]_vars BY <1>1
<1> QED BY <1>2, Invariance, PTL DEF Spec, FinalExitStands

(* What a caller is told of the exit is honest and stands, whatever calls   *)
(* the threads make.                                                        *)
THEOREM HonestExit == Spec => ExitIsHonest
<1> QED BY KnownExitIsClosed, SentinelIsHonest, FinalCodeIsStable, PTL DEF ExitIsHonest

----------------------------------------------------------------------------
(* The GUI runtime.                                                        *)

(* A session that is closed, with its child signalled unless it has exited. *)
ClosedForGood == closed /\ (process = "running" => signalled # "no")

(* Nobody spawns a second child; the event loop thread has let go of its    *)
(* handle where its session is over, and calls nothing beside a new shell.  *)
HandleOfMain ==
  /\ phase = "spawning" => spawn \in {"no", "child"}
  /\ phase # "spawning" => spawn \in {"ready", "failed"}
  /\ spawn = "failed" => phase \in {"failed", "shell beside"}
  /\ phase \in {"failed", "dropped", "shell beside", "shell after"} => Main \notin holders
  /\ phase \in {"shell beside", "shell after"} => pc[Main] = "idle"

(* The close of shutdown(), from its lock to its return, and what follows.  *)
CloseUnderWay ==
  \/ pc[Main] \in {"enter", "signal"} /\ op[Main] = "close"
  \/ pc[Main] \in {"reap", "idle"} /\ ClosedForGood

ShutdownInv ==
  /\ phase \in {"closed last", "closed first"} => CloseUnderWay
  /\ phase \in {"join last", "done", "dropped", "shell after"} => ClosedForGood

GuiInv == HandleOfMain /\ ShutdownInv

----------------------------------------------------------------------------
(* The steps of the GUI runtime are steps of the handle.                    *)

LEMMA GuiStepIsStep == [GuiNext]_allVars => [Next]_vars
<1> SUFFICES ASSUME [GuiNext]_allVars PROVE [Next]_vars OBVIOUS
<1> USE GuiThreads
<1>1. \A o \in Op \ {"wait", "kill"} : Call(Main, o) => Next BY DEF Next
<1>2. Call(Waiter, "wait") => Next BY DEF Next
<1>3. \A t \in Threads : Release(t) => Next BY DEF Next
<1>4. CASE Setup
  <2>1. CASE SpawnPty BY <2>1 DEF SpawnPty, Next
  <2>2. CASE TakeReader BY <2>2, <1>1 DEF TakeReader, MainCalls, Op
  <2>3. CASE TakeWriter BY <2>3, <1>1, <1>3 DEF TakeWriter, MainCalls, Op
  <2>4. CASE SpawnPumps
    <3>1. Share(Main, Waiter) => Next BY DEF Next
    <3> QED BY <2>4, <3>1, <1>3 DEF SpawnPumps
  <2>5. CASE StartApp BY <2>5, <1>3 DEF StartApp, ptyVars
  <2> QED BY <1>4, <2>1, <2>2, <2>3, <2>4, <2>5 DEF Setup
<1>5. CASE Handlers
  BY <1>5, <1>1, <1>3 DEF Handlers, Resizes, ResizeReturns, WaitReports, ReadFailurePolls,
     ReadFailureResolved, FatalFailure, LocalShutdown, LeaveLoop, EventLoopFails, MainCalls, ptyVars, Op
<1>6. CASE Shutdown
  BY <1>6, <1>1, <1>3 DEF Shutdown, ShutdownBegins, ShutdownPolled, JoinBeforeClose, JoinPumps,
     CloseAfterJoin, CloseBeforeJoin, Closed, JoinAfterClose, DropApp, MainCalls, ptyVars, Op
<1>7. CASE FallBack BY <1>7 DEF FallBack, ptyVars
<1>8. CASE GuiFinished BY <1>8 DEF GuiFinished, allVars, ptyVars
<1>9. CASE WaitPumpWaits \/ WaitPumpEnds \/ ReaderPumpEnds \/ ReaderPumpFails
  BY <1>9, <1>2, <1>3 DEF WaitPumpWaits, WaitPumpEnds, ReaderPumpEnds, ReaderPumpFails, ptyVars
<1>10. CASE ProcessExits \/ \E t \in Threads : Step(t) BY <1>10 DEF Next
<1>11. CASE UNCHANGED allVars BY <1>11 DEF allVars, ptyVars
<1> QED BY <1>4, <1>5, <1>6, <1>7, <1>8, <1>9, <1>10, <1>11 DEF GuiNext

(* The GUI runtime uses its handle as PtyIo allows: its theorems hold here. *)
THEOREM GuiUsesHandle == GuiSpec => Spec
<1>1. GuiInit => Init BY DEF GuiInit
<1> QED BY <1>1, GuiStepIsStep, PTL DEF GuiSpec, Spec

----------------------------------------------------------------------------
(* What the steps inside a call leave of a session.                         *)

Inside == ProcessExits \/ \E t \in Threads : Step(t)

LEMMA InsideKeepsHolders == Inside => UNCHANGED <<spawn, holders>>
BY DEF Inside, ProcessExits, Step, Progress, WaitFails, EnterRefresh, RefreshFindsRunning,
   RefreshFindsExit, RefreshFails, WaitLocksChild, WaitEnds, WaitRelocks, Resize, EnterTerminate,
   Signal, Reap

(* A session that was closed stays closed, and its child signalled.         *)
LEMMA ClosedStays == Inside /\ ClosedForGood => ClosedForGood'
<1> SUFFICES ASSUME Inside, ClosedForGood PROVE ClosedForGood' OBVIOUS
<1> USE DEF ClosedForGood
<1>1. CASE ProcessExits BY <1>1 DEF ProcessExits, innerVars
<1>2. ASSUME NEW t \in Threads, Step(t) PROVE ClosedForGood'
  <2>1. CASE EnterRefresh(t) \/ RefreshFindsRunning(t) \/ RefreshFails(t)
    BY <2>1 DEF EnterRefresh, RefreshFindsRunning, RefreshFails, TryWaitAnswers, processVars, innerVars
  <2>2. CASE RefreshFindsExit(t)
    BY <2>2 DEF RefreshFindsExit, TryWaitAnswers, cacheExitCode, closeHandles
  <2>3. CASE WaitLocksChild(t) \/ WaitEnds(t) \/ WaitFails(t)
    BY <2>3 DEF WaitLocksChild, WaitEnds, WaitFails, TryWaitAnswers, processVars, innerVars
  <2>4. CASE WaitRelocks(t)
    BY <2>4 DEF WaitRelocks, cacheExitCode, closeHandles, processVars
  <2>5. CASE \E size \in Sizes : Resize(t, size)
    BY <2>5 DEF Resize, cacheExitCode, closeHandles, processVars, innerVars
  <2>6. CASE EnterTerminate(t) BY <2>6 DEF EnterTerminate, closeHandles, processVars
  <2>7. CASE Signal(t) BY <2>7 DEF Signal, cacheExitCode, closeHandles, innerVars
  <2>8. CASE Reap(t)
    BY <2>8 DEF Reap, AttemptFails, TryWaitAnswers, cacheExitCode, closeHandles
  <2> QED BY <1>2, <2>1, <2>2, <2>3, <2>4, <2>5, <2>6, <2>7, <2>8 DEF Step, Progress
<1> QED BY <1>1, <1>2 DEF Inside

(* Another thread does not move the event loop thread, which moves only     *)
(* inside a call.                                                           *)
LEMMA OthersKeepPlace ==
  ASSUME IInv, ProcessExits \/ Step(Waiter)
  PROVE  pc'[Main] = pc[Main] /\ op'[Main] = op[Main]
<1> USE GuiThreads
<1>1. pc \in [Threads -> Place] BY DEF IInv, TypeOK, ThreadTypes
<1>2. CASE ProcessExits BY <1>2 DEF ProcessExits, threadVars
<1>3. CASE Step(Waiter)
  BY <1>1, <1>3 DEF Step, Progress, WaitFails, EnterRefresh, RefreshFindsRunning, RefreshFindsExit,
     RefreshFails, WaitLocksChild, WaitEnds, WaitRelocks, Resize, EnterTerminate, Signal, Reap,
     AttemptFails, Returns, Goes, threadVars
<1> QED BY <1>2, <1>3

LEMMA IdleThreadRests == \A t \in Threads : pc[t] = "idle" => ~Step(t)
BY DEF Step, Progress, WaitFails, EnterRefresh, RefreshFindsRunning, RefreshFindsExit, RefreshFails,
   WaitLocksChild, WaitEnds, WaitRelocks, Resize, EnterTerminate, Signal, Reap

(* The close of the event loop thread never leaves its course: the child is *)
(* signalled between the lock and the return unless its exit is final.      *)
LEMMA CloseGoesOn == IInv /\ Inside /\ CloseUnderWay => CloseUnderWay'
<1> SUFFICES ASSUME IInv, Inside, CloseUnderWay PROVE CloseUnderWay' OBVIOUS
<1> USE GuiThreads
<1>0. pc \in [Threads -> Place] BY DEF IInv, TypeOK, ThreadTypes
<1>1. CASE ProcessExits \/ Step(Waiter)
  BY <1>1, OthersKeepPlace, ClosedStays DEF CloseUnderWay
<1>2. CASE Step(Main)
  <2>1. CASE pc[Main] = "enter" /\ op[Main] = "close"
    <3>1. EnterTerminate(Main)
      BY <1>2, <2>1 DEF Step, Progress, WaitFails, EnterRefresh, RefreshFindsRunning,
         RefreshFindsExit, RefreshFails, WaitLocksChild, WaitEnds, WaitRelocks, Resize, Signal, Reap
    <3>2. hasFinalExit => process # "running" BY DEF hasFinalExit, IInv, CodesAreReal
    <3> QED BY <1>0, <2>1, <3>1, <3>2 DEF EnterTerminate, closeHandles, Returns, Goes,
            CloseUnderWay, ClosedForGood, threadVars, processVars
  <2>2. CASE pc[Main] = "signal" /\ op[Main] = "close"
    <3>1. Signal(Main)
      BY <1>2, <2>2 DEF Step, Progress, WaitFails, EnterRefresh, RefreshFindsRunning,
         RefreshFindsExit, RefreshFails, WaitLocksChild, WaitEnds, WaitRelocks, Resize,
         EnterTerminate, Reap
    <3>2. closed BY <2>2 DEF IInv, HandlesOfOpenSession
    <3> QED BY <1>0, <2>2, <3>1, <3>2 DEF Signal, cacheExitCode, closeHandles, Returns, Goes,
            CloseUnderWay, ClosedForGood, innerVars
  <2>3. CASE pc[Main] \in {"reap", "idle"} /\ ClosedForGood
    <3>1. Reap(Main)
      BY <1>2, <2>3, IdleThreadRests DEF Step, Progress, WaitFails, EnterRefresh, RefreshFindsRunning,
         RefreshFindsExit, RefreshFails, WaitLocksChild, WaitEnds, WaitRelocks, Resize,
         EnterTerminate, Signal
    <3>2. pc'[Main] \in {"reap", "idle"}
      BY <1>0, <3>1 DEF Reap, AttemptFails, Returns, Goes
    <3> QED BY <2>3, <3>2, ClosedStays DEF CloseUnderWay
  <2> QED BY <2>1, <2>2, <2>3 DEF CloseUnderWay
<1> QED BY <1>1, <1>2 DEF Inside

----------------------------------------------------------------------------
(* The invariant of the GUI runtime.                                        *)

(* The steps between calls leave the session as it is.                      *)
LEMMA OutsideKeepsSession ==
  ASSUME NEW t \in Threads,
         Release(t) \/ (\E o \in Op : Call(t, o)) \/ (\E u \in Threads : Share(t, u))
  PROVE  UNCHANGED <<process, signalled, closed, spawn>>
BY DEF Release, Call, Share, processVars, innerVars

LEMMA GuiInitEstablishes == GuiInit => GuiInv
BY DEF GuiInit, Init, GuiInv, HandleOfMain, ShutdownInv

LEMMA SetupKeeps == IInv /\ GuiInv /\ Setup => GuiInv'
<1> SUFFICES ASSUME IInv, GuiInv, Setup PROVE GuiInv' OBVIOUS
<1> USE GuiThreads DEF GuiInv, HandleOfMain, ShutdownInv
<1>1. CASE SpawnPty
  BY <1>1 DEF SpawnPty, Factory, SpawnChild, SpawnFails, SpawnSucceeds, IInv, BeforeReady
<1>2. CASE TakeReader BY <1>2 DEF TakeReader, MainCalls, Call
<1>3. CASE TakeWriter BY <1>3 DEF TakeWriter, MainCalls, Call, Release, Returned
<1>4. CASE SpawnPumps BY <1>4 DEF SpawnPumps, Share, Release, Returned
<1>5. CASE StartApp BY <1>5 DEF StartApp, Release, ptyVars, vars
<1> QED BY <1>1, <1>2, <1>3, <1>4, <1>5 DEF Setup

LEMMA HandlersKeep == IInv /\ GuiInv /\ Handlers => GuiInv'
<1> SUFFICES ASSUME IInv, GuiInv, Handlers PROVE GuiInv' OBVIOUS
<1> USE GuiThreads DEF GuiInv, HandleOfMain, ShutdownInv
<1>1. CASE Resizes BY <1>1 DEF Resizes, MainCalls, Call
<1>2. CASE ResizeReturns \/ WaitReports \/ ReadFailureResolved \/ FatalFailure \/ LocalShutdown \/ LeaveLoop
  BY <1>2 DEF ResizeReturns, WaitReports, ReadFailureResolved, FatalFailure, LocalShutdown,
     LeaveLoop, Returned, ptyVars, vars
<1>3. CASE ReadFailurePolls BY <1>3 DEF ReadFailurePolls, MainCalls, Call, ptyVars, vars
<1>4. CASE EventLoopFails BY <1>4 DEF EventLoopFails, Release
<1> QED BY <1>1, <1>2, <1>3, <1>4 DEF Handlers

LEMMA ShutdownKeeps == IInv /\ GuiInv /\ Shutdown => GuiInv'
<1> SUFFICES ASSUME IInv, GuiInv, Shutdown PROVE GuiInv' OBVIOUS
<1> USE GuiThreads DEF GuiInv, HandleOfMain, ShutdownInv
<1>0. pc \in [Threads -> Place] /\ op \in [Threads -> Op \cup {"none", "drop"}]
  BY DEF IInv, TypeOK, ThreadTypes
<1>1. CASE ShutdownBegins \/ ShutdownPolled
  BY <1>1 DEF ShutdownBegins, ShutdownPolled, MainCalls, Call, Returned, ptyVars, vars
<1>2. CASE JoinBeforeClose \/ JoinAfterClose
  BY <1>2 DEF JoinBeforeClose, JoinAfterClose, JoinPumps, ptyVars, vars, ClosedForGood,
     processVars, innerVars
<1>3. CASE CloseAfterJoin \/ CloseBeforeJoin
  <2>1. Call(Main, "close") /\ phase' \in {"closed last", "closed first"}
        /\ phase \in {"close", "close, then join"}
    BY <1>3 DEF CloseAfterJoin, CloseBeforeJoin, MainCalls
  <2>2. CloseUnderWay' BY <1>0, <2>1 DEF Call, Goes, CloseUnderWay
  <2> QED BY <2>1, <2>2 DEF Call
<1>4. CASE Closed
  <2>1. ClosedForGood /\ UNCHANGED vars BY <1>4 DEF Closed, Returned, CloseUnderWay, ptyVars
  <2>2. ClosedForGood' BY <2>1 DEF ClosedForGood, vars, processVars, innerVars
  <2> QED BY <1>4, <2>1, <2>2 DEF Closed, Returned, vars
<1>5. CASE DropApp
  BY <1>5 DEF DropApp, Release, ClosedForGood, processVars, innerVars
<1> QED BY <1>1, <1>2, <1>3, <1>4, <1>5 DEF Shutdown

LEMMA RestKeeps ==
  ASSUME IInv, GuiInv,
         \/ FallBack \/ GuiFinished \/ WaitPumpWaits \/ WaitPumpEnds \/ ReaderPumpEnds
         \/ ReaderPumpFails \/ UNCHANGED allVars
  PROVE  GuiInv'
<1> USE GuiThreads DEF GuiInv, HandleOfMain, ShutdownInv
<1>0. pc \in [Threads -> Place] /\ op \in [Threads -> Op \cup {"none", "drop"}]
  BY DEF IInv, TypeOK, ThreadTypes
<1>1. CASE FallBack
  BY <1>1 DEF FallBack, Returned, ptyVars, vars, ClosedForGood, processVars, innerVars
<1>2. CASE ReaderPumpEnds \/ GuiFinished \/ UNCHANGED allVars
  <2>1. UNCHANGED vars /\ phase' = phase
    BY <1>2 DEF ReaderPumpEnds, GuiFinished, allVars, guiVars, ptyVars
  <2>2. UNCHANGED <<process, signalled, closed, spawn, holders, pc, op>>
    BY <2>1 DEF vars, processVars, innerVars, threadVars
  <2> QED BY <2>1, <2>2 DEF ClosedForGood, CloseUnderWay
<1>4. CASE ReaderPumpFails
  BY <1>4 DEF ReaderPumpFails, ptyVars, vars
<1>3. CASE WaitPumpWaits \/ WaitPumpEnds
  <2>1. UNCHANGED guiVars /\ UNCHANGED <<process, signalled, closed, spawn>>
        /\ holders' \subseteq holders /\ pc'[Main] = pc[Main] /\ op'[Main] = op[Main]
    BY <1>0, <1>3 DEF WaitPumpWaits, WaitPumpEnds, Call, Release, Goes, processVars, innerVars, guiVars
  <2> QED BY <2>1 DEF guiVars, ClosedForGood, CloseUnderWay
<1> QED BY <1>1, <1>2, <1>3, <1>4

LEMMA InsideKeeps == IInv /\ GuiInv /\ Inside /\ UNCHANGED guiVars => GuiInv'
<1> SUFFICES ASSUME IInv, GuiInv, Inside, UNCHANGED guiVars PROVE GuiInv' OBVIOUS
<1> USE GuiThreads DEF GuiInv
<1>1. UNCHANGED <<phase, spawn, holders>> BY InsideKeepsHolders DEF guiVars
<1>2. pc[Main] = "idle" => pc'[Main] = "idle"
  BY IdleThreadRests, OthersKeepPlace DEF Inside
<1>3. HandleOfMain' BY <1>1, <1>2 DEF HandleOfMain
<1>4. ShutdownInv' BY <1>1, CloseGoesOn, ClosedStays DEF ShutdownInv
<1> QED BY <1>3, <1>4

(* The invariants of the handle and of the GUI runtime hold in every state. *)
THEOREM GuiInvariance == GuiSpec => [](IInv /\ GuiInv)
<1>1. IInv /\ GuiInv /\ [GuiNext]_allVars => GuiInv'
  BY SetupKeeps, HandlersKeep, ShutdownKeeps, RestKeeps, InsideKeeps DEF GuiNext, Inside
<1>2. IInv /\ [GuiNext]_allVars => IInv' BY GuiStepIsStep, NextPreserves
<1>3. GuiInit => IInv /\ GuiInv BY InitEstablishes, GuiInitEstablishes DEF GuiInit
<1> QED BY <1>1, <1>2, <1>3, PTL DEF GuiSpec

(* However the event loop ended, shutdown() leaves a closed session and a   *)
(* child that was sent its signal, whatever the wait pump holds.            *)
THEOREM ShutdownAlwaysSignals == GuiSpec => []ShutdownSignals
<1>1. IInv /\ GuiInv => ShutdownSignals
  BY DEF GuiInv, ShutdownInv, ShutdownSignals, ClosedForGood
<1> QED BY <1>1, GuiInvariance, PTL

(* No second shell is started beside a running one that was not signalled,  *)
(* unless the wait pump alone still holds the handle of the first.          *)
THEOREM ShellIsTheOnlyOne == GuiSpec => []OneShell
<1>1. ASSUME IInv, GuiInv PROVE OneShell
  <2> SUFFICES ASSUME phase \in {"shell after", "shell beside"}, process = "running", signalled = "no"
               PROVE  phase = "shell beside" /\ (Waiter \in holders \/ pc[Waiter] # "idle")
    BY DEF OneShell
  <2> USE GuiThreads
  <2>1. phase = "shell beside" BY <1>1 DEF GuiInv, ShutdownInv, ClosedForGood
  <2>2. Main \notin holders /\ pc[Main] = "idle" /\ spawn \in {"ready", "failed"}
    BY <1>1, <2>1 DEF GuiInv, HandleOfMain
  <2>3. spawn = "ready" BY <1>1, <2>2 DEF IInv, BeforeReady
  <2>4. holders # {} \/ \E t \in Threads : pc[t] \in {"enter", "signal"} /\ op[t] = "drop"
    BY <1>1, <2>3 DEF IInv, LiveChildHasOwner
  <2>5. holders \subseteq Threads BY <1>1 DEF IInv, TypeOK, SessionTypes
  <2> QED BY <2>1, <2>2, <2>4, <2>5
<1> QED BY <1>1, GuiInvariance, PTL

=============================================================================
