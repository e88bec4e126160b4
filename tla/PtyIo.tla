------------------------------- MODULE PtyIo -------------------------------
(***************************************************************************)
(* PlatformPtyIo: the handle of a PTY and its child process, shared by the  *)
(* threads of a runtime.  One mutex guards the handle's state, a second one *)
(* the child.  wait() lets go of the state while it blocks in the child's   *)
(* wait, holding the child; every other call holds the state to its end,    *)
(* and some of them need the child meanwhile.  A poisoned mutex is not      *)
(* modelled: no call panics with one held.                                  *)
(***************************************************************************)
EXTENDS Naturals, FiniteSets

CONSTANTS
  Threads,       \* the threads that hold the handle
  MayCall,       \* what each of them calls: [Threads -> SUBSET Op]
  MaxCalls,      \* bound on the calls each of them makes
  Sizes,         \* the sizes asked for, 0 being degenerate
  ReapAttempts,  \* POST_KILL_REAP_ATTEMPTS
  Nobody         \* holder of a free mutex

Op == {"take_reader", "take_writer", "resize", "kill", "wait", "try_wait", "close"}

(* Where a thread is in its call, and what a call answers.                  *)
Place == {"idle", "enter", "refresh", "lock child", "waiting", "relock", "signal", "reap"}
Answer == {"none", "ok", "refused", "reader", "writer", "running", "unknown", "final", "error"}

ASSUME PtyConstants ==
  /\ MayCall \in [Threads -> SUBSET Op]
  /\ MaxCalls \in [Threads -> Nat]
  /\ Sizes \subseteq Nat
  /\ ReapAttempts \in Nat \ {0}
  /\ Nobody \notin Threads

VARIABLES
  \* the child process: whether it runs, waits to be reaped, was reaped through
  \* this handle or elsewhere; whether it was signalled, or could not be
  process, signalled,
  \* the factory's progress, and the threads that hold the handle
  spawn, holders,
  \* PtyInner
  exitCode, closed, reader, writer, lastSize,
  \* the holders of the two mutexes
  innerLock, childLock,
  \* each thread's place in its call, attempts left, code waited for, result,
  \* and the calls it made
  pc, op, tries, waited, result, calls

processVars == <<process, signalled>>
innerVars   == <<exitCode, closed, reader, writer, lastSize>>
threadVars  == <<op, tries, waited, calls>>
vars == <<processVars, spawn, holders, innerVars, innerLock, childLock, pc, threadVars, result>>

Init ==
  /\ process = "none" /\ signalled = "no"
  /\ spawn = "no" /\ holders = {}
  /\ exitCode = "none" /\ closed = FALSE /\ reader = "none" /\ writer = "none" /\ lastSize = 1
  /\ innerLock = Nobody /\ childLock = Nobody
  /\ pc = [t \in Threads |-> "idle"]
  /\ op = [t \in Threads |-> "none"]
  /\ tries = [t \in Threads |-> 0]
  /\ waited = [t \in Threads |-> "none"]
  /\ result = [t \in Threads |-> "none"]
  /\ calls = [t \in Threads |-> 0]

hasFinalExit == exitCode = "final"

normalizeSize(s) == IF s = 0 THEN 1 ELSE s

----------------------------------------------------------------------------
(* What becomes of the handle's state. *)

closeHandles ==
  /\ closed' = TRUE
  /\ reader' = IF reader = "held" THEN "dropped" ELSE reader
  /\ writer' = IF writer = "held" THEN "dropped" ELSE writer

cacheExitCode(code) == exitCode' = code /\ closeHandles

ensureOpen == ~closed /\ exitCode = "none"

(* A call returns: its thread lets go of the state.                         *)
Returns(t, value) ==
  /\ pc' = [pc EXCEPT ![t] = "idle"]
  /\ result' = [result EXCEPT ![t] = value]
  /\ innerLock' = IF innerLock = t THEN Nobody ELSE innerLock

Goes(t, place) == pc' = [pc EXCEPT ![t] = place] /\ UNCHANGED result

(* Child::try_wait: what it answers, and what it does to the process.  An   *)
(* error that is not a lifecycle race may come at any time.                 *)
TryWaitAnswers(answer) ==
  \/ answer = "error" /\ UNCHANGED process
  \/ answer = "running" /\ process = "running" /\ UNCHANGED process
  \/ answer = "final" /\ process \in {"zombie", "reaped"} /\ process' = "reaped"
  \/ answer = "unknown" /\ process = "lost" /\ UNCHANGED process

----------------------------------------------------------------------------
(* The factory, the process and the handle's life. *)

(* The child is spawned, then the reader and the writer are taken from the  *)
(* master; when one of them fails the child is killed and polled            *)
(* (bounded_spawn_cleanup) and no handle exists.                           *)
SpawnChild ==
  /\ spawn = "no"
  /\ spawn' = "child" /\ process' = "running"
  /\ UNCHANGED <<signalled, holders, innerVars, innerLock, childLock, pc, threadVars, result>>

SpawnFails ==
  /\ spawn' = "failed"
  /\ \/ spawn = "no" /\ UNCHANGED processVars
     \/ /\ spawn = "child" /\ signalled' \in {"yes", "refused"}
        /\ UNCHANGED process \/ (process = "zombie" /\ process' = "reaped")
  /\ UNCHANGED <<holders, innerVars, innerLock, childLock, pc, threadVars, result>>

SpawnSucceeds ==
  /\ spawn = "child" /\ spawn' = "ready"
  /\ reader' = "held" /\ writer' = "held"
  /\ \E t \in Threads : holders' = {t}
  /\ UNCHANGED <<processVars, exitCode, closed, lastSize, innerLock, childLock, pc, threadVars,
                 result>>

(* The child exits; something else in the program may reap it first.        *)
ProcessExits ==
  /\ process = "running"
  /\ process' \in {"zombie", "lost"}
  /\ UNCHANGED <<signalled, spawn, holders, innerVars, innerLock, childLock, pc, threadVars, result>>

Call(t, o) ==
  /\ pc[t] = "idle" /\ t \in holders
  /\ calls[t] < MaxCalls[t]
  /\ calls' = [calls EXCEPT ![t] = @ + 1]
  /\ Goes(t, "enter")
  /\ op' = [op EXCEPT ![t] = o]
  /\ UNCHANGED <<processVars, spawn, holders, innerVars, innerLock, childLock, tries, waited>>

(* Arc::clone, for a thread that has not had the handle yet. *)
Share(t, u) ==
  /\ pc[t] = "idle" /\ t \in holders
  /\ u \notin holders /\ calls[u] = 0
  /\ holders' = holders \cup {u}
  /\ UNCHANGED <<processVars, spawn, innerVars, innerLock, childLock, pc, threadVars, result>>

(* Drop runs in the thread that lets go of the handle last. *)
Release(t) ==
  /\ pc[t] = "idle" /\ t \in holders
  /\ holders' = holders \ {t}
  /\ IF holders = {t}
       THEN Goes(t, "enter") /\ op' = [op EXCEPT ![t] = "drop"]
       ELSE UNCHANGED <<pc, result, op>>
  /\ UNCHANGED <<processVars, spawn, innerVars, innerLock, childLock, tries, waited, calls>>

----------------------------------------------------------------------------
(* take_reader, take_writer, try_wait and the first half of wait: the state *)
(* is locked, then the child, unless a final exit code is cached.           *)

polls(t) == op[t] \in {"try_wait", "wait"}

EnterRefresh(t) ==
  /\ pc[t] = "enter" /\ op[t] \in {"take_reader", "take_writer", "try_wait", "wait"}
  /\ innerLock = Nobody
  /\ IF hasFinalExit
       THEN Returns(t, IF polls(t) THEN "final" ELSE "refused")
       ELSE innerLock' = t /\ Goes(t, "refresh")
  /\ UNCHANGED <<processVars, spawn, holders, innerVars, childLock, threadVars>>

(* The child still runs: try_wait says so, wait lets go of the state, and   *)
(* the reader and the writer are handed out once, while the session is open. *)
RefreshFindsRunning(t) ==
  /\ pc[t] = "refresh" /\ childLock = Nobody
  /\ TryWaitAnswers("running")
  /\ \/ op[t] = "try_wait" /\ Returns(t, "running") /\ UNCHANGED <<reader, writer>>
     \/ /\ op[t] = "wait" /\ Goes(t, "lock child") /\ innerLock' = Nobody
        /\ UNCHANGED <<reader, writer>>
     \/ /\ op[t] = "take_reader" /\ ensureOpen /\ reader = "held"
        /\ reader' = "taken" /\ Returns(t, "reader") /\ UNCHANGED writer
     \/ /\ op[t] = "take_writer" /\ ensureOpen /\ writer = "held"
        /\ writer' = "taken" /\ Returns(t, "writer") /\ UNCHANGED reader
     \/ /\ \/ op[t] = "take_reader" /\ ~(ensureOpen /\ reader = "held")
           \/ op[t] = "take_writer" /\ ~(ensureOpen /\ writer = "held")
        /\ Returns(t, "refused") /\ UNCHANGED <<reader, writer>>
  /\ UNCHANGED <<signalled, spawn, holders, exitCode, closed, lastSize, childLock, threadVars>>

RefreshFindsExit(t) ==
  /\ pc[t] = "refresh" /\ childLock = Nobody
  /\ \E code \in {"final", "unknown"} :
       /\ TryWaitAnswers(code)
       /\ cacheExitCode(code)
       /\ Returns(t, IF polls(t) THEN code ELSE "refused")
  /\ UNCHANGED <<signalled, spawn, holders, lastSize, childLock, threadVars>>

RefreshFails(t) ==
  /\ pc[t] = "refresh" /\ childLock = Nobody
  /\ TryWaitAnswers("error")
  /\ Returns(t, "error")
  /\ UNCHANGED <<signalled, spawn, holders, innerVars, childLock, threadVars>>

----------------------------------------------------------------------------
(* The second half of wait (wait_for_exit and what follows it). *)

WaitLocksChild(t) ==
  /\ pc[t] = "lock child" /\ childLock = Nobody
  /\ childLock' = t
  /\ Goes(t, "waiting")
  /\ UNCHANGED <<processVars, spawn, holders, innerVars, innerLock, threadVars>>

(* Mutated form: the child stays locked while the state is locked again. *)
WaitEndsHoldingChild(t) ==
  /\ pc[t] = "waiting"
  /\ \E code \in {"final", "unknown"} :
       TryWaitAnswers(code) /\ waited' = [waited EXCEPT ![t] = code]
  /\ Goes(t, "relock")
  /\ UNCHANGED <<signalled, spawn, holders, innerVars, innerLock, childLock, op, tries, calls>>

WaitEnds(t) ==
  /\ pc[t] = "waiting"
  /\ \E code \in {"final", "unknown"} :
       TryWaitAnswers(code) /\ waited' = [waited EXCEPT ![t] = code]
  /\ childLock' = Nobody
  /\ Goes(t, "relock")
  /\ UNCHANGED <<signalled, spawn, holders, innerVars, innerLock, op, tries, calls>>

WaitFails(t) ==
  /\ pc[t] = "waiting"
  /\ childLock' = Nobody
  /\ Returns(t, "error")
  /\ UNCHANGED <<processVars, spawn, holders, innerVars, threadVars>>

(* The state is locked again: a final code cached meanwhile stands.         *)
WaitRelocks(t) ==
  /\ pc[t] = "relock" /\ innerLock = Nobody
  /\ IF hasFinalExit
       THEN UNCHANGED <<exitCode, closed, reader, writer>>
       ELSE cacheExitCode(waited[t])
  /\ Returns(t, IF hasFinalExit THEN "final" ELSE waited[t])
  /\ waited' = [waited EXCEPT ![t] = "none"]
  /\ UNCHANGED <<processVars, spawn, holders, lastSize, childLock, op, tries, calls>>

----------------------------------------------------------------------------
(* resize.  A lifecycle race of the ioctl counts as the end of the session. *)

Resize(t, size) ==
  /\ pc[t] = "enter" /\ op[t] = "resize" /\ innerLock = Nobody
  /\ \/ ~ensureOpen /\ Returns(t, "refused") /\ UNCHANGED innerVars
     \/ /\ ensureOpen /\ normalizeSize(size) = lastSize
        /\ Returns(t, "ok") /\ UNCHANGED innerVars
     \/ /\ ensureOpen /\ normalizeSize(size) # lastSize
        /\ \/ lastSize' = normalizeSize(size) /\ Returns(t, "ok")
             /\ UNCHANGED <<exitCode, closed, reader, writer>>
           \/ cacheExitCode("unknown") /\ Returns(t, "ok") /\ UNCHANGED lastSize
           \/ Returns(t, "error") /\ UNCHANGED innerVars
  /\ UNCHANGED <<processVars, spawn, holders, childLock, threadVars>>

----------------------------------------------------------------------------
(* kill, close and drop: terminate_child, unless the exit is final. *)

(* Mutated form: a handle that is dropped is only closed. *)
EnterTerminateClosesOnly(t) ==
  /\ pc[t] = "enter" /\ op[t] \in {"kill", "close", "drop"} /\ innerLock = Nobody
  /\ closeHandles
  /\ IF hasFinalExit \/ op[t] = "drop"
       THEN Returns(t, "ok")
       ELSE innerLock' = t /\ Goes(t, "signal")
  /\ UNCHANGED <<processVars, spawn, holders, exitCode, lastSize, childLock, threadVars>>

(* Mutated form: the child is killed whatever is known of its exit. *)
EnterTerminateAlways(t) ==
  /\ pc[t] = "enter" /\ op[t] \in {"kill", "close", "drop"} /\ innerLock = Nobody
  /\ closeHandles
  /\ innerLock' = t /\ Goes(t, "signal")
  /\ UNCHANGED <<processVars, spawn, holders, exitCode, lastSize, childLock, threadVars>>

EnterTerminate(t) ==
  /\ pc[t] = "enter" /\ op[t] \in {"kill", "close", "drop"} /\ innerLock = Nobody
  /\ closeHandles
  /\ IF hasFinalExit
       THEN Returns(t, "ok")
       ELSE innerLock' = t /\ Goes(t, "signal")
  /\ UNCHANGED <<processVars, spawn, holders, exitCode, lastSize, childLock, threadVars>>

(* The killer sends SIGHUP, which the child may ignore.  A process that was *)
(* reaped is a lifecycle race; any other error ends the call.               *)
Signal(t) ==
  /\ pc[t] = "signal"
  /\ \/ /\ process \in {"running", "zombie"}
        /\ signalled' = "yes"
        /\ tries' = [tries EXCEPT ![t] = ReapAttempts]
        /\ Goes(t, "reap") /\ UNCHANGED <<innerVars, innerLock>>
     \/ /\ process \in {"reaped", "lost"}
        /\ cacheExitCode("unknown") /\ Returns(t, "ok")
        /\ UNCHANGED <<signalled, tries, lastSize>>
     \/ /\ signalled' = (IF signalled = "yes" THEN "yes" ELSE "refused")
        /\ Returns(t, "error") /\ UNCHANGED <<tries, innerVars>>
  /\ UNCHANGED <<process, spawn, holders, childLock, op, waited, calls>>

(* An attempt that finds the child locked or running; after the last one    *)
(* the exit is unknown.                                                     *)
AttemptFails(t) ==
  /\ tries' = [tries EXCEPT ![t] = @ - 1]
  /\ IF tries[t] > 1
       THEN Goes(t, "reap") /\ UNCHANGED <<exitCode, innerLock>>
       ELSE exitCode' = "unknown" /\ Returns(t, "ok")
  /\ UNCHANGED <<process, closed, reader, writer>>

Reap(t) ==
  /\ pc[t] = "reap"
  /\ \/ childLock # Nobody /\ AttemptFails(t)
     \/ childLock = Nobody /\ TryWaitAnswers("running") /\ AttemptFails(t)
     \/ /\ childLock = Nobody
        /\ \E code \in {"final", "unknown"} : TryWaitAnswers(code) /\ cacheExitCode(code)
        /\ tries' = [tries EXCEPT ![t] = 0] /\ Returns(t, "ok")
     \/ /\ childLock = Nobody /\ TryWaitAnswers("error")
        /\ tries' = [tries EXCEPT ![t] = 0] /\ Returns(t, "error")
        /\ UNCHANGED <<exitCode, closed, reader, writer>>
  /\ UNCHANGED <<signalled, spawn, holders, lastSize, childLock, op, waited, calls>>

----------------------------------------------------------------------------
Progress(t) ==
  \/ EnterRefresh(t) \/ RefreshFindsRunning(t) \/ RefreshFindsExit(t) \/ RefreshFails(t)
  \/ WaitLocksChild(t) \/ WaitEnds(t) \/ WaitRelocks(t)
  \/ \E size \in Sizes : Resize(t, size)
  \/ EnterTerminate(t) \/ Signal(t) \/ Reap(t)

Step(t) == Progress(t) \/ WaitFails(t)

Factory == SpawnChild \/ SpawnFails \/ SpawnSucceeds

gone == spawn \in {"ready", "failed"} /\ holders = {} /\ \A t \in Threads : pc[t] = "idle"
Finished == gone /\ UNCHANGED vars

Next ==
  \/ Factory \/ ProcessExits \/ Finished
  \/ \E t \in Threads : Step(t) \/ Release(t) \/ \E o \in MayCall[t] : Call(t, o)
  \/ \E t, u \in Threads : Share(t, u)

(* Threads inside a call are scheduled; nothing makes the child exit, or    *)
(* the wait for it fail.                                                    *)
Fairness == \A t \in Threads : WF_vars(Progress(t))

Spec == Init /\ [][Next]_vars
FairSpec == Spec /\ Fairness

----------------------------------------------------------------------------
(* Properties *)

SessionTypes ==
  /\ process \in {"none", "running", "zombie", "reaped", "lost"}
  /\ signalled \in {"no", "yes", "refused"}
  /\ spawn \in {"no", "child", "ready", "failed"} /\ holders \subseteq Threads
  /\ exitCode \in {"none", "unknown", "final"}
  /\ reader \in {"none", "held", "taken", "dropped"}
  /\ writer \in {"none", "held", "taken", "dropped"}
  /\ lastSize \in Nat \ {0}

ThreadTypes ==
  /\ innerLock \in Threads \cup {Nobody} /\ childLock \in Threads \cup {Nobody}
  /\ pc \in [Threads -> Place]
  /\ op \in [Threads -> Op \cup {"none", "drop"}]
  /\ tries \in [Threads -> 0 .. ReapAttempts]
  /\ waited \in [Threads -> {"none", "unknown", "final"}]
  /\ result \in [Threads -> Answer]
  /\ calls \in [Threads -> Nat]

(* Every variable has its type; sizes are never degenerate. *)
TypeOK == SessionTypes /\ closed \in BOOLEAN /\ ThreadTypes

(* Mutual exclusion, the way the code obtains it: each mutex has the holder *)
(* whose place in its call implies it, so two threads are never both inside *)
(* the state, nor both inside the child.                                    *)
LocksHeldByCallers ==
  /\ \A t \in Threads : pc[t] \in {"refresh", "signal", "reap"} <=> innerLock = t
  /\ \A t \in Threads : pc[t] = "waiting" <=> childLock = t

(* A session whose exit is known, even as the sentinel, is closed: neither  *)
(* the reader nor the writer can still be handed out.                       *)
ExitClosesHandles ==
  exitCode # "none" => closed /\ reader # "held" /\ writer # "held"

(* The real exit code, once cached, is never replaced: not by the sentinel  *)
(* of a kill that found no process, nor by that of a wait that lost it.     *)
FinalExitStands == [][exitCode = "final" => exitCode' = "final"]_vars

(* The sentinel a kill leaves never masks the child's exit: wait and        *)
(* try_wait answer it only when the status was lost to another reaper.      *)
SentinelOnlyWhenLost ==
  \A t \in Threads : result[t] = "unknown" => process = "lost"

(* What a caller is told of the exit, in every order of the calls: the real *)
(* code as soon as it is known and for good, the sentinel only when it was  *)
(* lost, and no handle of a session that has one of them.                   *)
ExitIsHonest == []ExitClosesHandles /\ []SentinelOnlyWhenLost /\ FinalExitStands

(* A child is never left behind unsignalled: when the handle is gone, or    *)
(* was never made, a child that still runs was sent its signal, or the      *)
(* system refused to.                                                       *)
NoOrphan == gone => process # "running" \/ signalled # "no"

(* kill, close, drop and resize are bounded: they return whether or not the *)
(* child ever exits, whatever the wait of another thread holds.             *)
TeardownReturns ==
  \A t \in Threads :
    pc[t] # "idle" /\ op[t] \in {"kill", "close", "drop", "resize"} ~> pc[t] = "idle"

(* Every call returns once the child has exited: no two threads wait for    *)
(* each other's mutex.                                                      *)
CallsReturn ==
  \A t \in Threads : pc[t] # "idle" /\ process # "running" ~> pc[t] = "idle"

----------------------------------------------------------------------------
(* The inductive invariant behind the safety properties: what holds between *)
(* the steps of the threads.                                                *)

(* Nothing is called before there is a handle. *)
BeforeReady ==
  /\ spawn # "ready" =>
       holders = {} /\ exitCode = "none" /\ ~closed /\ \A t \in Threads : pc[t] = "idle"
  /\ spawn = "no" => process = "none"
  /\ spawn = "failed" /\ process # "none" => signalled # "no"

HandlesOfOpenSession ==
  /\ exitCode # "none" => closed
  /\ closed => reader # "held" /\ writer # "held"
  /\ \A t \in Threads : pc[t] \in {"signal", "reap"} => closed

(* A thread inside the state entered it before a final exit was cached. *)
InsideBeforeFinal ==
  \A t \in Threads : pc[t] \in {"refresh", "signal", "reap"} => exitCode # "final"

CodesAreReal ==
  /\ exitCode = "final" => process = "reaped"
  /\ \A t \in Threads :
       /\ waited[t] = "final" => process = "reaped"
       /\ waited[t] = "unknown" => process = "lost"
       /\ pc[t] = "relock" => waited[t] # "none"

(* A live child that was not signalled has a holder, or a drop under way.   *)
LiveChildHasOwner ==
  spawn = "ready" /\ process = "running" /\ signalled = "no" =>
    \/ holders # {}
    \/ \E t \in Threads : pc[t] \in {"enter", "signal"} /\ op[t] = "drop"

(* A reap under way has an attempt left. *)
AttemptsLeft == \A t \in Threads : pc[t] = "reap" => tries[t] # 0

IInv ==
  /\ TypeOK /\ LocksHeldByCallers /\ SentinelOnlyWhenLost
  /\ BeforeReady /\ HandlesOfOpenSession /\ InsideBeforeFinal /\ CodesAreReal
  /\ LiveChildHasOwner /\ AttemptsLeft
=============================================================================
