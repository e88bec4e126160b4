----------------------------- MODULE OutputPump -----------------------------
(***************************************************************************)
(* The path of PTY output through the GUI runtime: the reader pump thread   *)
(* reads chunks and sends them on a bounded channel, one atomic flag        *)
(* (output_event_pending) coalesces the OutputReady wake-ups, and the event *)
(* loop thread drains the channel into the terminal, under a budget, both   *)
(* when it is woken and while it waits for the last output of an exited     *)
(* child.  Chunks are numbered in the order the PTY produced them and have  *)
(* unit length; one step of a thread is one access to state that the other  *)
(* threads can see.                                                         *)
(***************************************************************************)
EXTENDS Naturals, Sequences, FiniteSets

CONSTANTS
  MaxChunks,       \* bound on the chunks the PTY produces
  QueueCapacity,   \* PTY_OUTPUT_QUEUE_CAPACITY
  BatchMax,        \* OUTPUT_BATCH_MAX_BYTES, in chunks
  ElevatedChunks,  \* OUTPUT_DRAIN_ELEVATED_QUEUE_CHUNKS
  CriticalChunks,  \* OUTPUT_DRAIN_CRITICAL_QUEUE_CHUNKS
  NormalBudget,    \* OUTPUT_DRAIN_MAX_BYTES_PER_TICK, in chunks
  ElevatedBudget,  \* OUTPUT_DRAIN_ELEVATED_MAX_BYTES_PER_TICK, in chunks
  CriticalBudget   \* OUTPUT_DRAIN_CRITICAL_MAX_BYTES_PER_TICK, in chunks

ASSUME PumpConstants ==
  /\ MaxChunks \in Nat
  /\ {QueueCapacity, BatchMax, ElevatedChunks, CriticalChunks, NormalBudget, ElevatedBudget,
      CriticalBudget} \subseteq Nat \ {0}
  /\ NormalBudget <= ElevatedBudget /\ ElevatedBudget <= CriticalBudget

VARIABLES
  \* reader pump thread
  readerPc, inHand, produced,
  \* state the threads share
  queue, queuedChunks, pending, events,
  \* the child process and the wait pump thread
  childExited, waitPump,
  \* event loop thread: where it is, and the locals of drain_output_queue
  mainPc, caller, hand, batch, drained, budgetExhausted,
  \* the terminal, and the fields of the app that end the loop
  applied, childExitPending, deadlinePassed, exitCodeKnown, exitCause, lastWait

readerVars == <<readerPc, inHand, produced>>
sharedVars == <<queue, queuedChunks, pending, events>>
childVars  == <<childExited, waitPump>>
drainVars  == <<hand, batch, drained, budgetExhausted, applied>>
exitVars   == <<childExitPending, deadlinePassed, exitCodeKnown, exitCause, lastWait>>
vars == <<readerVars, sharedVars, childVars, mainPc, caller, drainVars, exitVars>>

Chunk == 1 .. MaxChunks
None == 0          \* no chunk

Event  == {"OutputReady", "Exited", "ReadFailure", "WaitFailure"}
Caller == {"ready", "exited", "poll", "latePoll"}
Cause  == {"none", "drained", "timeout", "local", "fatal", "disconnected"}

Init ==
  /\ readerPc = "read" /\ inHand = None /\ produced = 0
  /\ queue = <<>> /\ queuedChunks = 0 /\ pending = FALSE /\ events = <<>>
  /\ childExited = FALSE /\ waitPump = "start"
  /\ mainPc = "idle" /\ caller = "ready"
  /\ hand = None /\ batch = <<>> /\ drained = 0 /\ budgetExhausted = FALSE
  /\ applied = <<>>
  /\ childExitPending = FALSE /\ deadlinePassed = FALSE
  /\ exitCodeKnown = FALSE /\ exitCause = "none" /\ lastWait = FALSE

loopAlive == mainPc \notin {"left", "dropped"}

----------------------------------------------------------------------------
(* Reader pump thread. *)

noteEnqueue == queuedChunks + 1
noteDequeue(n) == IF n = 0 THEN 0 ELSE n - 1        \* saturating_sub

(* reader.read returns bytes; the chunk is counted before it is sent. *)
ReaderRead ==
  /\ readerPc = "read" /\ produced < MaxChunks
  /\ produced' = produced + 1
  /\ inHand' = produced + 1
  /\ queuedChunks' = noteEnqueue
  /\ readerPc' = "send"
  /\ UNCHANGED <<queue, pending, events, childVars, mainPc, caller, drainVars, exitVars>>

(* Ok(0): the end of the stream, once no process holds the slave side. *)
ReaderEof ==
  /\ readerPc = "read" /\ childExited
  /\ readerPc' = "done"
  /\ UNCHANGED <<inHand, produced, sharedVars, childVars, mainPc, caller, drainVars, exitVars>>

ReaderError ==
  /\ readerPc = "read"
  /\ readerPc' = "done"
  /\ events' = IF loopAlive THEN Append(events, "ReadFailure") ELSE events
  /\ UNCHANGED <<inHand, produced, queue, queuedChunks, pending, childVars, mainPc, caller,
                 drainVars, exitVars>>

(* The bounded channel blocks the sender while it is full. *)
ReaderSend ==
  /\ readerPc = "send" /\ mainPc # "dropped"
  /\ Len(queue) < QueueCapacity
  /\ queue' = Append(queue, inHand)
  /\ inHand' = None
  /\ readerPc' = "swap"
  /\ UNCHANGED <<produced, queuedChunks, pending, events, childVars, mainPc, caller, drainVars,
                 exitVars>>

ReaderSendDisconnected ==
  /\ readerPc = "send" /\ mainPc = "dropped"
  /\ queuedChunks' = noteDequeue(queuedChunks)
  /\ inHand' = None
  /\ readerPc' = "done"
  /\ UNCHANGED <<produced, queue, pending, events, childVars, mainPc, caller, drainVars, exitVars>>

(* output_event_pending.swap(true): only the flag's first setter wakes the loop. *)
ReaderSwap ==
  /\ readerPc = "swap"
  /\ readerPc' = IF pending THEN "read" ELSE "notify"
  /\ pending' = TRUE
  /\ UNCHANGED <<inHand, produced, queue, queuedChunks, events, childVars, mainPc, caller,
                 drainVars, exitVars>>

ReaderNotify ==
  /\ readerPc = "notify"
  /\ IF loopAlive
       THEN events' = Append(events, "OutputReady") /\ readerPc' = "read"
       ELSE UNCHANGED events /\ readerPc' = "done"
  /\ UNCHANGED <<inHand, produced, queue, queuedChunks, pending, childVars, mainPc, caller,
                 drainVars, exitVars>>

Reader ==
  \/ ReaderRead \/ ReaderEof \/ ReaderError
  \/ ReaderSend \/ ReaderSendDisconnected \/ ReaderSwap \/ ReaderNotify

----------------------------------------------------------------------------
(* The child and the wait pump thread, which reports its exit once. *)

ChildExits ==
  /\ ~childExited /\ childExited' = TRUE
  /\ UNCHANGED <<readerVars, sharedVars, waitPump, mainPc, caller, drainVars, exitVars>>

WaitBlocks ==
  /\ waitPump = "start" /\ waitPump' = "waiting"
  /\ UNCHANGED <<readerVars, sharedVars, childExited, mainPc, caller, drainVars, exitVars>>

WaitReports ==
  /\ waitPump = "waiting" /\ childExited
  /\ waitPump' = "done"
  /\ events' = IF loopAlive THEN Append(events, "Exited") ELSE events
  /\ UNCHANGED <<readerVars, queue, queuedChunks, pending, childExited, mainPc, caller, drainVars,
                 exitVars>>

WaitFails ==
  /\ waitPump # "done"
  /\ waitPump' = "done"
  /\ events' = IF loopAlive THEN Append(events, "WaitFailure") ELSE events
  /\ UNCHANGED <<readerVars, queue, queuedChunks, pending, childExited, mainPc, caller, drainVars,
                 exitVars>>

----------------------------------------------------------------------------
(* Event loop thread: the batch and the terminal. *)

shouldFlushOutputBatch(b) == b # <<>> /\ Len(b) + 1 > BatchMax

(* append_output_chunk_to_batch: what the terminal and the batch become.  A *)
(* chunk (64 KiB) never reaches the size of a batch by itself.              *)
appendedTo(chunk) ==
  IF shouldFlushOutputBatch(batch)
    THEN [applied |-> applied \o batch, batch |-> <<chunk>>]
    ELSE [applied |-> applied, batch |-> Append(batch, chunk)]

outputDrainBudget(queued) ==
  IF queued >= CriticalChunks THEN CriticalBudget
  ELSE IF queued >= ElevatedChunks THEN ElevatedBudget
  ELSE NormalBudget

RequestExit(cause) == exitCause' = IF exitCause = "none" THEN cause ELSE exitCause

(* Where drain_output_queue returns to: the child-exit callers go on to     *)
(* child_exit_drain_complete, whatever became of the drain.                *)
DrainReturns ==
  /\ mainPc' = IF caller = "ready" THEN "idle" ELSE "finished?"
  /\ hand' = None

BeginDrain(c) ==
  /\ caller' = c
  /\ mainPc' = "recv"
  /\ drained' = 0 /\ budgetExhausted' = FALSE
  /\ UNCHANGED <<hand, batch, applied>>

(* append_output_chunk_to_batch and the budget check that follows it.  The  *)
(* clock may exhaust the budget after any chunk.                           *)
KeepChunk(chunk, queued, next) ==
  /\ applied' = appendedTo(chunk).applied
  /\ batch' = appendedTo(chunk).batch
  /\ drained' = drained + 1
  /\ hand' = None
  /\ \/ /\ drained + 1 < outputDrainBudget(queued)
        /\ mainPc' = next /\ UNCHANGED budgetExhausted
     \/ mainPc' = "flush" /\ budgetExhausted' = TRUE

one(chunk) == IF chunk = None THEN <<>> ELSE <<chunk>>

(* Mutated form: the failed write does not end the loop. *)
ApplyFailsSilently(chunk, cause) ==
  /\ \E k \in 0 .. Len(batch) : applied' = applied \o SubSeq(batch, 1, k)
  /\ drained' = drained + Len(one(chunk))
  /\ DrainReturns
  /\ UNCHANGED <<batch, budgetExhausted, exitCause>>

(* A response write failed for good while bytes were applied: k chunks of   *)
(* the batch reached the terminal, the chunk taken (if any) is recycled,    *)
(* the batch is kept as it was, and the loop was asked to exit.             *)
ApplyFails(chunk, cause) ==
  /\ \E k \in 0 .. Len(batch) : applied' = applied \o SubSeq(batch, 1, k)
  /\ drained' = drained + Len(one(chunk))
  /\ RequestExit(cause)
  /\ DrainReturns
  /\ UNCHANGED <<batch, budgetExhausted>>

(* PtyIo::try_wait needs the child lock, which the wait pump holds while    *)
(* the child lives.                                                         *)
pollAnswers == childExited \/ waitPump # "waiting"

(* The failure ends the loop: with the exit code of a child that is gone,   *)
(* or as fatal.                                                             *)
FailureEnds(chunk) ==
  \/ childExited /\ exitCodeKnown' = TRUE /\ ApplyFails(chunk, "disconnected")
  \/ ApplyFails(chunk, "fatal") /\ UNCHANGED exitCodeKnown

(* A response write failed while the batch was applied.  After an error     *)
(* that speaks of a disconnect handle_pty_io_error polls the child, inside  *)
(* the drain, and may have to wait.  What the terminal was given before the *)
(* poll is counted when it is answered: no other thread sees it.            *)
WriteFails(chunk) ==
  \/ FailureEnds(chunk)
  \/ /\ ~pollAnswers
     /\ mainPc' = "polling" /\ hand' = chunk
     /\ UNCHANGED <<batch, drained, budgetExhausted, applied, exitCodeKnown, exitCause>>

DrainRecv ==
  /\ mainPc = "recv" /\ queue # <<>>
  /\ queue' = Tail(queue)
  /\ queuedChunks' = noteDequeue(queuedChunks)
  /\ \/ /\ KeepChunk(Head(queue), noteDequeue(queuedChunks), "recv")
        /\ UNCHANGED <<exitCodeKnown, exitCause>>
     \/ shouldFlushOutputBatch(batch) /\ WriteFails(Head(queue))
  /\ UNCHANGED <<readerVars, pending, events, childVars, caller, childExitPending, deadlinePassed,
                 lastWait>>

(* The flag is released only after the queue was seen empty. *)
DrainSeesEmpty ==
  /\ mainPc = "recv" /\ queue = <<>>
  /\ mainPc' = "release"
  /\ UNCHANGED <<readerVars, sharedVars, childVars, caller, drainVars, exitVars>>

DrainRelease ==
  /\ mainPc = "release"
  /\ pending' = FALSE
  /\ mainPc' = "recheck"
  /\ UNCHANGED <<readerVars, queue, queuedChunks, events, childVars, caller, drainVars, exitVars>>

(* Mutated form: the channel is not looked at again. *)
DrainRecheckSkipped ==
  /\ mainPc = "recheck" /\ mainPc' = "flush"
  /\ UNCHANGED <<readerVars, sharedVars, childVars, caller, drainVars, exitVars>>

(* Data may have arrived between the empty check and the release. *)
DrainRecheck ==
  /\ mainPc = "recheck"
  /\ IF queue = <<>>
       THEN mainPc' = "flush" /\ UNCHANGED <<queue, queuedChunks, hand>>
       ELSE /\ hand' = Head(queue) /\ queue' = Tail(queue)
            /\ queuedChunks' = noteDequeue(queuedChunks)
            /\ mainPc' = "retake"
  /\ UNCHANGED <<readerVars, pending, events, childVars, caller, batch, drained, budgetExhausted,
                 applied, exitVars>>

DrainRetake ==
  /\ mainPc = "retake"
  /\ pending' = TRUE
  /\ \/ KeepChunk(hand, queuedChunks, "recv") /\ UNCHANGED <<exitCodeKnown, exitCause>>
     \/ shouldFlushOutputBatch(batch) /\ WriteFails(hand)
  /\ UNCHANGED <<readerVars, queue, queuedChunks, events, childVars, caller, childExitPending,
                 deadlinePassed, lastWait>>

(* flush_output_batch, and the continuation event when the budget ran out. *)
FlushBatch ==
  /\ applied' = applied \o batch
  /\ batch' = <<>>
  /\ DrainReturns
  /\ events' = IF budgetExhausted THEN Append(events, "OutputReady") ELSE events
  /\ UNCHANGED <<drained, budgetExhausted, exitCodeKnown, exitCause>>

DrainFlush ==
  /\ mainPc = "flush"
  /\ \/ FlushBatch
     \/ batch # <<>> /\ WriteFails(None) /\ UNCHANGED events
  /\ UNCHANGED <<readerVars, queue, queuedChunks, pending, childVars, caller, childExitPending,
                 deadlinePassed, lastWait>>

(* The poll is answered at last.  A failure that is survived lets the drain *)
(* go on.                                                                   *)
PollOfDrain ==
  /\ mainPc = "polling" /\ pollAnswers
  /\ \/ FailureEnds(hand) /\ UNCHANGED events
     \/ /\ ~childExited /\ hand # None
        /\ KeepChunk(hand, queuedChunks, "recv")
        /\ UNCHANGED <<events, exitCodeKnown, exitCause>>
     \/ ~childExited /\ hand = None /\ FlushBatch
  /\ UNCHANGED <<readerVars, queue, queuedChunks, pending, childVars, caller, childExitPending,
                 deadlinePassed, lastWait>>

Drain ==
  \/ DrainRecv \/ DrainSeesEmpty \/ DrainRelease \/ DrainRecheck \/ DrainRetake \/ DrainFlush
  \/ PollOfDrain

----------------------------------------------------------------------------
(* Event loop thread: the handlers that drain and the ones that end it.     *)

TakeEvent(e) ==
  /\ mainPc = "idle" /\ ~lastWait
  /\ events # <<>> /\ Head(events) = e
  /\ events' = Tail(events)

BeginChildExitDrain ==
  /\ childExitPending' = TRUE
  /\ BeginDrain("exited")

HandleOutputReady ==
  /\ TakeEvent("OutputReady")
  /\ BeginDrain("ready")
  /\ UNCHANGED <<readerVars, queue, queuedChunks, pending, childVars, exitVars>>

HandleExited ==
  /\ TakeEvent("Exited")
  /\ exitCodeKnown' = TRUE
  /\ BeginChildExitDrain
  /\ UNCHANGED <<readerVars, queue, queuedChunks, pending, childVars, deadlinePassed, exitCause,
                 lastWait>>

(* A reader failure is the end of the output when the child is gone, and is *)
(* fatal when it is not or when the poll of its status fails.  That poll    *)
(* waits for the child lock too.                                            *)
HandleReadFailure ==
  /\ TakeEvent("ReadFailure")
  /\ \/ /\ exitCodeKnown \/ childExited
        /\ exitCodeKnown' = TRUE
        /\ BeginChildExitDrain
        /\ UNCHANGED exitCause
     \/ /\ ~exitCodeKnown /\ pollAnswers
        /\ RequestExit("fatal")
        /\ UNCHANGED <<mainPc, caller, drainVars, childExitPending, exitCodeKnown>>
  /\ UNCHANGED <<readerVars, queue, queuedChunks, pending, childVars, deadlinePassed, lastWait>>

HandleWaitFailure ==
  /\ TakeEvent("WaitFailure")
  /\ RequestExit("fatal")
  /\ UNCHANGED <<readerVars, queue, queuedChunks, pending, childVars, mainPc, caller, drainVars,
                 childExitPending, deadlinePassed, exitCodeKnown, lastWait>>

InputFailureEnds ==
  \/ childExited /\ exitCodeKnown' = TRUE /\ RequestExit("disconnected")
  \/ RequestExit("fatal") /\ UNCHANGED exitCodeKnown

(* What the user types could not be written: the same failure, outside a    *)
(* drain.                                                                   *)
InputWriteFails ==
  /\ mainPc = "idle" /\ ~lastWait
  /\ \/ InputFailureEnds /\ UNCHANGED mainPc
     \/ ~pollAnswers /\ mainPc' = "pollingInput" /\ UNCHANGED <<exitCodeKnown, exitCause>>
  /\ UNCHANGED <<readerVars, sharedVars, childVars, caller, drainVars, childExitPending,
                 deadlinePassed, lastWait>>

PollOfInput ==
  /\ mainPc = "pollingInput" /\ pollAnswers
  /\ mainPc' = "idle"
  /\ \/ InputFailureEnds
     \/ ~childExited /\ UNCHANGED <<exitCodeKnown, exitCause>>
  /\ UNCHANGED <<readerVars, sharedVars, childVars, caller, drainVars, childExitPending,
                 deadlinePassed, lastWait>>

(* The user closes the window or presses the local shutdown key. *)
LocalShutdown ==
  /\ mainPc = "idle" /\ exitCause = "none"
  /\ RequestExit("local")
  /\ exitCodeKnown' = TRUE
  /\ UNCHANGED <<readerVars, sharedVars, childVars, mainPc, caller, drainVars, childExitPending,
                 deadlinePassed, lastWait>>

(* about_to_wait while the last output of an exited child is awaited; once  *)
(* an exit was asked for it runs one last time.                             *)
PollChildExit ==
  /\ mainPc = "idle" /\ childExitPending /\ exitCause # "fatal" /\ ~lastWait
  /\ lastWait' = (exitCause # "none")
  /\ BeginDrain(IF deadlinePassed THEN "latePoll" ELSE "poll")
  /\ UNCHANGED <<readerVars, sharedVars, childVars, childExitPending, deadlinePassed,
                 exitCodeKnown, exitCause>>

(* Mutated form: the reader may still be at work. *)
CheckReaderIgnored ==
  /\ mainPc = "finished?" /\ mainPc' = "quiet?"
  /\ UNCHANGED <<readerVars, sharedVars, childVars, caller, drainVars, exitVars>>

(* child_exit_drain_complete reads the reader thread's end first and the    *)
(* flag second: a reader that is done has set the flag for all it sent.     *)
CheckReaderFinished ==
  /\ mainPc = "finished?"
  /\ mainPc' = IF readerPc = "done" THEN "quiet?" ELSE "incomplete"
  /\ UNCHANGED <<readerVars, sharedVars, childVars, caller, drainVars, exitVars>>

CheckQuiet ==
  /\ mainPc = "quiet?"
  /\ IF ~pending /\ batch = <<>>
       THEN /\ RequestExit("drained")
            /\ childExitPending' = FALSE /\ deadlinePassed' = FALSE
            /\ mainPc' = "idle"
       ELSE mainPc' = "incomplete" /\ UNCHANGED <<childExitPending, deadlinePassed, exitCause>>
  /\ UNCHANGED <<readerVars, sharedVars, childVars, caller, drainVars, exitCodeKnown,
                 lastWait>>

(* Mutated form: the wait for the last output has no end. *)
DrainIncompleteForever ==
  /\ mainPc = "incomplete" /\ mainPc' = "idle"
  /\ UNCHANGED <<readerVars, sharedVars, childVars, caller, drainVars, exitVars>>

DrainIncomplete ==
  /\ mainPc = "incomplete"
  /\ IF caller = "latePoll"
       THEN /\ RequestExit("timeout")
            /\ childExitPending' = FALSE /\ deadlinePassed' = FALSE
       ELSE UNCHANGED <<childExitPending, deadlinePassed, exitCause>>
  /\ mainPc' = "idle"
  /\ UNCHANGED <<readerVars, sharedVars, childVars, caller, drainVars, exitCodeKnown,
                 lastWait>>

(* CHILD_EXIT_DRAIN_MAX_WAIT has elapsed since the drain began. *)
DeadlinePasses ==
  /\ childExitPending /\ ~deadlinePassed
  /\ deadlinePassed' = TRUE
  /\ UNCHANGED <<readerVars, sharedVars, childVars, mainPc, caller, drainVars, childExitPending,
                 exitCodeKnown, exitCause, lastWait>>

(* run_app returns once an exit was asked for; what is queued is lost. *)
LeaveLoop ==
  /\ mainPc = "idle" /\ exitCause # "none"
  /\ mainPc' = "left"
  /\ events' = <<>>
  /\ UNCHANGED <<readerVars, queue, queuedChunks, pending, childVars, caller, drainVars, exitVars>>

DropApp ==
  /\ mainPc = "left"
  /\ mainPc' = "dropped"
  /\ UNCHANGED <<readerVars, sharedVars, childVars, caller, drainVars, exitVars>>

Handlers ==
  \/ HandleOutputReady \/ HandleExited \/ HandleReadFailure \/ HandleWaitFailure
  \/ PollOfInput \/ PollChildExit \/ CheckReaderFinished \/ CheckQuiet \/ DrainIncomplete
  \/ LeaveLoop \/ DropApp

Finished == mainPc = "dropped" /\ UNCHANGED vars

Next ==
  \/ Reader
  \/ ChildExits \/ WaitBlocks \/ WaitReports \/ WaitFails
  \/ Drain \/ Handlers \/ InputWriteFails \/ LocalShutdown \/ DeadlinePasses
  \/ Finished

(* The operating system runs every thread and the clock advances.  Nothing  *)
(* makes the child exit, the PTY produce, fail or end, or the user act.     *)
Fairness ==
  /\ WF_vars(Drain \/ Handlers)
  /\ WF_vars(ReaderSend \/ ReaderSendDisconnected \/ ReaderSwap \/ ReaderNotify)
  /\ WF_vars(WaitBlocks \/ WaitReports)
  /\ WF_vars(DeadlinePasses)

Spec == Init /\ [][Next]_vars
FairSpec == Spec /\ Fairness

----------------------------------------------------------------------------
(* Properties *)

upTo(n) == [i \in 1 .. n |-> i]

ReaderTypes ==
  /\ readerPc \in {"read", "send", "swap", "notify", "done"}
  /\ inHand \in Chunk \cup {None} /\ produced \in 0 .. MaxChunks
  /\ queue \in Seq(Chunk) /\ queuedChunks \in Nat
  /\ events \in Seq(Event) /\ waitPump \in {"start", "waiting", "done"}

MainTypes ==
  /\ mainPc \in {"idle", "recv", "release", "recheck", "retake", "flush", "polling",
                 "pollingInput", "finished?", "quiet?", "incomplete", "left", "dropped"}
  /\ caller \in Caller /\ exitCause \in Cause
  /\ hand \in Chunk \cup {None} /\ drained \in Nat
  /\ batch \in Seq(Chunk) /\ applied \in Seq(Chunk)

FlagTypes ==
  /\ pending \in BOOLEAN /\ childExited \in BOOLEAN /\ budgetExhausted \in BOOLEAN
  /\ childExitPending \in BOOLEAN /\ deadlinePassed \in BOOLEAN
  /\ exitCodeKnown \in BOOLEAN /\ lastWait \in BOOLEAN

(* Every variable has its type. *)
TypeOK == ReaderTypes /\ MainTypes /\ FlagTypes

(* Nothing is lost, duplicated or reordered between the PTY and the         *)
(* terminal: until the loop is asked to exit, what was applied, what is in  *)
(* the batch, in the channel and in the hands of the two threads is, in     *)
(* this order, exactly what was read.                                       *)
InOrder ==
  exitCause = "none" =>
    applied \o batch \o one(hand) \o queue \o one(inHand) = upTo(produced)

(* No wake-up is lost (the race drain_output_queue re-checks the channel    *)
(* for): when the loop is about to sleep, a raised flag has its OutputReady *)
(* event in flight, and a chunk in the channel has the flag raised or about *)
(* to be.  While a child exit is pending the loop polls instead.            *)
NoLostWakeup ==
  mainPc = "idle" /\ exitCause = "none" /\ ~childExitPending =>
    /\ pending => readerPc = "notify" \/ \E i \in DOMAIN events : events[i] = "OutputReady"
    /\ queue # <<>> => pending \/ readerPc = "swap"

(* The back-pressure counter is exact, so the drain budget it selects is    *)
(* never chosen from a counter that saturated and drifted.                  *)
QueueAccounting == queuedChunks = Len(queue) + (IF readerPc = "send" THEN 1 ELSE 0)

(* One call of drain_output_queue holds the event loop for a bounded number *)
(* of chunks, however fast the PTY produces.                                *)
DrainBounded == drained <= CriticalBudget

(* The channel is served: what is in it is counted and has a wake-up, and   *)
(* what a drain takes of it is bounded.                                     *)
QueueIsServed == NoLostWakeup /\ QueueAccounting /\ DrainBounded

(* An exit that child_exit_drain_complete asked for leaves nothing behind:  *)
(* the reader is done and the terminal has all it read.                     *)
DrainedExitIsComplete ==
  exitCause = "drained" =>
    readerPc = "done" /\ queue = <<>> /\ batch = <<>> /\ applied = upTo(produced)

(* The event loop thread is inside PtyIo::try_wait, behind the wait pump:   *)
(* after a failure of the reader or of a write.                             *)
pollBlocked ==
  /\ ~pollAnswers
  /\ \/ mainPc \in {"polling", "pollingInput"}
     \/ /\ mainPc = "idle" /\ events # <<>> /\ Head(events) = "ReadFailure"
        /\ ~exitCodeKnown

(* Every chunk read reaches the terminal unless the loop is asked to exit   *)
(* or stays blocked behind the wait pump for ever: in particular a reader   *)
(* blocked on the full channel is always released.                          *)
Delivered ==
  \A n \in Chunk :
    produced >= n ~> Len(applied) >= n \/ exitCause # "none" \/ []pollBlocked

(* The exit of the child ends the event loop, even when another process     *)
(* keeps the slave side open and the reader never sees the end.             *)
LoopEndsAfterChild == childExited ~> ~loopAlive

(* The event loop goes on: output is shown, and the exit of the child ends  *)
(* it.                                                                      *)
LoopProgresses == Delivered /\ LoopEndsAfterChild

streamEnd ==
  CASE exitCause = "none" -> "open"
    [] exitCause = "drained" -> "complete"
    [] OTHER -> "abandoned"

(* The runtime implements the ordered byte stream of OutputStream.          *)
Stream == INSTANCE OutputStream WITH delivered <- applied, ended <- streamEnd
ImplementsStream == Stream!Spec

----------------------------------------------------------------------------
(* The inductive invariant behind the safety properties. *)

wakeUpInFlight == readerPc = "notify" \/ \E i \in DOMAIN events : events[i] = "OutputReady"
holding == mainPc = "polling" /\ hand # None
draining == mainPc \in {"recv", "release", "recheck", "retake"} \/ holding

(* What the places of the two threads say about their hands and the exit.   *)
Places ==
  /\ hand # None => mainPc \in {"retake", "polling"}
  /\ mainPc = "retake" => hand # None
  /\ inHand # None <=> readerPc = "send"
  /\ ~loopAlive => exitCause # "none"
  /\ mainPc = "quiet?" => readerPc = "done"
  /\ exitCause = "drained" => hand = None
  /\ mainPc \in {"finished?", "quiet?", "incomplete"} => caller # "ready"
  /\ exitCause = "none" /\ caller # "ready" /\ mainPc \notin {"idle", "pollingInput"}
       => childExitPending

(* A raised flag has a wake-up in flight, or a drain that goes on or will be *)
(* repeated.                                                                 *)
FlagHasWakeUp ==
  exitCause = "none" /\ pending =>
    \/ wakeUpInFlight \/ childExitPending
    \/ mainPc \in {"recv", "release"} \/ holding
    \/ mainPc \in {"flush", "polling"} /\ budgetExhausted

(* A chunk in the channel has the flag raised, or about to be. *)
QueueHasFlag == queue # <<>> => pending \/ readerPc = "swap" \/ mainPc \in {"recheck", "retake"}

BudgetLeft == draining => drained < CriticalBudget

IInv ==
  /\ TypeOK /\ InOrder /\ QueueAccounting /\ DrainBounded /\ DrainedExitIsComplete
  /\ Places /\ FlagHasWakeUp /\ QueueHasFlag /\ BudgetLeft
=============================================================================
