-------------------------- MODULE OutputPump_proofs --------------------------
(***************************************************************************)
(* Theorems about the output pump, for every number of chunks, capacity,    *)
(* batch size and budget.  IInv (OutputPump) is the inductive invariant;    *)
(* there is one lemma per conjunct, over the actions that disturb it.       *)
(***************************************************************************)
EXTENDS OutputPump, SequenceTheorems, TLAPS

----------------------------------------------------------------------------
(* Sequences *)

(* A sequence is its head followed by its tail. *)
LEMMA HeadThenTail ==
  ASSUME NEW S, NEW q \in Seq(S), q # <<>>
  PROVE  /\ Head(q) \in S /\ Tail(q) \in Seq(S)
         /\ Len(q) \in Nat \ {0} /\ Len(Tail(q)) = Len(q) - 1
         /\ <<Head(q)>> \o Tail(q) = q
<1>1. /\ Head(q) \in S /\ Tail(q) \in Seq(S) /\ Len(Tail(q)) = Len(q) - 1
      /\ \A i \in 1 .. Len(Tail(q)) : Tail(q)[i] = q[i + 1]
  BY HeadTailProperties
<1>2. Len(q) \in Nat \ {0} BY EmptySeq
<1>3. <<Head(q)>> \in Seq(S) /\ Len(<<Head(q)>>) = 1 /\ <<Head(q)>>[1] = q[1] BY <1>1
<1>4. /\ <<Head(q)>> \o Tail(q) \in Seq(S)
      /\ Len(<<Head(q)>> \o Tail(q)) = Len(q)
      /\ \A i \in 1 .. Len(q) : (<<Head(q)>> \o Tail(q))[i] =
           IF i <= 1 THEN <<Head(q)>>[i] ELSE Tail(q)[i - 1]
  BY <1>1, <1>2, <1>3, ConcatProperties
<1>5. \A i \in 1 .. Len(q) : (<<Head(q)>> \o Tail(q))[i] = q[i]
  BY <1>1, <1>2, <1>3, <1>4
<1>6. <<Head(q)>> \o Tail(q) = q BY <1>4, <1>5, SeqEqual
<1> QED BY <1>1, <1>2, <1>6

(* What is appended to a sequence leaves its elements where they are. *)
LEMMA AppendKeeps ==
  ASSUME NEW S, NEW s \in Seq(S), NEW e \in S
  PROVE  /\ Append(s, e) \in Seq(S)
         /\ \A i \in DOMAIN s : i \in DOMAIN Append(s, e) /\ Append(s, e)[i] = s[i]
         /\ \E i \in DOMAIN Append(s, e) : Append(s, e)[i] = e
<1>1. Len(s) \in Nat /\ DOMAIN s = 1 .. Len(s) BY LenProperties
<1>2. Append(s, e) \in Seq(S) /\ Len(Append(s, e)) = Len(s) + 1
  BY AppendProperties
<1>3. DOMAIN Append(s, e) = 1 .. Len(s) + 1 BY <1>2, LenProperties
<1> QED BY <1>1, <1>2, <1>3, AppendProperties

(* The numbered chunks. *)
LEMMA UpToProperties ==
  ASSUME NEW n \in Nat
  PROVE  /\ upTo(n) \in Seq(Nat) /\ Len(upTo(n)) = n
         /\ \A i \in 1 .. n : upTo(n)[i] = i
         /\ upTo(n + 1) = upTo(n) \o <<n + 1>>
<1>1. \A m \in Nat : upTo(m) \in Seq(Nat) /\ Len(upTo(m)) = m /\ \A i \in 1 .. m : upTo(m)[i] = i
  BY DEF upTo
<1>2. /\ upTo(n) \o <<n + 1>> \in Seq(Nat) /\ Len(upTo(n) \o <<n + 1>>) = n + 1
      /\ \A i \in 1 .. n + 1 : (upTo(n) \o <<n + 1>>)[i] =
           IF i <= n THEN upTo(n)[i] ELSE <<n + 1>>[i - n]
  BY <1>1, ConcatProperties
<1>3. ASSUME NEW i \in 1 .. n + 1
      PROVE  upTo(n + 1)[i] = (upTo(n) \o <<n + 1>>)[i]
  <2>1. upTo(n + 1)[i] = i BY <1>1
  <2>2. CASE i <= n
    <3>1. i \in 1 .. n BY <2>2
    <3>2. upTo(n)[i] = i BY <1>1, <3>1
    <3> QED BY <1>2, <2>1, <2>2, <3>2
  <2>3. CASE i = n + 1 BY <1>2, <2>1, <2>3
  <2>4. i <= n \/ i = n + 1 BY DEF upTo
  <2> QED BY <2>2, <2>3, <2>4
<1>4. upTo(n + 1) = upTo(n) \o <<n + 1>>
  <2>1. upTo(n + 1) \in Seq(Nat) /\ Len(upTo(n + 1)) = n + 1 BY <1>1
  <2> QED BY <1>2, <1>3, <2>1, SeqEqual
<1> QED BY <1>1, <1>4

(* append_output_chunk_to_batch loses nothing: the terminal and the batch   *)
(* together grow by the chunk.                                              *)
LEMMA AppendedToGrows ==
  ASSUME NEW chunk \in Chunk, applied \in Seq(Chunk), batch \in Seq(Chunk)
  PROVE  /\ appendedTo(chunk).applied \in Seq(Chunk) /\ appendedTo(chunk).batch \in Seq(Chunk)
         /\ appendedTo(chunk).applied \o appendedTo(chunk).batch
              = (applied \o batch) \o <<chunk>>
<1>1. applied \o batch \in Seq(Chunk) /\ <<chunk>> \in Seq(Chunk)
  BY ConcatProperties
<1>2. CASE shouldFlushOutputBatch(batch)
  BY <1>1, <1>2 DEF appendedTo
<1>3. CASE ~shouldFlushOutputBatch(batch)
  <2>1. appendedTo(chunk).applied = applied /\ appendedTo(chunk).batch = Append(batch, chunk)
    BY <1>3 DEF appendedTo
  <2>2. Append(batch, chunk) \in Seq(Chunk) /\ Append(batch, chunk) = batch \o <<chunk>>
    BY AppendProperties, AppendIsConcat
  <2>3. applied \o (batch \o <<chunk>>) = (applied \o batch) \o <<chunk>>
    BY <1>1, ConcatAssociative
  <2> QED BY <2>1, <2>2, <2>3
<1> QED BY <1>2, <1>3

----------------------------------------------------------------------------
(* The conjuncts of the invariant, one lemma each. *)

LEMMA ReaderTypesKept ==
  ASSUME IInv, [Next]_vars
  PROVE  ReaderTypes'
<1> USE DEF readerVars, sharedVars, childVars, drainVars, exitVars
<1>0. /\ ReaderTypes /\ loopAlive \in BOOLEAN
      /\ inHand = None <=> readerPc # "send"
      /\ {"OutputReady", "Exited", "ReadFailure", "WaitFailure"} = Event
  BY DEF IInv, TypeOK, Places, loopAlive, Event
<1>1. CASE ReaderRead
  BY <1>0, <1>1, PumpConstants DEF ReaderTypes, ReaderRead, noteEnqueue, Chunk, None
<1>2. CASE ReaderSend
  <2>1. inHand \in Chunk /\ queue \in Seq(Chunk) BY <1>0, <1>2 DEF ReaderTypes, ReaderSend
  <2>2. Append(queue, inHand) \in Seq(Chunk) BY <2>1, AppendKeeps
  <2> QED BY <1>0, <1>2, <2>2 DEF ReaderTypes, ReaderSend
<1>3. CASE ReaderSendDisconnected
  BY <1>0, <1>3 DEF ReaderTypes, ReaderSendDisconnected, noteDequeue
<1>4. CASE ReaderNotify \/ ReaderError \/ WaitReports \/ WaitFails
  <2>1. \A e \in Event : Append(events, e) \in Seq(Event) BY <1>0, AppendKeeps DEF ReaderTypes
  <2> QED BY <1>0, <1>4, <2>1 DEF ReaderTypes, ReaderNotify, ReaderError, WaitReports, WaitFails
<1>5. CASE DrainRecv \/ DrainRecheck
  <2>1. queue # <<>> => Tail(queue) \in Seq(Chunk) BY <1>0, HeadThenTail DEF ReaderTypes
  <2>2. queuedChunks \in Nat => noteDequeue(queuedChunks) \in Nat BY DEF noteDequeue
  <2>3. CASE DrainRecv BY <1>0, <2>1, <2>2, <2>3 DEF ReaderTypes, DrainRecv
  <2>4. CASE DrainRecheck BY <1>0, <2>1, <2>2, <2>4 DEF ReaderTypes, DrainRecheck
  <2> QED BY <1>5, <2>3, <2>4
<1>6. CASE DrainFlush \/ PollOfDrain
  <2>1. Append(events, "OutputReady") \in Seq(Event) BY <1>0, AppendKeeps DEF ReaderTypes
  <2> QED BY <1>0, <1>6, <2>1 DEF ReaderTypes, DrainFlush, PollOfDrain, FlushBatch
<1>7. CASE HandleOutputReady \/ HandleExited \/ HandleReadFailure \/ HandleWaitFailure
  <2>1. events # <<>> => Tail(events) \in Seq(Event) BY <1>0, HeadThenTail DEF ReaderTypes
  <2> QED BY <1>0, <1>7, <2>1 DEF ReaderTypes, HandleOutputReady, HandleExited,
            HandleReadFailure, HandleWaitFailure, TakeEvent
<1>8. CASE ReaderEof \/ ReaderSwap \/ ChildExits \/ WaitBlocks \/ DrainSeesEmpty
           \/ DrainRelease \/ DrainRetake \/ PollOfInput \/ PollChildExit \/ CheckReaderFinished
  BY <1>0, <1>8 DEF ReaderTypes, ReaderEof, ReaderSwap, ChildExits, WaitBlocks, DrainSeesEmpty,
     DrainRelease, DrainRetake, PollOfInput, InputFailureEnds, PollChildExit, CheckReaderFinished
<1>9. CASE CheckQuiet \/ DrainIncomplete \/ DropApp \/ InputWriteFails \/ LocalShutdown
           \/ DeadlinePasses \/ UNCHANGED vars
  BY <1>0, <1>9 DEF ReaderTypes, CheckQuiet, DrainIncomplete, DropApp, InputWriteFails,
     InputFailureEnds, LocalShutdown, DeadlinePasses, vars
<1>10. CASE LeaveLoop
  <2>1. <<>> \in Seq(Event) BY EmptySeq
  <2> QED BY <1>0, <1>10, <2>1 DEF ReaderTypes, LeaveLoop
<1> QED
  BY <1>1, <1>2, <1>3, <1>4, <1>5, <1>6, <1>7, <1>8, <1>9, <1>10
  DEF Next, Reader, Drain, Handlers, Finished

(* What becomes of the batch and the terminal when a chunk is kept, or when *)
(* the bytes cannot all be applied.                                         *)
LEMMA KeepChunkTypes ==
  ASSUME MainTypes, NEW chunk \in Chunk, NEW queued, NEW next,
         KeepChunk(chunk, queued, next)
  PROVE  /\ applied' \in Seq(Chunk) /\ batch' \in Seq(Chunk)
         /\ hand' = None /\ drained' = drained + 1
         /\ mainPc' \in {next, "flush"}
         /\ applied' \o batch' = (applied \o batch) \o <<chunk>>
BY AppendedToGrows DEF MainTypes, KeepChunk

LEMMA FailureTypes ==
  ASSUME MainTypes, NEW c \in Chunk \cup {None}, FailureEnds(c)
  PROVE  /\ applied' \in Seq(Chunk) /\ UNCHANGED batch
         /\ hand' = None /\ drained' = drained + Len(one(c)) /\ drained' \in Nat
         /\ mainPc' \in {"idle", "finished?"}
         /\ exitCause' \in Cause /\ exitCause' # "none"
         /\ exitCause # "none" => exitCause' = exitCause
<1>1. PICK cause \in {"disconnected", "fatal"} : ApplyFails(c, cause)
  BY DEF FailureEnds
<1>2. PICK k \in 0 .. Len(batch) : applied' = applied \o SubSeq(batch, 1, k)
  BY <1>1 DEF ApplyFails
<1>3. Len(batch) \in Nat /\ \A i \in 1 .. k : batch[i] \in Chunk
  BY LenProperties, ElementOfSeq DEF MainTypes
<1>4. SubSeq(batch, 1, k) \in Seq(Chunk) BY <1>2, <1>3, SubSeqProperties
<1>5. applied' \in Seq(Chunk) BY <1>2, <1>4, ConcatProperties DEF MainTypes
<1>6. Len(one(c)) \in Nat /\ drained \in Nat BY EmptySeq DEF one, MainTypes
<1>7. drained' = drained + Len(one(c)) /\ drained' \in Nat BY <1>1, <1>6 DEF ApplyFails
<1>8. UNCHANGED batch /\ hand' = None /\ mainPc' \in {"idle", "finished?"}
  BY <1>1 DEF ApplyFails, DrainReturns
<1>9. exitCause' = IF exitCause = "none" THEN cause ELSE exitCause
  BY <1>1 DEF ApplyFails, RequestExit
<1>10. exitCause' \in Cause /\ exitCause' # "none" /\ (exitCause # "none" => exitCause' = exitCause)
  BY <1>9 DEF MainTypes, Cause
<1> QED BY <1>5, <1>7, <1>8, <1>10

(* A failed write ends the drain or leaves it at the poll, where the chunk  *)
(* taken is still in its hand.                                              *)
LEMMA WriteFailsCases ==
  ASSUME NEW c, WriteFails(c)
  PROVE  \/ FailureEnds(c)
         \/ /\ mainPc' = "polling" /\ hand' = c
            /\ UNCHANGED <<batch, drained, budgetExhausted, applied, exitCodeKnown, exitCause>>
BY DEF WriteFails

LEMMA MainTypesKept ==
  ASSUME IInv, [Next]_vars
  PROVE  MainTypes'
<1> USE DEF readerVars, sharedVars, childVars, drainVars, exitVars
<1>0. /\ MainTypes /\ queue \in Seq(Chunk)
      /\ queue # <<>> => Head(queue) \in Chunk
      /\ mainPc = "retake" => hand \in Chunk
      /\ hand \in Chunk \cup {None} /\ None \in Chunk \cup {None}
      /\ drained + 1 \in Nat /\ 0 \in Nat
  BY HeadThenTail DEF IInv, TypeOK, ReaderTypes, MainTypes, Places
<1>a. ASSUME NEW c \in Chunk \cup {None}, WriteFails(c), UNCHANGED caller
      PROVE  MainTypes'
  <2>1. CASE FailureEnds(c) BY <1>0, <1>a, <2>1, FailureTypes DEF MainTypes, None
  <2>2. CASE /\ mainPc' = "polling" /\ hand' = c
             /\ UNCHANGED <<batch, drained, budgetExhausted, applied, exitCodeKnown, exitCause>>
    BY <1>0, <1>a, <2>2 DEF MainTypes
  <2> QED BY <1>a, <2>1, <2>2, WriteFailsCases
<1>b. ASSUME NEW c \in Chunk, NEW queued, KeepChunk(c, queued, "recv"),
             UNCHANGED <<caller, exitCause>>
      PROVE  MainTypes'
  BY <1>0, <1>b, KeepChunkTypes DEF MainTypes
<1>c. ASSUME FlushBatch, UNCHANGED caller
      PROVE  MainTypes'
  <2>1. applied \o batch \in Seq(Chunk) /\ <<>> \in Seq(Chunk)
    BY <1>0, ConcatProperties, EmptySeq DEF MainTypes
  <2> QED BY <1>0, <1>c, <2>1 DEF MainTypes, FlushBatch, DrainReturns, None
<1>1. CASE DrainRecv
  <2>1. ASSUME NEW queued, KeepChunk(Head(queue), queued, "recv"), UNCHANGED exitCause
        PROVE  MainTypes'
    BY <1>0, <1>1, <1>b, <2>1 DEF DrainRecv
  <2>2. CASE WriteFails(Head(queue)) BY <1>0, <1>1, <1>a, <2>2 DEF DrainRecv
  <2> QED BY <1>1, <2>1, <2>2 DEF DrainRecv
<1>2. CASE DrainRecheck BY <1>0, <1>2 DEF MainTypes, DrainRecheck
<1>3. CASE DrainRetake
  <2>1. CASE KeepChunk(hand, queuedChunks, "recv") /\ UNCHANGED exitCause
    BY <1>0, <1>3, <1>b, <2>1 DEF DrainRetake
  <2>2. CASE WriteFails(hand) BY <1>0, <1>3, <1>a, <2>2 DEF DrainRetake
  <2> QED BY <1>3, <2>1, <2>2 DEF DrainRetake
<1>4. CASE DrainFlush \/ PollOfDrain
  <2>1. UNCHANGED caller BY <1>4 DEF DrainFlush, PollOfDrain
  <2>2. CASE FlushBatch BY <1>c, <2>1, <2>2
  <2>3. CASE WriteFails(None) BY <1>0, <1>a, <2>1, <2>3
  <2>4. CASE FailureEnds(hand) BY <1>0, <1>a, <2>1, <2>4 DEF WriteFails
  <2>5. CASE hand # None /\ KeepChunk(hand, queuedChunks, "recv") /\ UNCHANGED exitCause
    BY <1>0, <1>b, <2>1, <2>5
  <2> QED BY <1>4, <2>2, <2>3, <2>4, <2>5 DEF DrainFlush, PollOfDrain
<1>5. CASE HandleOutputReady \/ HandleExited \/ HandleReadFailure \/ HandleWaitFailure
           \/ PollOfInput \/ PollChildExit
  BY <1>0, <1>5 DEF MainTypes, HandleOutputReady, HandleExited, HandleReadFailure,
     HandleWaitFailure, PollOfInput, InputFailureEnds, PollChildExit, BeginChildExitDrain,
     BeginDrain, RequestExit, Caller, Cause
<1>6. CASE CheckReaderFinished \/ CheckQuiet \/ DrainIncomplete \/ LeaveLoop \/ DropApp
           \/ InputWriteFails \/ LocalShutdown \/ DeadlinePasses \/ UNCHANGED vars
  BY <1>0, <1>6 DEF MainTypes, CheckReaderFinished, CheckQuiet, DrainIncomplete, LeaveLoop,
     DropApp, InputWriteFails, InputFailureEnds, LocalShutdown, DeadlinePasses, RequestExit,
     Cause, vars
<1>7. CASE Reader \/ ChildExits \/ WaitBlocks \/ WaitReports \/ WaitFails \/ DrainSeesEmpty
           \/ DrainRelease
  BY <1>0, <1>7 DEF MainTypes, Reader, ReaderRead, ReaderEof, ReaderError, ReaderSend,
     ReaderSendDisconnected, ReaderSwap, ReaderNotify, ChildExits, WaitBlocks, WaitReports,
     WaitFails, DrainSeesEmpty, DrainRelease
<1> QED
  BY <1>1, <1>2, <1>3, <1>4, <1>5, <1>6, <1>7 DEF Next, Drain, Handlers, Finished

LEMMA FlagTypesKept ==
  ASSUME IInv, [Next]_vars
  PROVE  FlagTypes'
<1> USE DEF readerVars, sharedVars, childVars, drainVars, exitVars
<1>0. FlagTypes BY DEF IInv, TypeOK
<1>1. CASE Reader BY <1>0, <1>1 DEF FlagTypes, Reader, ReaderRead, ReaderEof, ReaderError,
  ReaderSend, ReaderSendDisconnected, ReaderSwap, ReaderNotify
<1>2. CASE ChildExits \/ WaitBlocks \/ WaitReports \/ WaitFails
  BY <1>0, <1>2 DEF FlagTypes, ChildExits, WaitBlocks, WaitReports, WaitFails
<1>3. CASE Drain BY <1>0, <1>3 DEF FlagTypes, Drain, DrainRecv, DrainSeesEmpty, DrainRelease,
  DrainRecheck, DrainRetake, DrainFlush, PollOfDrain, KeepChunk, WriteFails, FailureEnds,
  FlushBatch, ApplyFails
<1>4. CASE HandleOutputReady \/ HandleExited \/ HandleReadFailure \/ HandleWaitFailure
           \/ PollOfInput \/ PollChildExit
  BY <1>0, <1>4 DEF FlagTypes, HandleOutputReady, HandleExited, HandleReadFailure,
     HandleWaitFailure, PollOfInput, InputFailureEnds, PollChildExit, BeginChildExitDrain,
     BeginDrain
<1>5. CASE CheckReaderFinished \/ CheckQuiet \/ DrainIncomplete \/ LeaveLoop \/ DropApp
           \/ InputWriteFails \/ LocalShutdown \/ DeadlinePasses \/ UNCHANGED vars
  BY <1>0, <1>5 DEF FlagTypes, CheckReaderFinished, CheckQuiet, DrainIncomplete, LeaveLoop,
     DropApp, InputWriteFails, InputFailureEnds, LocalShutdown, DeadlinePasses, vars
<1> QED BY <1>1, <1>2, <1>3, <1>4, <1>5 DEF Next, Handlers, Finished

LEMMA QueueAccountingKept ==
  ASSUME IInv, [Next]_vars
  PROVE  QueueAccounting'
<1> USE DEF readerVars, sharedVars, childVars, drainVars, exitVars
<1>0. /\ QueueAccounting /\ queue \in Seq(Chunk) /\ queuedChunks \in Nat
      /\ Len(queue) \in Nat
      /\ queue # <<>> => Len(queue) \in Nat \ {0} /\ Len(Tail(queue)) = Len(queue) - 1
      /\ readerPc = "send" => inHand \in Chunk
      /\ mainPc \in {"recv", "recheck"} => mainPc # "dropped"
  BY HeadThenTail, LenProperties DEF IInv, TypeOK, ReaderTypes, Places
<1>1. CASE ReaderRead BY <1>0, <1>1 DEF QueueAccounting, ReaderRead, noteEnqueue
<1>2. CASE ReaderSend
  <2>1. Len(Append(queue, inHand)) = Len(queue) + 1 BY <1>0, <1>2, AppendProperties DEF ReaderSend
  <2> QED BY <1>0, <1>2, <2>1 DEF QueueAccounting, ReaderSend
<1>3. CASE ReaderSendDisconnected
  BY <1>0, <1>3 DEF QueueAccounting, ReaderSendDisconnected, noteDequeue
<1>4. CASE DrainRecv BY <1>0, <1>4 DEF QueueAccounting, DrainRecv, noteDequeue
<1>5. CASE DrainRecheck BY <1>0, <1>5 DEF QueueAccounting, DrainRecheck, noteDequeue
<1>6. CASE ReaderEof \/ ReaderError \/ ReaderSwap \/ ReaderNotify \/ ChildExits \/ WaitBlocks
           \/ WaitReports \/ WaitFails \/ DrainSeesEmpty \/ DrainRelease \/ DrainRetake
           \/ DrainFlush \/ PollOfDrain
  BY <1>0, <1>6 DEF QueueAccounting, PollOfDrain, ReaderEof, ReaderError, ReaderSwap,
     ReaderNotify, ChildExits, WaitBlocks, WaitReports, WaitFails, DrainSeesEmpty, DrainRelease,
     DrainRetake, DrainFlush
<1>7. CASE Handlers \/ InputWriteFails \/ LocalShutdown \/ DeadlinePasses \/ UNCHANGED vars
  BY <1>0, <1>7 DEF QueueAccounting, Handlers, HandleOutputReady, HandleExited, HandleReadFailure,
     HandleWaitFailure, PollOfInput, InputFailureEnds, PollChildExit, CheckReaderFinished,
     CheckQuiet, DrainIncomplete, LeaveLoop, DropApp, InputWriteFails, InputFailureEnds,
     LocalShutdown, DeadlinePasses, vars
<1> QED BY <1>1, <1>2, <1>3, <1>4, <1>5, <1>6, <1>7 DEF Next, Reader, Drain, Finished

LEMMA PlacesKept ==
  ASSUME IInv, [Next]_vars
  PROVE  Places'
<1> USE DEF readerVars, sharedVars, childVars, drainVars, exitVars, Places, loopAlive, None,
           ReaderTypes, MainTypes
<1>0. Places /\ ReaderTypes /\ MainTypes
  BY DEF IInv, TypeOK
<1>1. CASE Reader BY <1>0, <1>1 DEF Reader, ReaderRead, ReaderEof, ReaderError,
  ReaderSend, ReaderSendDisconnected, ReaderSwap, ReaderNotify
<1>2. CASE ChildExits \/ WaitBlocks \/ WaitReports \/ WaitFails
  BY <1>0, <1>2 DEF ChildExits, WaitBlocks, WaitReports, WaitFails
<1>a. /\ queue # <<>> => Head(queue) \in Chunk
      /\ exitCause = "drained" => queue = <<>>
  BY <1>0, HeadThenTail DEF IInv, DrainedExitIsComplete
<1>b. ASSUME NEW c, WriteFails(c) \/ FailureEnds(c), exitCause = "drained" => c = None,
             UNCHANGED <<readerVars, caller, childExitPending>>,
             mainPc \in {"recv", "retake", "flush", "polling"}
      PROVE  Places'
  BY <1>0, <1>b DEF WriteFails, FailureEnds, ApplyFails, DrainReturns, RequestExit
<1>3. CASE DrainRecv \/ DrainRetake \/ DrainFlush \/ PollOfDrain
  <2>1. /\ UNCHANGED <<readerVars, caller, childExitPending>>
        /\ mainPc \in {"recv", "retake", "flush", "polling"}
    BY <1>3 DEF DrainRecv, DrainRetake, DrainFlush, PollOfDrain
  <2>2. ASSUME NEW c, NEW queued, KeepChunk(c, queued, "recv"), UNCHANGED exitCause
        PROVE  Places'
    BY <1>0, <2>1, <2>2 DEF KeepChunk
  <2>3. CASE FlushBatch BY <1>0, <2>1, <2>3 DEF FlushBatch, DrainReturns
  <2>4. CASE DrainRecv /\ WriteFails(Head(queue)) BY <1>a, <1>b, <2>1, <2>4 DEF DrainRecv
  <2>5. CASE WriteFails(hand) \/ FailureEnds(hand) BY <1>0, <1>b, <2>1, <2>5
  <2>6. CASE WriteFails(None) BY <1>b, <2>1, <2>6
  <2> QED BY <1>3, <2>2, <2>3, <2>4, <2>5, <2>6 DEF DrainRecv, DrainRetake, DrainFlush, PollOfDrain
<1>4. CASE DrainRecheck
  <2>1. queue # <<>> => Head(queue) \in Chunk BY <1>0, HeadThenTail
  <2>2. exitCause = "drained" => queue = <<>> BY DEF IInv, DrainedExitIsComplete
  <2> QED BY <1>0, <1>4, <2>1, <2>2 DEF Chunk, DrainRecheck
<1>5. CASE DrainSeesEmpty \/ DrainRelease BY <1>0, <1>5 DEF DrainSeesEmpty, DrainRelease
<1>6. CASE HandleOutputReady \/ HandleExited \/ HandleReadFailure \/ HandleWaitFailure
           \/ PollOfInput \/ PollChildExit
  BY <1>0, <1>6 DEF HandleOutputReady, HandleExited, HandleReadFailure, HandleWaitFailure,
     PollOfInput, InputFailureEnds, PollChildExit, TakeEvent, BeginChildExitDrain, BeginDrain,
     RequestExit
<1>7. CASE CheckReaderFinished \/ CheckQuiet \/ DrainIncomplete \/ LeaveLoop \/ DropApp
           \/ InputWriteFails \/ LocalShutdown \/ DeadlinePasses \/ UNCHANGED vars
  BY <1>0, <1>7 DEF CheckReaderFinished, CheckQuiet, DrainIncomplete, LeaveLoop, DropApp,
     InputWriteFails, InputFailureEnds, LocalShutdown, DeadlinePasses, RequestExit, vars
<1> QED BY <1>1, <1>2, <1>3, <1>4, <1>5, <1>6, <1>7 DEF Next, Drain, Handlers, Finished

(* The drain releases the flag before it looks at the channel again.        *)
LEMMA QueueHasFlagKept ==
  ASSUME IInv, [Next]_vars
  PROVE  QueueHasFlag'
<1> USE DEF readerVars, sharedVars, childVars, drainVars, exitVars, QueueHasFlag
<1>0. /\ QueueHasFlag /\ ReaderTypes /\ MainTypes
      /\ mainPc = "quiet?" => readerPc = "done"
  BY DEF IInv, TypeOK, Places
<1>1. CASE Reader BY <1>0, <1>1 DEF Reader, ReaderRead, ReaderEof, ReaderError, ReaderSend,
  ReaderSendDisconnected, ReaderSwap, ReaderNotify
<1>2. CASE ChildExits \/ WaitBlocks \/ WaitReports \/ WaitFails
  BY <1>0, <1>2 DEF ChildExits, WaitBlocks, WaitReports, WaitFails
<1>3. CASE DrainRecv BY <1>0, <1>3 DEF DrainRecv
<1>4. CASE DrainSeesEmpty \/ DrainRelease \/ DrainRecheck \/ DrainRetake \/ DrainFlush
           \/ PollOfDrain
  BY <1>0, <1>4 DEF DrainSeesEmpty, DrainRelease, DrainRecheck, DrainRetake, DrainFlush,
     PollOfDrain
<1>5. CASE HandleOutputReady \/ HandleExited \/ HandleReadFailure \/ HandleWaitFailure
           \/ PollOfInput \/ PollChildExit
  BY <1>0, <1>5 DEF HandleOutputReady, HandleExited, HandleReadFailure, HandleWaitFailure,
     PollOfInput, InputFailureEnds, PollChildExit, TakeEvent, BeginChildExitDrain, BeginDrain
<1>6. CASE CheckReaderFinished \/ CheckQuiet \/ DrainIncomplete \/ LeaveLoop \/ DropApp
           \/ InputWriteFails \/ LocalShutdown \/ DeadlinePasses \/ UNCHANGED vars
  BY <1>0, <1>6 DEF CheckReaderFinished, CheckQuiet, DrainIncomplete, LeaveLoop, DropApp,
     InputWriteFails, InputFailureEnds, LocalShutdown, DeadlinePasses, vars
<1> QED BY <1>1, <1>2, <1>3, <1>4, <1>5, <1>6 DEF Next, Drain, Handlers, Finished

LEMMA BudgetKept ==
  ASSUME IInv, [Next]_vars
  PROVE  (BudgetLeft /\ DrainBounded)'
<1> USE DEF readerVars, sharedVars, childVars, drainVars, exitVars, BudgetLeft, DrainBounded,
           draining, holding
<1>0. /\ BudgetLeft /\ DrainBounded /\ drained \in Nat /\ 0 < CriticalBudget
      /\ CriticalBudget \in Nat /\ \A n : outputDrainBudget(n) <= CriticalBudget
      /\ \A n : outputDrainBudget(n) \in Nat
  BY PumpConstants DEF IInv, TypeOK, MainTypes, outputDrainBudget
<1>a. ASSUME NEW c, c = None \/ drained < CriticalBudget, WriteFails(c) \/ FailureEnds(c)
      PROVE  (BudgetLeft /\ DrainBounded)'
  <2>1. Len(one(c)) \in {0, 1} /\ (c = None => Len(one(c)) = 0) BY EmptySeq DEF one
  <2>2. CASE FailureEnds(c)
    <3>1. drained' = drained + Len(one(c)) /\ hand' = None
      BY <2>2 DEF FailureEnds, ApplyFails, DrainReturns
    <3>2. mainPc' \in {"idle", "finished?"}
      BY <2>2 DEF FailureEnds, ApplyFails, DrainReturns
    <3>3. CASE c = None
      <4>1. drained' = drained BY <1>0, <2>1, <3>1, <3>3
      <4> QED BY <1>0, <3>1, <3>2, <4>1
    <3>4. CASE drained < CriticalBudget
      <4>0. drained \in Nat BY <1>0
      <4>a. drained' = drained + Len(one(c)) BY <3>1
      <4>2. CASE Len(one(c)) = 0 BY <4>0, <4>2, <4>a, <1>0, <3>2, <3>4, <3>1
      <4>3. CASE Len(one(c)) = 1
        <5>1. drained' = drained + 1 BY <4>3, <4>a
        <5>2. drained + 1 <= CriticalBudget BY <1>0, <3>4, <4>0
        <5> QED BY <3>1, <3>2, <5>1, <5>2
      <4>4. Len(one(c)) = 0 \/ Len(one(c)) = 1 BY <2>1
      <4> QED BY <4>2, <4>3, <4>4
    <3> QED BY <1>a, <3>3, <3>4
  <2>3. CASE mainPc' = "polling" /\ hand' = c /\ UNCHANGED drained BY <1>0, <1>a, <2>3
  <2> QED BY <1>a, <2>2, <2>3 DEF WriteFails
<1>b. ASSUME NEW c, NEW queued, drained < CriticalBudget, KeepChunk(c, queued, "recv")
      PROVE  (BudgetLeft /\ DrainBounded)'
  BY <1>0, <1>b DEF KeepChunk
<1>1. CASE DrainRecv \/ DrainRetake
  <2>1. drained < CriticalBudget BY <1>0, <1>1 DEF DrainRecv, DrainRetake
  <2> QED BY <1>1, <1>a, <1>b, <2>1 DEF DrainRecv, DrainRetake
<1>2. CASE DrainSeesEmpty \/ DrainRelease \/ DrainRecheck
  BY <1>0, <1>2 DEF DrainSeesEmpty, DrainRelease, DrainRecheck
<1>3. CASE DrainFlush \/ PollOfDrain
  <2>1. CASE FlushBatch BY <1>0, <2>1 DEF FlushBatch, DrainReturns
  <2>2. CASE WriteFails(None) BY <1>a, <2>2
  <2>3. CASE PollOfDrain
    <3>1. hand = None \/ drained < CriticalBudget BY <1>0, <2>3 DEF PollOfDrain
    <3> QED BY <1>a, <1>b, <2>1, <2>3, <3>1 DEF PollOfDrain
  <2> QED BY <1>3, <2>1, <2>2, <2>3 DEF DrainFlush
<1>4. CASE HandleOutputReady \/ HandleExited \/ HandleReadFailure \/ HandleWaitFailure
           \/ PollOfInput \/ PollChildExit
  BY <1>0, <1>4 DEF HandleOutputReady, HandleExited, HandleReadFailure, HandleWaitFailure,
     PollOfInput, InputFailureEnds, PollChildExit, BeginChildExitDrain, BeginDrain
<1>5. CASE CheckReaderFinished \/ CheckQuiet \/ DrainIncomplete \/ LeaveLoop \/ DropApp
           \/ InputWriteFails \/ LocalShutdown \/ DeadlinePasses \/ UNCHANGED vars
  BY <1>0, <1>5 DEF CheckReaderFinished, CheckQuiet, DrainIncomplete, LeaveLoop, DropApp,
     InputWriteFails, InputFailureEnds, LocalShutdown, DeadlinePasses, vars
<1>6. CASE Reader \/ ChildExits \/ WaitBlocks \/ WaitReports \/ WaitFails
  BY <1>0, <1>6 DEF Reader, ReaderRead, ReaderEof, ReaderError, ReaderSend,
     ReaderSendDisconnected, ReaderSwap, ReaderNotify, ChildExits, WaitBlocks, WaitReports,
     WaitFails
<1> QED BY <1>1, <1>2, <1>3, <1>4, <1>5, <1>6 DEF Next, Drain, Handlers, Finished

(* A wake-up leaves the event queue only when the loop takes it. *)
LEMMA WakeUpKept ==
  ASSUME ReaderTypes, wakeUpInFlight, readerPc' = readerPc,
         \/ UNCHANGED events
         \/ \E e \in Event : events' = Append(events, e)
         \/ events # <<>> /\ Head(events) # "OutputReady" /\ events' = Tail(events)
  PROVE  wakeUpInFlight'
<1>1. CASE readerPc = "notify" BY <1>1 DEF wakeUpInFlight
<1>2. CASE \E i \in DOMAIN events : events[i] = "OutputReady"
  <2>1. PICK i \in DOMAIN events : events[i] = "OutputReady" BY <1>2
  <2>2. DOMAIN events = 1 .. Len(events) /\ Len(events) \in Nat
    BY LenProperties DEF ReaderTypes
  <2>3. CASE UNCHANGED events BY <2>1, <2>3 DEF wakeUpInFlight
  <2>4. ASSUME NEW e \in Event, events' = Append(events, e) PROVE wakeUpInFlight'
    <3>1. i \in DOMAIN Append(events, e) /\ Append(events, e)[i] = events[i]
      BY <2>1, AppendKeeps DEF ReaderTypes
    <3> QED BY <2>1, <2>4, <3>1 DEF wakeUpInFlight
  <2>5. CASE events # <<>> /\ Head(events) # "OutputReady" /\ events' = Tail(events)
    <3>1. /\ Tail(events) \in Seq(Event) /\ Len(Tail(events)) = Len(events) - 1
          /\ \A j \in 1 .. Len(Tail(events)) : Tail(events)[j] = events[j + 1]
      BY <2>5, HeadTailProperties DEF ReaderTypes
    <3>2. i # 1 BY <2>1, <2>5 DEF ReaderTypes
    <3>3. i - 1 \in 1 .. Len(Tail(events)) /\ Tail(events)[i - 1] = "OutputReady"
      BY <2>1, <2>2, <3>1, <3>2
    <3>4. i - 1 \in DOMAIN Tail(events) BY <3>1, <3>3, LenProperties
    <3> QED BY <2>5, <3>3, <3>4 DEF wakeUpInFlight
  <2> QED BY <2>3, <2>4, <2>5
<1> QED BY <1>1, <1>2 DEF wakeUpInFlight

LEMMA FlagHasWakeUpKept ==
  ASSUME IInv, [Next]_vars
  PROVE  FlagHasWakeUp'
<1> USE DEF readerVars, sharedVars, childVars, drainVars, exitVars
<1>0. /\ FlagHasWakeUp /\ ReaderTypes /\ MainTypes /\ FlagTypes /\ events \in Seq(Event)
      /\ "OutputReady" \in Event /\ "Exited" \in Event
      /\ "ReadFailure" \in Event /\ "WaitFailure" \in Event
      /\ ~loopAlive => exitCause # "none"
      /\ exitCause = "none" /\ caller # "ready" /\ mainPc \notin {"idle", "pollingInput"}
           => childExitPending
      /\ mainPc \in {"finished?", "quiet?", "incomplete"} => caller # "ready"
  BY DEF IInv, TypeOK, Places, Event, ReaderTypes
<1>1. CASE ReaderRead \/ ReaderEof \/ ReaderSend \/ ReaderSendDisconnected \/ ReaderSwap
  BY <1>0, <1>1 DEF FlagHasWakeUp, wakeUpInFlight, holding, ReaderRead, ReaderEof, ReaderSend,
     ReaderSendDisconnected, ReaderSwap
<1>2. CASE ReaderNotify
  <2>1. \E i \in DOMAIN Append(events, "OutputReady") : Append(events, "OutputReady")[i] = "OutputReady"
    BY <1>0, AppendKeeps
  <2> QED BY <1>0, <1>2, <2>1 DEF FlagHasWakeUp, wakeUpInFlight, ReaderNotify
<1>3. CASE ReaderError \/ WaitReports \/ WaitFails \/ ChildExits \/ WaitBlocks
  <2>1. /\ UNCHANGED <<pending, exitCause, childExitPending, mainPc, hand, budgetExhausted>>
        /\ \/ UNCHANGED events
           \/ \E e \in Event : events' = Append(events, e)
    BY <1>0, <1>3 DEF ReaderError, WaitReports, WaitFails, ChildExits, WaitBlocks
  <2>2. wakeUpInFlight => wakeUpInFlight'
    <3>1. CASE readerPc' = readerPc BY <1>0, <2>1, <3>1, WakeUpKept
    <3>2. CASE ReaderError
      <4>1. wakeUpInFlight => \E i \in DOMAIN events : events[i] = "OutputReady"
        BY <3>2 DEF wakeUpInFlight, ReaderError
      <4>2. ASSUME NEW e \in Event, NEW i \in DOMAIN events
            PROVE  i \in DOMAIN Append(events, e) /\ Append(events, e)[i] = events[i]
        BY <1>0, AppendKeeps
      <4> QED BY <2>1, <4>1, <4>2 DEF wakeUpInFlight
    <3> QED BY <1>3, <3>1, <3>2 DEF WaitReports, WaitFails, ChildExits, WaitBlocks
  <2> QED BY <1>0, <2>1, <2>2 DEF FlagHasWakeUp, holding
<1>a. ASSUME NEW c, WriteFails(c) \/ FailureEnds(c), exitCause' = "none",
             c # None \/ ~pending' \/ budgetExhausted
      PROVE  FlagHasWakeUp'
  BY <1>a DEF FlagHasWakeUp, holding, WriteFails, FailureEnds, ApplyFails, RequestExit
<1>b. ASSUME NEW c, NEW queued, KeepChunk(c, queued, "recv")
      PROVE  FlagHasWakeUp'
  BY <1>b DEF FlagHasWakeUp, KeepChunk
<1>4. CASE DrainSeesEmpty \/ DrainRelease \/ DrainRecheck
  BY <1>0, <1>4 DEF FlagHasWakeUp, wakeUpInFlight, holding, DrainSeesEmpty, DrainRelease,
     DrainRecheck
<1>c. CASE DrainRecv \/ DrainRetake
  <2>1. DrainRecv => Head(queue) # None
    <3>1. queue # <<>> => Head(queue) \in Chunk BY <1>0, HeadThenTail DEF ReaderTypes
    <3>2. 0 \notin Chunk BY DEF Chunk
    <3> QED BY <3>1, <3>2 DEF DrainRecv, None
  <2>2. DrainRetake => hand # None BY DEF IInv, Places, DrainRetake
  <2>3. CASE exitCause' # "none" BY <2>3 DEF FlagHasWakeUp
  <2>4. CASE exitCause' = "none"
    BY <1>a, <1>b, <1>c, <2>1, <2>2, <2>4 DEF DrainRecv, DrainRetake
  <2> QED BY <2>3, <2>4
<1>5. CASE DrainFlush \/ PollOfDrain
  <2>1. \E i \in DOMAIN Append(events, "OutputReady") : Append(events, "OutputReady")[i] = "OutputReady"
    BY <1>0, AppendKeeps
  <2>2. CASE FailureEnds(None) \/ FailureEnds(hand)
    BY <2>2 DEF FlagHasWakeUp, FailureEnds, ApplyFails, RequestExit
  <2>5. CASE KeepChunk(hand, queuedChunks, "recv") BY <1>b, <2>5
  <2>6. CASE DrainFlush /\ mainPc' = "polling" /\ UNCHANGED <<events, budgetExhausted, exitCause>>
    BY <1>0, <2>6 DEF FlagHasWakeUp, wakeUpInFlight, holding, DrainFlush
  <2>3. CASE budgetExhausted /\ events' = Append(events, "OutputReady")
    BY <2>1, <2>3 DEF FlagHasWakeUp, wakeUpInFlight
  <2>4. CASE ~budgetExhausted /\ UNCHANGED <<events, exitCause>> /\ hand = None
    BY <1>0, <1>5, <2>4 DEF FlagHasWakeUp, wakeUpInFlight, holding, DrainFlush, PollOfDrain
  <2>7. DrainFlush => hand = None BY DEF IInv, Places, DrainFlush
  <2> QED BY <1>5, <2>2, <2>3, <2>4, <2>5, <2>6, <2>7
          DEF DrainFlush, PollOfDrain, WriteFails, FlushBatch
<1>6. CASE HandleOutputReady BY <1>0, <1>6 DEF FlagHasWakeUp, HandleOutputReady, BeginDrain
<1>7. CASE HandleExited \/ HandleReadFailure \/ HandleWaitFailure
  BY <1>0, <1>7 DEF FlagHasWakeUp, HandleExited, HandleReadFailure, HandleWaitFailure,
     BeginChildExitDrain, RequestExit
<1>8. CASE PollOfInput \/ PollChildExit \/ CheckReaderFinished \/ CheckQuiet \/ DrainIncomplete
  BY <1>0, <1>8 DEF FlagHasWakeUp, wakeUpInFlight, holding, PollOfInput, InputFailureEnds,
     PollChildExit, BeginDrain, CheckReaderFinished, CheckQuiet, DrainIncomplete, RequestExit
<1>9. CASE LeaveLoop \/ DropApp \/ InputWriteFails \/ LocalShutdown \/ DeadlinePasses
           \/ UNCHANGED vars
  BY <1>0, <1>9 DEF FlagHasWakeUp, wakeUpInFlight, holding, loopAlive, LeaveLoop, DropApp,
     InputWriteFails, InputFailureEnds, LocalShutdown, DeadlinePasses, RequestExit, vars
<1> QED BY <1>1, <1>2, <1>3, <1>4, <1>c, <1>5, <1>6, <1>7, <1>8, <1>9
        DEF Next, Reader, Drain, Handlers, Finished

(* The cause the loop was first asked to exit for stands. *)
LEMMA ExitCauseStands ==
  ASSUME IInv, [Next]_vars, exitCause # "none"
  PROVE  exitCause' = exitCause
BY DEF Next, Reader, ReaderRead, ReaderEof, ReaderError, ReaderSend, ReaderSendDisconnected,
   ReaderSwap, ReaderNotify, ChildExits, WaitBlocks, WaitReports, WaitFails, Drain, DrainRecv,
   DrainSeesEmpty, DrainRelease, DrainRecheck, DrainRetake, DrainFlush, PollOfDrain, WriteFails,
   FailureEnds, FlushBatch, ApplyFails, Handlers, HandleOutputReady, HandleExited,
   HandleReadFailure, HandleWaitFailure, PollOfInput, InputFailureEnds, PollChildExit,
   CheckReaderFinished, CheckQuiet, DrainIncomplete, LeaveLoop, DropApp, InputWriteFails,
   InputFailureEnds, LocalShutdown, DeadlinePasses, RequestExit, Finished, vars, exitVars

(* Taking the head of the channel keeps the order. *)
LEMMA TakeKeepsOrder ==
  ASSUME NEW S, NEW x \in Seq(S), NEW q \in Seq(S), q # <<>>
  PROVE  (x \o <<Head(q)>>) \o Tail(q) = x \o q
<1>1. Head(q) \in S /\ Tail(q) \in Seq(S) /\ <<Head(q)>> \o Tail(q) = q BY HeadThenTail
<1>2. <<Head(q)>> \in Seq(S) BY <1>1
<1>3. (x \o <<Head(q)>>) \o Tail(q) = x \o (<<Head(q)>> \o Tail(q))
  BY <1>1, <1>2, ConcatAssociative
<1> QED BY <1>1, <1>3

(* The chunks on their way, in order: the terminal and the batch, the hand  *)
(* of the drain, the channel, the hand of the reader.                       *)
LEMMA InOrderKept ==
  ASSUME IInv, [Next]_vars
  PROVE  InOrder'
<1> USE DEF readerVars, sharedVars, childVars, drainVars, exitVars
<1> DEFINE done == applied \o batch
           path == ((done \o one(hand)) \o queue) \o one(inHand)
<1>0. /\ applied \in Seq(Chunk) /\ batch \in Seq(Chunk) /\ queue \in Seq(Chunk)
      /\ hand \in Chunk \cup {None} /\ inHand \in Chunk \cup {None} /\ produced \in Nat
      /\ InOrder /\ MainTypes
      /\ mainPc \notin {"retake", "polling"} => hand = None
      /\ mainPc = "retake" => hand \in Chunk
      /\ readerPc # "send" => inHand = None
      /\ readerPc = "send" => inHand \in Chunk
      /\ ~loopAlive => exitCause # "none"
  BY DEF IInv, TypeOK, ReaderTypes, MainTypes, Places
<1>1. one(None) = <<>> /\ \A c \in Chunk : one(c) = <<c>> /\ one(c) \in Seq(Chunk)
  <2>1. None \notin Chunk BY DEF Chunk, None
  <2> QED BY <2>1 DEF one
<1>2. one(hand) \in Seq(Chunk) /\ one(inHand) \in Seq(Chunk) BY <1>0, <1>1, EmptySeq
<1>3. done \in Seq(Chunk) BY <1>0, ConcatProperties
<1>4. done \o one(hand) \in Seq(Chunk) BY <1>2, <1>3, ConcatProperties
<1>5. (done \o one(hand)) \o queue \in Seq(Chunk) BY <1>0, <1>4, ConcatProperties
<1>6. exitCause = "none" => path = upTo(produced) BY <1>0 DEF InOrder
<1>7. SUFFICES ASSUME exitCause = "none", exitCause' = "none"
               PROVE  path' = upTo(produced')
  <2>1. exitCause' = "none" => exitCause = "none" BY ExitCauseStands
  <2> QED BY <2>1 DEF InOrder
<1>a. ASSUME NEW c \in Chunk \cup {None}, FailureEnds(c)
      PROVE  FALSE
  BY <1>0, <1>7, <1>a, FailureTypes
<1>b. ASSUME NEW c \in Chunk \cup {None}, WriteFails(c)
      PROVE  hand' = c /\ UNCHANGED done
  BY <1>a, <1>b, WriteFailsCases
<1>8. CASE ReaderRead
  <2>1. inHand = None /\ inHand' = produced + 1 /\ produced' = produced + 1
    BY <1>0, <1>8 DEF ReaderRead
  <2>2. UNCHANGED <<done, hand, queue>> BY <1>8 DEF ReaderRead
  <2>3. path = (done \o one(hand)) \o queue BY <1>1, <1>5, <2>1, ConcatEmptySeq
  <2>4. one(produced + 1) = <<produced + 1>> BY <1>0 DEF one, None
  <2>5. path' = path \o <<produced + 1>> BY <2>1, <2>2, <2>3, <2>4
  <2> QED BY <1>0, <1>6, <1>7, <2>1, <2>5, UpToProperties
<1>9. CASE ReaderSend
  <2>1. inHand \in Chunk /\ inHand' = None /\ queue' = Append(queue, inHand)
    BY <1>0, <1>9 DEF ReaderSend
  <2>2. UNCHANGED <<done, hand, produced>> BY <1>9 DEF ReaderSend
  <2>3. <<inHand>> \in Seq(Chunk) BY <2>1
  <2>4. Append(queue, inHand) = queue \o <<inHand>> BY <1>0, <2>1, AppendIsConcat
  <2>5. (done \o one(hand)) \o (queue \o <<inHand>>) = ((done \o one(hand)) \o queue) \o <<inHand>>
    BY <1>0, <1>4, <2>3, ConcatAssociative
  <2>6. ((done \o one(hand)) \o queue) \o <<inHand>> \in Seq(Chunk)
    BY <1>5, <2>3, ConcatProperties
  <2>7. path' = ((done \o one(hand)) \o queue) \o <<inHand>>
    BY <1>1, <2>1, <2>2, <2>4, <2>5, <2>6, ConcatEmptySeq
  <2> QED BY <1>1, <1>6, <1>7, <2>1, <2>2, <2>7
<1>10. CASE DrainRecv
  <2>2. hand = None /\ queue # <<>> /\ queue' = Tail(queue) /\ UNCHANGED <<inHand, produced>>
    BY <1>0, <1>10 DEF DrainRecv
  <2>3. Head(queue) \in Chunk BY <1>0, <2>2, HeadThenTail
  <2>5. done \o <<Head(queue)>> \in Seq(Chunk) BY <1>3, <2>3, ConcatProperties
  <2>4. done' \o one(hand') = done \o <<Head(queue)>>
    <3>1. ASSUME NEW queued, KeepChunk(Head(queue), queued, "recv")
          PROVE  done' \o one(hand') = done \o <<Head(queue)>>
      <4>1. hand' = None /\ done' = done \o <<Head(queue)>>
        BY <1>0, <2>3, <3>1, KeepChunkTypes
      <4>2. (done \o <<Head(queue)>>) \o <<>> = done \o <<Head(queue)>>
        BY <2>5, ConcatEmptySeq
      <4> QED BY <1>1, <4>1, <4>2
    <3>2. CASE WriteFails(Head(queue)) BY <1>1, <1>b, <2>3, <3>2
    <3> QED BY <1>10, <3>1, <3>2 DEF DrainRecv
  <2>6. path' = ((done \o <<Head(queue)>>) \o Tail(queue)) \o one(inHand)
    BY <2>2, <2>4
  <2>7. path = (done \o queue) \o one(inHand) BY <1>1, <1>3, <2>2, ConcatEmptySeq
  <2> QED BY <1>0, <1>3, <1>6, <1>7, <2>2, <2>6, <2>7, TakeKeepsOrder
<1>11. CASE DrainRecheck
  <2>1. hand = None /\ UNCHANGED <<done, inHand, produced>> BY <1>0, <1>11 DEF DrainRecheck
  <2>2. CASE queue = <<>> BY <1>6, <1>7, <1>11, <2>1, <2>2 DEF DrainRecheck
  <2>3. CASE queue # <<>>
    <3>1. Head(queue) \in Chunk BY <1>0, <2>3, HeadThenTail
    <3>2. path' = ((done \o <<Head(queue)>>) \o Tail(queue)) \o one(inHand)
      BY <1>1, <1>11, <2>1, <2>3, <3>1 DEF DrainRecheck
    <3>3. path = (done \o queue) \o one(inHand) BY <1>1, <1>3, <2>1, ConcatEmptySeq
    <3> QED BY <1>0, <1>3, <1>6, <1>7, <2>1, <2>3, <3>2, <3>3, TakeKeepsOrder
  <2> QED BY <2>2, <2>3
<1>c. ASSUME hand \in Chunk, KeepChunk(hand, queuedChunks, "recv")
      PROVE  done' \o one(hand') = done \o one(hand)
  <2>1. hand' = None /\ done' = done \o <<hand>> BY <1>0, <1>c, KeepChunkTypes
  <2>2. done \o <<hand>> \in Seq(Chunk) BY <1>3, <1>c, ConcatProperties
  <2> QED BY <1>1, <1>c, <2>1, <2>2, ConcatEmptySeq
<1>d. ASSUME hand = None, FlushBatch
      PROVE  done' \o one(hand') = done \o one(hand)
  <2>1. applied' = done /\ batch' = <<>> /\ hand' = None
    BY <1>d DEF FlushBatch, DrainReturns
  <2>2. done' = done BY <1>3, <2>1, ConcatEmptySeq
  <2> QED BY <1>d, <2>1, <2>2
<1>12. CASE DrainRetake
  <2>1. UNCHANGED <<queue, inHand, produced>> /\ hand \in Chunk BY <1>0, <1>12 DEF DrainRetake
  <2>2. CASE KeepChunk(hand, queuedChunks, "recv") BY <1>6, <1>7, <1>c, <2>1, <2>2
  <2>3. CASE WriteFails(hand) BY <1>6, <1>7, <1>b, <2>1, <2>3
  <2> QED BY <1>12, <2>2, <2>3 DEF DrainRetake
<1>13. CASE DrainFlush \/ PollOfDrain
  <2>1. UNCHANGED <<queue, inHand, produced>> BY <1>13 DEF DrainFlush, PollOfDrain
  <2>2. CASE DrainFlush
    <3>1. hand = None BY <1>0, <2>2 DEF DrainFlush
    <3>2. CASE FlushBatch BY <1>6, <1>7, <1>d, <2>1, <3>1, <3>2
    <3>3. CASE WriteFails(None) BY <1>0, <1>6, <1>7, <1>b, <2>1, <3>1, <3>3
    <3> QED BY <2>2, <3>2, <3>3 DEF DrainFlush
  <2>3. CASE PollOfDrain
    <3>1. ~FailureEnds(hand) BY <1>0, <1>a
    <3>2. CASE hand # None /\ KeepChunk(hand, queuedChunks, "recv")
      BY <1>0, <1>6, <1>7, <1>c, <2>1, <3>2
    <3>3. CASE hand = None /\ FlushBatch BY <1>6, <1>7, <1>d, <2>1, <3>3
    <3> QED BY <2>3, <3>1, <3>2, <3>3 DEF PollOfDrain
  <2> QED BY <1>13, <2>2, <2>3
<1>14. CASE ReaderSendDisconnected
  BY <1>0, <1>7, <1>14 DEF ReaderSendDisconnected, loopAlive
<1>15. CASE ReaderEof \/ ReaderError \/ ReaderSwap \/ ReaderNotify \/ ChildExits \/ WaitBlocks
            \/ WaitReports \/ WaitFails \/ DrainSeesEmpty \/ DrainRelease
  BY <1>6, <1>7, <1>15 DEF ReaderEof, ReaderError, ReaderSwap, ReaderNotify, ChildExits,
     WaitBlocks, WaitReports, WaitFails, DrainSeesEmpty, DrainRelease
<1>16. CASE Handlers \/ InputWriteFails \/ LocalShutdown \/ DeadlinePasses \/ UNCHANGED vars
  BY <1>6, <1>7, <1>16 DEF Handlers, HandleOutputReady, HandleExited, HandleReadFailure,
     HandleWaitFailure, PollOfInput, InputFailureEnds, PollChildExit, BeginChildExitDrain,
     BeginDrain, CheckReaderFinished, CheckQuiet, DrainIncomplete, LeaveLoop, DropApp,
     InputWriteFails, InputFailureEnds, LocalShutdown, DeadlinePasses, vars
<1> QED BY <1>8, <1>9, <1>10, <1>11, <1>12, <1>13, <1>14, <1>15, <1>16
        DEF Next, Reader, Drain, Finished

(* Once the loop was asked to exit because nothing was left, nothing comes  *)
(* back.                                                                    *)
LEMMA DrainedExitKept ==
  ASSUME IInv, [Next]_vars
  PROVE  DrainedExitIsComplete'
<1> USE DEF readerVars, sharedVars, childVars, drainVars, exitVars, DrainedExitIsComplete
<1>0. /\ DrainedExitIsComplete /\ QueueHasFlag /\ InOrder /\ Places
      /\ applied \in Seq(Chunk) /\ exitCause \in Cause
  BY DEF IInv, TypeOK, MainTypes
<1>1. CASE CheckQuiet
  <2>1. CASE exitCause = "none" /\ exitCause' = "drained"
    <3>1. mainPc = "quiet?" /\ ~pending /\ batch = <<>>
      BY <1>1, <2>1 DEF CheckQuiet
    <3>2. readerPc = "done" /\ hand = None /\ inHand = None BY <1>0, <3>1 DEF Places
    <3>3. queue = <<>> BY <1>0, <3>1, <3>2 DEF QueueHasFlag
    <3>4. applied \o batch \o one(hand) \o queue \o one(inHand) = applied
      BY <1>0, <3>1, <3>2, <3>3, ConcatEmptySeq DEF one
    <3>5. applied = upTo(produced) BY <1>0, <2>1, <3>4 DEF InOrder
    <3> QED BY <1>1, <3>1, <3>2, <3>3, <3>5 DEF CheckQuiet
  <2>2. CASE exitCause' = exitCause BY <1>0, <1>1, <2>2 DEF CheckQuiet
  <2> QED BY <1>1, <2>1, <2>2 DEF CheckQuiet, RequestExit
<1>a. ASSUME NEW c, WriteFails(c) \/ FailureEnds(c), exitCause # "drained"
      PROVE  exitCause' # "drained"
  BY <1>a DEF WriteFails, FailureEnds, ApplyFails, RequestExit
<1>2. CASE DrainRecv BY <1>0, <1>2, <1>a DEF DrainRecv
<1>3. CASE DrainRetake
  <2>1. exitCause # "drained" BY <1>0, <1>3 DEF Places, DrainRetake
  <2> QED BY <2>1, <1>3, <1>a DEF DrainRetake, KeepChunk
<1>4. CASE DrainFlush \/ PollOfDrain
  <2>1. UNCHANGED <<readerVars, queue>> BY <1>4 DEF DrainFlush, PollOfDrain
  <2>2. CASE FlushBatch
    <3>1. batch = <<>> => applied \o batch = applied BY <1>0, ConcatEmptySeq
    <3> QED BY <1>0, <2>1, <2>2, <3>1 DEF FlushBatch
  <2>3. CASE DrainFlush /\ ~FlushBatch
    BY <1>0, <1>a, <2>3 DEF DrainFlush
  <2>4. CASE PollOfDrain /\ ~FlushBatch
    <3>1. CASE exitCause # "drained" BY <1>a, <2>4, <3>1 DEF PollOfDrain
    <3>2. CASE exitCause = "drained"
      <4>1. hand = None /\ batch = <<>> BY <1>0, <3>2 DEF Places
      <4>2. FailureEnds(hand) BY <2>4, <4>1 DEF PollOfDrain
      <4>3. \E k \in 0 .. Len(batch) : applied' = applied \o SubSeq(batch, 1, k)
        BY <4>2 DEF FailureEnds, ApplyFails
      <4>4. applied' = applied \o SubSeq(batch, 1, 0) BY <4>1, <4>3, EmptySeq
      <4>5. SubSeq(batch, 1, 0) = <<>> OBVIOUS
      <4>6. applied' = applied BY <1>0, <4>4, <4>5, ConcatEmptySeq
      <4>7. batch' = batch /\ exitCause' = exitCause
        BY <3>2, <4>2 DEF FailureEnds, ApplyFails, RequestExit
      <4> QED BY <1>0, <2>1, <3>2, <4>6, <4>7
    <3> QED BY <3>1, <3>2
  <2> QED BY <1>4, <2>2, <2>3, <2>4
<1>5. CASE Reader
  BY <1>0, <1>5 DEF Reader, ReaderRead, ReaderEof, ReaderError, ReaderSend,
     ReaderSendDisconnected, ReaderSwap, ReaderNotify
<1>6. CASE ChildExits \/ WaitBlocks \/ WaitReports \/ WaitFails \/ DrainSeesEmpty \/ DrainRelease
  BY <1>0, <1>6 DEF ChildExits, WaitBlocks, WaitReports, WaitFails, DrainSeesEmpty, DrainRelease
<1>7. CASE DrainRecheck BY <1>0, <1>7 DEF DrainRecheck
<1>8. CASE HandleOutputReady \/ HandleExited \/ HandleReadFailure \/ HandleWaitFailure
           \/ PollOfInput \/ PollChildExit
  BY <1>0, <1>8 DEF HandleOutputReady, HandleExited, HandleReadFailure, HandleWaitFailure,
     PollOfInput, InputFailureEnds, PollChildExit, BeginChildExitDrain, BeginDrain, RequestExit
<1>9. CASE CheckReaderFinished \/ DrainIncomplete \/ LeaveLoop \/ DropApp \/ InputWriteFails
           \/ LocalShutdown \/ DeadlinePasses \/ UNCHANGED vars
  BY <1>0, <1>9 DEF CheckReaderFinished, DrainIncomplete, LeaveLoop, DropApp, InputWriteFails,
     InputFailureEnds, LocalShutdown, DeadlinePasses, RequestExit, vars
<1> QED BY <1>1, <1>2, <1>3, <1>4, <1>5, <1>6, <1>7, <1>8, <1>9
        DEF Next, Drain, Handlers, Finished

----------------------------------------------------------------------------
(* The theorems *)

LEMMA InitEstablishes == Init => IInv
<1> SUFFICES ASSUME Init PROVE IInv
  OBVIOUS
<1> USE PumpConstants DEF Init
<1>1. ReaderTypes BY EmptySeq DEF ReaderTypes
<1>2. MainTypes BY EmptySeq DEF MainTypes, Caller, Cause
<1>3. FlagTypes BY DEF FlagTypes
<1>4. TypeOK BY <1>1, <1>2, <1>3 DEF TypeOK
<1>5. InOrder
  <2>1. one(None) = <<>> BY DEF one
  <2>2. upTo(0) = <<>> BY DEF upTo
  <2>3. <<>> \o <<>> = <<>> BY ConcatEmptySeq, EmptySeq
  <2> QED BY <2>1, <2>2, <2>3 DEF InOrder
<1>6. QueueAccounting /\ DrainBounded /\ DrainedExitIsComplete
  BY EmptySeq DEF QueueAccounting, DrainBounded, DrainedExitIsComplete
<1>7. Places /\ FlagHasWakeUp /\ QueueHasFlag /\ BudgetLeft
  BY DEF Places, loopAlive, FlagHasWakeUp, QueueHasFlag, BudgetLeft, draining, holding
<1> QED BY <1>4, <1>5, <1>6, <1>7 DEF IInv

LEMMA NextPreserves ==
  ASSUME IInv, [Next]_vars
  PROVE  IInv'
BY ReaderTypesKept, MainTypesKept, FlagTypesKept, QueueAccountingKept, PlacesKept,
   QueueHasFlagKept, BudgetKept, FlagHasWakeUpKept, InOrderKept, DrainedExitKept
   DEF IInv, TypeOK

(* IInv holds in every state of every run. *)
THEOREM Invariance == Spec => []IInv
<1>1. Init => IInv BY InitEstablishes
<1>2. IInv /\ [Next]_vars => IInv' BY NextPreserves
<1> QED BY <1>1, <1>2, PTL DEF Spec

(* Every variable has its type. *)
THEOREM TypeCorrectness == Spec => []TypeOK
<1>1. IInv => TypeOK BY DEF IInv
<1> QED BY <1>1, Invariance, PTL

(* Nothing is lost, duplicated or reordered on the way to the terminal.     *)
THEOREM OutputInOrder == Spec => []InOrder
<1>1. IInv => InOrder BY DEF IInv
<1> QED BY <1>1, Invariance, PTL

(* The atomic flag never swallows a wake-up: the drain's second look at the *)
(* channel closes the race with the reader.                                 *)
THEOREM WakeUpsAreKept == Spec => []NoLostWakeup
<1>1. IInv => NoLostWakeup
  BY DEF IInv, FlagHasWakeUp, QueueHasFlag, NoLostWakeup, wakeUpInFlight, holding
<1> QED BY <1>1, Invariance, PTL

(* The back-pressure counter never drifts from the channel. *)
THEOREM CounterIsExact == Spec => []QueueAccounting
<1>1. IInv => QueueAccounting BY DEF IInv
<1> QED BY <1>1, Invariance, PTL

(* No drain keeps the event loop beyond the largest budget. *)
THEOREM DrainIsBounded == Spec => []DrainBounded
<1>1. IInv => DrainBounded BY DEF IInv
<1> QED BY <1>1, Invariance, PTL

(* A session that ends as drained has shown everything its child wrote.     *)
THEOREM NoOutputLostAtExit == Spec => []DrainedExitIsComplete
<1>1. IInv => DrainedExitIsComplete BY DEF IInv
<1> QED BY <1>1, Invariance, PTL

----------------------------------------------------------------------------
(* The refinement of OutputStream *)

(* What follows a sequence of chunks leaves its elements where they are. *)
LEMMA JoinKeeps ==
  ASSUME NEW s \in Seq(Chunk), NEW t \in Seq(Chunk)
  PROVE  /\ s \o t \in Seq(Chunk)
         /\ Len(s) \in Nat /\ Len(s \o t) \in Nat /\ Len(s) <= Len(s \o t)
         /\ \A k \in 1 .. Len(s) : (s \o t)[k] = s[k]
<1>1. Len(s) \in Nat /\ Len(t) \in Nat BY LenProperties
<1>2. /\ s \o t \in Seq(Chunk) /\ Len(s \o t) = Len(s) + Len(t)
      /\ \A k \in 1 .. Len(s) + Len(t) :
           (s \o t)[k] = IF k <= Len(s) THEN s[k] ELSE t[k - Len(s)]
  BY ConcatProperties
<1> QED BY <1>1, <1>2

(* The chunks on their way, in the order InOrder lists them, are 1 .. n. *)
onTheWay(a, b, h, q, i, n) == a \o b \o one(h) \o q \o one(i) = upTo(n)

(* What comes first on the way is what was read first. *)
LEMMA FirstIsPrefix ==
  ASSUME NEW a \in Seq(Chunk), NEW b \in Seq(Chunk), NEW q \in Seq(Chunk),
         NEW h \in Chunk \cup {None}, NEW i \in Chunk \cup {None}, NEW n \in Nat,
         onTheWay(a, b, h, q, i, n)
  PROVE  Len(a) \in 0 .. n /\ a = upTo(Len(a))
<1> DEFINE ab == a \o b
           abh == ab \o one(h)
           abhq == abh \o q
           all == abhq \o one(i)
<1>1. one(h) \in Seq(Chunk) /\ one(i) \in Seq(Chunk) BY EmptySeq DEF one
<1>2. all = upTo(n) BY DEF onTheWay
<1>3. /\ ab \in Seq(Chunk) /\ Len(a) \in Nat /\ Len(ab) \in Nat /\ Len(a) <= Len(ab)
      /\ \A k \in 1 .. Len(a) : ab[k] = a[k]
  BY JoinKeeps
<1> HIDE DEF ab
<1>4. /\ abh \in Seq(Chunk) /\ Len(abh) \in Nat /\ Len(ab) <= Len(abh)
      /\ \A k \in 1 .. Len(ab) : abh[k] = ab[k]
  BY <1>1, <1>3, JoinKeeps
<1> HIDE DEF abh
<1>5. /\ abhq \in Seq(Chunk) /\ Len(abhq) \in Nat /\ Len(abh) <= Len(abhq)
      /\ \A k \in 1 .. Len(abh) : abhq[k] = abh[k]
  BY <1>4, JoinKeeps
<1> HIDE DEF abhq
<1>6. /\ Len(all) \in Nat /\ Len(abhq) <= Len(all)
      /\ \A k \in 1 .. Len(abhq) : all[k] = abhq[k]
  BY <1>1, <1>5, JoinKeeps
<1> HIDE DEF all
<1>7. Len(a) \in 0 .. n
  <2>1. Len(all) = n BY <1>2, UpToProperties
  <2> QED BY <2>1, <1>3, <1>4, <1>5, <1>6
<1>8. ASSUME NEW k \in 1 .. Len(a)
      PROVE  a[k] = upTo(Len(a))[k]
  <2>1. all[k] = a[k]
    <3>1. k \in 1 .. Len(ab) /\ ab[k] = a[k] BY <1>3
    <3>2. k \in 1 .. Len(abh) /\ abh[k] = ab[k] BY <1>4, <3>1
    <3>3. k \in 1 .. Len(abhq) /\ abhq[k] = abh[k] BY <1>5, <3>2
    <3>4. all[k] = abhq[k] BY <1>6, <3>3
    <3> QED BY <3>1, <3>2, <3>3, <3>4
  <2>2. k \in 1 .. n /\ Len(a) \in Nat BY <1>7
  <2>3. upTo(n)[k] = k /\ upTo(Len(a))[k] = k BY <2>2, UpToProperties
  <2> QED BY <1>2, <2>1, <2>3
<1>9. a \in Seq(Nat)
  <2>1. Chunk \subseteq Nat BY PumpConstants DEF Chunk
  <2> QED BY <2>1, SeqMonotonic
<1>10. upTo(Len(a)) \in Seq(Nat) /\ Len(upTo(Len(a))) = Len(a) BY <1>3, UpToProperties
<1>11. a = upTo(Len(a)) BY <1>8, <1>9, <1>10, SeqEqual
<1> QED BY <1>7, <1>11

(* What was applied stays, and only the reader's read produces. *)
LEMMA AppliedGrows ==
  ASSUME IInv, [Next]_vars, exitCause' = "none"
  PROVE  /\ UNCHANGED applied \/ (Len(applied') >= Len(applied) /\ UNCHANGED produced)
         /\ UNCHANGED produced \/ ReaderRead
<1> USE DEF readerVars, sharedVars, childVars, drainVars, exitVars
<1>0. /\ MainTypes /\ queue # <<>> => Head(queue) \in Chunk
      /\ applied \in Seq(Chunk) /\ batch \in Seq(Chunk)
  BY HeadThenTail DEF IInv, TypeOK, ReaderTypes, MainTypes
<1>1. Len(applied \o batch) >= Len(applied)
  BY <1>0, ConcatProperties, LenProperties
<1>2. ASSUME NEW chunk, NEW queued, NEW next, KeepChunk(chunk, queued, next)
      PROVE  UNCHANGED applied \/ Len(applied') >= Len(applied)
  BY <1>1, <1>2 DEF KeepChunk, appendedTo
<1>a. \A c : ~FailureEnds(c) BY DEF FailureEnds, ApplyFails, RequestExit
<1>b. \A c : WriteFails(c) => UNCHANGED applied BY <1>a DEF WriteFails
<1>3. CASE DrainRecv
  <2>1. UNCHANGED produced BY <1>3 DEF DrainRecv
  <2> QED BY <1>2, <1>3, <1>b, <2>1 DEF DrainRecv
<1>4. CASE DrainRetake
  <2>1. UNCHANGED produced BY <1>4 DEF DrainRetake
  <2> QED BY <1>2, <1>4, <1>b, <2>1 DEF DrainRetake
<1>5. CASE DrainFlush \/ PollOfDrain
  <2>1. UNCHANGED produced BY <1>5 DEF DrainFlush, PollOfDrain
  <2>2. FlushBatch => Len(applied') >= Len(applied) BY <1>1 DEF FlushBatch
  <2> QED BY <1>2, <1>5, <1>a, <1>b, <2>1, <2>2 DEF DrainFlush, PollOfDrain
<1>6. CASE Reader \/ ChildExits \/ WaitBlocks \/ WaitReports \/ WaitFails
  BY <1>6 DEF Reader, ReaderRead, ReaderEof, ReaderError, ReaderSend, ReaderSendDisconnected,
     ReaderSwap, ReaderNotify, ChildExits, WaitBlocks, WaitReports, WaitFails
<1>7. CASE DrainSeesEmpty \/ DrainRelease \/ DrainRecheck \/ Handlers \/ InputWriteFails
           \/ LocalShutdown \/ DeadlinePasses \/ UNCHANGED vars
  BY <1>7 DEF DrainSeesEmpty, DrainRelease, DrainRecheck, Handlers, HandleOutputReady,
     HandleExited, HandleReadFailure, HandleWaitFailure, PollOfInput, InputFailureEnds,
     PollChildExit, BeginChildExitDrain, BeginDrain, CheckReaderFinished, CheckQuiet,
     DrainIncomplete, LeaveLoop, DropApp, InputWriteFails, InputFailureEnds, LocalShutdown,
     DeadlinePasses, vars
<1> QED BY <1>3, <1>4, <1>5, <1>6, <1>7 DEF Next, Drain, Finished

(* Only child_exit_drain_complete asks for an exit as drained, and it       *)
(* touches no output; nothing is read after it.                             *)
LEMMA DrainedStep ==
  ASSUME IInv, IInv', [Next]_vars, exitCause' = "drained"
  PROVE  /\ UNCHANGED produced /\ UNCHANGED applied
         /\ exitCause \in {"none", "drained"}
         /\ applied = upTo(produced)
<1> USE DEF readerVars, sharedVars, childVars, drainVars, exitVars
<1>1. applied' = upTo(produced') BY DEF IInv, DrainedExitIsComplete
<1>2. CASE exitCause = "drained"
  <2>1. readerPc = "done" /\ applied = upTo(produced) BY <1>2 DEF IInv, DrainedExitIsComplete
  <2>2. UNCHANGED produced
    BY <2>1 DEF Next, Reader, ReaderRead, ReaderEof, ReaderError, ReaderSend,
       ReaderSendDisconnected, ReaderSwap, ReaderNotify, ChildExits, WaitBlocks, WaitReports,
       WaitFails, Drain, DrainRecv, DrainSeesEmpty, DrainRelease, DrainRecheck, DrainRetake,
       DrainFlush, PollOfDrain, FlushBatch, Handlers, HandleOutputReady, HandleExited,
       HandleReadFailure, HandleWaitFailure, PollOfInput, InputFailureEnds, PollChildExit,
       CheckReaderFinished, CheckQuiet, DrainIncomplete, LeaveLoop, DropApp, InputWriteFails,
       InputFailureEnds, LocalShutdown, DeadlinePasses, Finished, vars
  <2> QED BY <1>1, <1>2, <2>1, <2>2
<1>3. CASE exitCause = "none"
  <2>1. CheckQuiet
    BY <1>3 DEF Next, Reader, ReaderRead, ReaderEof, ReaderError, ReaderSend,
       ReaderSendDisconnected, ReaderSwap, ReaderNotify, ChildExits, WaitBlocks, WaitReports,
       WaitFails, Drain, DrainRecv, DrainSeesEmpty, DrainRelease, DrainRecheck, DrainRetake,
       DrainFlush, PollOfDrain, WriteFails, FailureEnds, FlushBatch, ApplyFails, Handlers,
       HandleOutputReady, HandleExited, HandleReadFailure, HandleWaitFailure, PollOfInput,
       InputFailureEnds, PollChildExit, CheckReaderFinished, DrainIncomplete, LeaveLoop, DropApp,
       InputWriteFails, InputFailureEnds, LocalShutdown, DeadlinePasses, RequestExit, Finished, vars
  <2> QED BY <1>1, <1>3, <2>1 DEF CheckQuiet
<1>4. exitCause \in {"none", "drained"} BY ExitCauseStands
<1> QED BY <1>2, <1>3, <1>4

(* Every step of the pump is a step of the stream, or none. *)
LEMMA StreamStep ==
  ASSUME IInv, IInv', [Next]_vars
  PROVE  [Stream!Next]_(Stream!vars)
<1>1. /\ produced \in Nat /\ produced' \in Nat
      /\ applied \in Seq(Chunk) /\ batch \in Seq(Chunk) /\ queue \in Seq(Chunk)
      /\ hand \in Chunk \cup {None} /\ inHand \in Chunk \cup {None}
      /\ applied' \in Seq(Chunk) /\ batch' \in Seq(Chunk) /\ queue' \in Seq(Chunk)
      /\ hand' \in Chunk \cup {None} /\ inHand' \in Chunk \cup {None}
      /\ Len(applied) \in Nat /\ Len(applied') \in Nat
  BY LenProperties DEF IInv, TypeOK, ReaderTypes, MainTypes
<1>2. \A n \in Nat : Stream!firstChunks(n) = upTo(n) BY DEF Stream!firstChunks, upTo
<1>3. CASE exitCause' = "none"
  <2>1. exitCause = "none" BY <1>3, ExitCauseStands
  <2>2. streamEnd = "open" /\ streamEnd' = "open" BY <1>3, <2>1 DEF streamEnd
  <2>3. CASE UNCHANGED produced /\ UNCHANGED applied BY <2>2, <2>3 DEF Stream!vars
  <2>4. CASE UNCHANGED produced /\ applied' # applied
    <3>1. applied = upTo(Len(applied))
      <4>1. onTheWay(applied, batch, hand, queue, inHand, produced)
        BY <2>1 DEF IInv, InOrder, onTheWay
      <4> QED BY <1>1, <4>1, FirstIsPrefix
    <3>2. Len(applied') \in 0 .. produced' /\ applied' = upTo(Len(applied'))
      <4>1. onTheWay(applied', batch', hand', queue', inHand', produced')
        BY <1>3 DEF IInv, InOrder, onTheWay, one, upTo
      <4> QED BY <1>1, <4>1, FirstIsPrefix
    <3>3. Len(applied') >= Len(applied) BY <1>3, <2>4, AppliedGrows
    <3>4. Len(applied') # Len(applied) BY <2>4, <3>1, <3>2
    <3>5. Len(applied') \in Len(applied) + 1 .. produced BY <1>1, <2>4, <3>2, <3>3, <3>4
    <3>6. Stream!Deliver BY <1>1, <1>2, <2>2, <2>4, <3>2, <3>5 DEF Stream!Deliver
    <3> QED BY <3>6 DEF Stream!Next
  <2>5. CASE produced' # produced
    <3>1. ReaderRead /\ UNCHANGED applied BY <1>3, <2>5, AppliedGrows
    <3>2. Stream!Produce BY <2>2, <3>1 DEF Stream!Produce, ReaderRead
    <3> QED BY <3>2 DEF Stream!Next
  <2> QED BY <2>3, <2>4, <2>5
<1>4. CASE exitCause' = "drained"
  <2>1. CASE exitCause = "drained"
    BY <1>4, <2>1, DrainedStep DEF Stream!vars, streamEnd
  <2>2. CASE exitCause = "none"
    <3>1. streamEnd = "open" /\ streamEnd' = "complete" BY <1>4, <2>2 DEF streamEnd
    <3>2. Stream!Complete BY <1>1, <1>2, <1>4, <3>1, DrainedStep DEF Stream!Complete
    <3> QED BY <3>2 DEF Stream!Next
  <2> QED BY <1>4, <2>1, <2>2, DrainedStep
<1>5. CASE exitCause' \notin {"none", "drained"}
  <2>1. exitCause # "drained" BY <1>5, ExitCauseStands
  <2>2. streamEnd \in {"open", "abandoned"} /\ streamEnd' = "abandoned"
    BY <1>5, <2>1 DEF streamEnd
  <2>3. CASE UNCHANGED produced
    <3>1. Stream!Abandon BY <2>2, <2>3 DEF Stream!Abandon
    <3> QED BY <3>1 DEF Stream!Next
  <2>4. CASE produced' # produced
    <3>1. ReaderRead
      BY <2>4 DEF Next, Reader, ReaderEof, ReaderError, ReaderSend, ReaderSendDisconnected,
         ReaderSwap, ReaderNotify, ChildExits, WaitBlocks, WaitReports, WaitFails, Drain,
         DrainRecv, DrainSeesEmpty, DrainRelease, DrainRecheck, DrainRetake, DrainFlush,
         PollOfDrain, FlushBatch, Handlers, HandleOutputReady, HandleExited, HandleReadFailure,
         HandleWaitFailure, PollOfInput, InputFailureEnds, PollChildExit, CheckReaderFinished,
         CheckQuiet, DrainIncomplete, LeaveLoop, DropApp, InputWriteFails, InputFailureEnds,
         LocalShutdown, DeadlinePasses, Finished, vars, readerVars
    <3>2. /\ produced' = produced + 1 /\ UNCHANGED <<applied, exitCause>>
      BY <3>1 DEF ReaderRead, drainVars, exitVars
    <3>3. Stream!Produce BY <2>2, <3>2 DEF Stream!Produce, streamEnd
    <3> QED BY <3>3 DEF Stream!Next
  <2> QED BY <2>3, <2>4
<1> QED BY <1>3, <1>4, <1>5

(* The output pump implements the ordered stream. *)
THEOREM PumpImplementsStream == Spec => ImplementsStream
<1>1. Init => Stream!Init
  BY DEF Init, Stream!Init, streamEnd
<1>2. IInv /\ IInv' /\ [Next]_vars => [Stream!Next]_(Stream!vars) BY StreamStep
<1> QED BY <1>1, <1>2, Invariance, PTL DEF Spec, ImplementsStream, Stream!Spec

(* What is queued is counted, announced and taken in bounded turns.         *)
THEOREM QueueServed == Spec => []QueueIsServed
<1>1. QueueIsServed <=> NoLostWakeup /\ QueueAccounting /\ DrainBounded BY DEF QueueIsServed
<1> QED BY <1>1, WakeUpsAreKept, CounterIsExact, DrainIsBounded, PTL

=============================================================================
