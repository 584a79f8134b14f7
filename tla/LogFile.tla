------------------------------- MODULE LogFile -------------------------------
(***************************************************************************)
(* The PMU log of a UART session: class LogFile of                         *)
(* isml_diag/src/core/UartBridge.cpp.  The UART worker appends; a thread   *)
(* of its own writes to the file; Impl::close joins the UART worker and    *)
(* then closes the log.  Texts are abstracted to their sizes in bytes.     *)
(*                                                                         *)
(* mutex_ is held only inside single actions; the writer waits on changed_ *)
(* with a predicate, so its wait is the guard of Swap and Exit.            *)
(***************************************************************************)
EXTENDS Naturals

CONSTANTS
  MaxPending,  \* MAX_PENDING, 65536 in the code
  MaxText,     \* the largest text passed to append
  MaxBytes     \* bound of the model: bytes ever passed to append

ASSUME SizesAssumption == MaxPending \in Nat /\ MaxText \in Nat /\ MaxBytes \in Nat

VARIABLES
  pending,     \* pending_.size()
  chunk,       \* bytes the writer has taken and not written yet
  dropped,     \* dropped_
  error,       \* error_ is not empty
  logStopping, \* stopping_
  writer,      \* the log thread: "wait", "write", "failing" or "exited"
  source,      \* the UART worker: "running" or "joined"
  logCloser,   \* LogFile::close: "open", "joining" or "closed"
  appended,    \* history: bytes passed to append
  written      \* history: bytes in the file

logVars == <<pending, chunk, dropped, error, logStopping, writer, source, logCloser,
             appended, written>>

LogInit ==
  /\ pending = 0 /\ chunk = 0 /\ dropped = 0
  /\ error = FALSE /\ logStopping = FALSE
  /\ writer = "wait" /\ source = "running" /\ logCloser = "open"
  /\ appended = 0 /\ written = 0

\* A text that does not fit, or comes after a write error, is dropped whole.
Fits(n) == ~error /\ n <= MaxPending - pending

\* LogFile::append of a text of n bytes.
Append(n) ==
  /\ source = "running"
  /\ appended + n <= MaxBytes
  /\ appended' = appended + n
  /\ IF Fits(n)
       THEN pending' = pending + n /\ UNCHANGED dropped
       ELSE dropped' = dropped + n /\ UNCHANGED pending
  /\ UNCHANGED <<chunk, error, logStopping, writer, source, logCloser, written>>

\* The writer finds text: it swaps the buffer out and unlocks.
Swap ==
  /\ writer = "wait" /\ pending > 0
  /\ chunk' = pending /\ pending' = 0
  /\ writer' = "write"
  /\ UNCHANGED <<dropped, error, logStopping, source, logCloser, appended, written>>

\* The writer finds nothing to write and the log closing.
BugExit ==
  /\ writer = "wait" /\ logStopping
  /\ writer' = "exited"
  /\ UNCHANGED <<pending, chunk, dropped, error, logStopping, source, logCloser,
                 appended, written>>

Exit ==
  /\ writer = "wait" /\ pending = 0 /\ logStopping
  /\ writer' = "exited"
  /\ UNCHANGED <<pending, chunk, dropped, error, logStopping, source, logCloser,
                 appended, written>>

\* write() takes k bytes, possibly fewer than asked for.
Write(k) ==
  /\ writer = "write" /\ k <= chunk
  /\ chunk' = chunk - k
  /\ written' = written + k
  /\ writer' = IF k = chunk THEN "wait" ELSE "write"
  /\ UNCHANGED <<pending, dropped, error, logStopping, source, logCloser, appended>>

\* write() fails; the lock is not taken yet, so append may still come between.
WriteFails ==
  /\ writer = "write"
  /\ writer' = "failing"
  /\ UNCHANGED <<pending, chunk, dropped, error, logStopping, source, logCloser,
                 appended, written>>

\* The rest of the chunk and everything pending is counted as dropped.
BugRecordError ==
  /\ writer = "failing"
  /\ error' = TRUE
  /\ dropped' = dropped + chunk
  /\ chunk' = 0 /\ pending' = 0
  /\ writer' = "exited"
  /\ UNCHANGED <<logStopping, source, logCloser, appended, written>>

RecordError ==
  /\ writer = "failing"
  /\ error' = TRUE
  /\ dropped' = dropped + chunk + pending
  /\ chunk' = 0 /\ pending' = 0
  /\ writer' = "exited"
  /\ UNCHANGED <<logStopping, source, logCloser, appended, written>>

\* Impl::close: worker.join() returns after the worker's last append.
JoinSource ==
  /\ source = "running"
  /\ source' = "joined"
  /\ UNCHANGED <<pending, chunk, dropped, error, logStopping, writer, logCloser,
                 appended, written>>

\* Impl::close, then LogFile::close: the UART worker is joined first.
BugCloseSilent ==
  /\ source = "joined" /\ logCloser = "open"
  /\ logCloser' = "joining"
  /\ UNCHANGED <<pending, chunk, dropped, error, logStopping, writer, source,
                 appended, written>>

CloseLog ==
  /\ source = "joined" /\ logCloser = "open"
  /\ logStopping' = TRUE
  /\ logCloser' = "joining"
  /\ UNCHANGED <<pending, chunk, dropped, error, writer, source, appended, written>>

LogJoined ==
  /\ logCloser = "joining" /\ writer = "exited"
  /\ logCloser' = "closed"
  /\ UNCHANGED <<pending, chunk, dropped, error, logStopping, writer, source,
                 appended, written>>

\* The bridge is closed and its log with it.
Finished == logCloser = "closed" /\ UNCHANGED logVars

LogNext ==
  \/ \E n \in 1 .. MaxText : Append(n)
  \/ Swap \/ Exit
  \/ \E k \in 1 .. MaxPending : Write(k)
  \/ WriteFails \/ RecordError
  \/ JoinSource \/ CloseLog \/ LogJoined \/ Finished

LogSpec == LogInit /\ [][LogNext]_logVars

\* Both threads run, and so does whoever called close.
FairLogSpec ==
  /\ LogSpec
  /\ WF_logVars(Swap \/ Exit \/ RecordError \/ \E k \in 1 .. MaxPending : Write(k))
  /\ WF_logVars(LogJoined)

-----------------------------------------------------------------------------
\* Sizes are numbers, and neither buffer grows past MAX_PENDING.
LogTypeOK ==
  /\ pending \in 0 .. MaxPending /\ chunk \in 0 .. MaxPending
  /\ dropped \in Nat /\ appended \in Nat /\ written \in Nat
  /\ error \in BOOLEAN /\ logStopping \in BOOLEAN
  /\ writer \in {"wait", "write", "failing", "exited"}
  /\ source \in {"running", "joined"}
  /\ logCloser \in {"open", "joining", "closed"}

\* State in range, and no byte is lost without being counted: what was appended
\* is in the file, in one of the two buffers, or in dropped_
\* (UartBridge.cpp:149-161, 186-190).
Accounted == LogTypeOK /\ appended = written + dropped + chunk + pending

\* "Logging ... flushes on normal exit": when close has returned, every byte
\* that diagnostics() does not report as dropped is in the file
\* (UartBridge.cpp:140-164, 193-206).
FlushedAtClose == logCloser = "closed" => written + dropped = appended

\* LogFile::close returns (UartBridge.cpp:193-198).
LogCloseReturns == (logCloser = "joining") ~> (logCloser = "closed")
=============================================================================
