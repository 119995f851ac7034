--------------------------- MODULE AsyncLogWriter ---------------------------
(***************************************************************************)
(* AsyncLogWriter (src/async_log_writer.py): the asyncio queue, the writer *)
(* task that batches log entries into SQLite, and its shutdown.            *)
(*                                                                         *)
(* One event loop runs everything, so an action is what a task does from   *)
(* one suspension to the next.  The writer suspends only in wait_for: to   *)
(* take an entry, flush and come back to wait_for is one step (the flush   *)
(* awaits nothing).                                                        *)
(*                                                                         *)
(* Entries are numbered in the order in which log_async accepts them.      *)
(***************************************************************************)
EXTENDS Integers, Sequences, FiniteSets, Functions

CONSTANTS
    BatchSize,              \* batch_size
    MaxLogs,                \* bound: entries accepted
    AlreadyStored,          \* entries whose id is already in auth_logs, which
                            \* makes the INSERT of their batch fail
    SqliteMayFail           \* whether a flush may fail for another reason

ASSUME BatchSizeIsPositive == BatchSize \in Nat \ {0}
ASSUME MaxLogsIsNatural == MaxLogs \in Nat
ASSUME SqliteMayFailIsBoolean == SqliteMayFail \in BOOLEAN

VARIABLES
    running,        \* self.running
    queue,          \* self.queue
    unfinished,     \* its count of entries put and not yet task_done
    batch,          \* the list local to _batch_writer
    writer,         \* the writer task: "none", "created", "waiting", "finished"
    stopper,        \* the task in stop(): "none", "joining", "returned"
    stored,         \* rows this writer has committed to auth_logs, in order
    accepted,       \* ghost: how many entries log_async has accepted
    failed          \* ghost: the entries of the batches whose flush has failed

vars == <<running, queue, unfinished, batch, writer, stopper, stored,
          accepted, failed>>

-----------------------------------------------------------------------------
(* The environment: callers of start, log_async and stop *)

\* start: main() starts one writer, once
Start ==
    /\ writer = "none"
    /\ running' = TRUE
    /\ queue' = <<>>
    /\ unfinished' = 0
    /\ writer' = "created"
    /\ UNCHANGED <<batch, stopper, stored, accepted, failed>>

\* log_async; an entry that comes while the writer is not running is dropped
LogAsync ==
    /\ running
    /\ accepted < MaxLogs
    /\ accepted' = accepted + 1
    /\ queue' = Append(queue, accepted')
    /\ unfinished' = unfinished + 1
    /\ UNCHANGED <<running, batch, writer, stopper, stored, failed>>

-----------------------------------------------------------------------------
(* The writer task *)

\* _flush_batch: one transaction, so the whole batch is stored or none of it.
\* An error is logged and swallowed, and the caller forgets the batch.
FlushBatch(entries) ==
    \/ /\ \A i \in DOMAIN entries : entries[i] \notin AlreadyStored
       /\ stored' = stored \o entries
       /\ UNCHANGED failed
    \/ /\ \/ SqliteMayFail
          \/ \E i \in DOMAIN entries : entries[i] \in AlreadyStored
       /\ failed' = failed \cup {entries[i] : i \in DOMAIN entries}
       /\ UNCHANGED stored

\* the loop test: wait_for again, or leave the loop
Continue == writer' = IF running THEN "waiting" ELSE "finished"

\* the task is run for the first time
Begin ==
    /\ writer = "created"
    /\ Continue
    /\ UNCHANGED <<running, queue, unfinished, batch, stopper, stored, accepted,
                  failed>>

\* a mutant of TakeEntry: a flushed batch is not emptied
TakeEntryKeepsBatch ==
    LET filled == Append(batch, Head(queue))
    IN  /\ writer = "waiting"
        /\ queue # <<>>
        /\ queue' = Tail(queue)
        /\ unfinished' = unfinished - 1
        /\ batch' = filled
        /\ IF Len(filled) >= BatchSize \/ ~running
           THEN FlushBatch(filled)
           ELSE UNCHANGED <<stored, failed>>
        /\ Continue
        /\ UNCHANGED <<running, stopper, accepted>>

\* wait_for returns an entry: it joins the batch and is task_done at once.
\* The batch is flushed when it is full, and after the loop ("Final flush on
\* shutdown") when running has become FALSE meanwhile.
TakeEntry ==
    LET filled == Append(batch, Head(queue))
    IN  /\ writer = "waiting"
        /\ queue # <<>>
        /\ queue' = Tail(queue)
        /\ unfinished' = unfinished - 1
        /\ IF Len(filled) >= BatchSize \/ ~running
           THEN FlushBatch(filled) /\ batch' = <<>>
           ELSE batch' = filled /\ UNCHANGED <<stored, failed>>
        /\ Continue
        /\ UNCHANGED <<running, stopper, accepted>>

\* a mutant of FlushInterval: a partial batch is left for later
FlushIntervalIdle ==
    /\ writer = "waiting"
    /\ UNCHANGED <<batch, stored, failed>>
    /\ Continue
    /\ UNCHANGED <<running, queue, unfinished, stopper, accepted>>

\* a mutant of FlushInterval: the flushed batch is not emptied
FlushIntervalKeepsBatch ==
    /\ writer = "waiting"
    /\ IF batch # <<>> THEN FlushBatch(batch) ELSE UNCHANGED <<stored, failed>>
    /\ Continue
    /\ UNCHANGED <<running, queue, unfinished, batch, stopper, accepted>>

\* wait_for times out (an entry may just have been put): a partial batch is
\* flushed.
FlushInterval ==
    /\ writer = "waiting"
    /\ IF batch # <<>>
       THEN FlushBatch(batch) /\ batch' = <<>>
       ELSE UNCHANGED <<batch, stored, failed>>
    /\ Continue
    /\ UNCHANGED <<running, queue, unfinished, stopper, accepted>>

-----------------------------------------------------------------------------
(* Shutdown *)

\* writer_task.cancel(), and the writer has ended.  CancelledError is raised in
\* wait_for; from Python 3.8 on it is no Exception, so it passes the except
\* clause of the loop and leaves the coroutine, and the batch is gone with it.
CancelWriter ==
    /\ writer' = "finished"
    /\ batch' = <<>>

\* a mutant of Stop: it does not wait for the queue
StopWithoutJoin ==
    /\ running
    /\ running' = FALSE
    /\ stopper' = "returned"
    /\ CancelWriter
    /\ UNCHANGED <<queue, unfinished, stored, accepted, failed>>

\* stop: join() returns without suspending if nothing is unfinished, and the
\* writer is cancelled in the same step.
Stop ==
    /\ running
    /\ running' = FALSE
    /\ IF unfinished = 0
       THEN stopper' = "returned" /\ CancelWriter
       ELSE stopper' = "joining" /\ UNCHANGED <<writer, batch>>
    /\ UNCHANGED <<queue, unfinished, stored, accepted, failed>>

\* the last task_done has woken join()
JoinReturns ==
    /\ stopper = "joining"
    /\ unfinished = 0
    /\ stopper' = "returned"
    /\ CancelWriter
    /\ UNCHANGED <<running, queue, unfinished, stored, accepted, failed>>

-----------------------------------------------------------------------------
(* The specification *)

Init ==
    /\ running = FALSE
    /\ queue = <<>>
    /\ unfinished = 0
    /\ batch = <<>>
    /\ writer = "none"
    /\ stopper = "none"
    /\ stored = <<>>
    /\ accepted = 0
    /\ failed = {}

Next ==
    \/ Start \/ LogAsync \/ Stop
    \/ Begin \/ TakeEntry \/ FlushInterval
    \/ JoinReturns

\* The event loop runs a task that can run, and its timers expire.  Nothing
\* obliges callers to log or to stop.
LoopFairness ==
    /\ WF_vars(Begin)
    /\ WF_vars(TakeEntry)
    /\ WF_vars(FlushInterval)
    /\ WF_vars(JoinReturns)

Spec == Init /\ [][Next]_vars
FairSpec == Spec /\ LoopFairness

-----------------------------------------------------------------------------
(* Properties *)

Entries == 1..MaxLogs

\* The type invariant.  The batch never reaches the flush threshold between
\* two steps, and what join() counts is what is queued.
TypeOK ==
    /\ running \in BOOLEAN
    /\ queue \in Seq(Entries)
    /\ unfinished = Len(queue)
    /\ batch \in Seq(Entries) /\ Len(batch) < BatchSize
    /\ writer \in {"none", "created", "waiting", "finished"}
    /\ stopper \in {"none", "joining", "returned"}
    /\ stored \in Seq(Entries)
    /\ accepted \in 0..MaxLogs
    /\ failed \subseteq Entries

\* the entries accepted, but for those of the flushes that failed
Kept == (1..accepted) \ failed

\* in the order of acceptance, none twice
InOrder(s) == \A i, j \in DOMAIN s : i < j => s[i] < s[j]

\* Every entry accepted is stored, in the batch or in the queue, once, and
\* they are in the order of acceptance, until stop has returned; the only ones
\* missing are those of batches whose transaction failed.
NothingLostBeforeStop ==
    stopper # "returned" =>
        /\ InOrder(stored \o batch \o queue)
        /\ Range(stored \o batch \o queue) = Kept

\* stop loses less than one batch: what is stored when it has returned is the
\* beginning of what was accepted, in order, and fewer than batch_size entries
\* lack.
StopLosesLessThanABatch ==
    stopper = "returned" =>
        LET lost == Kept \ Range(stored)
        IN  /\ InOrder(stored)
            /\ Range(stored) \subseteq Kept
            /\ \A n \in Range(stored), m \in lost : n < m
            /\ Cardinality(lost) < BatchSize

\* An entry is stored at last, unless the writer is stopped or the flush of
\* its batch fails: the batch fills or the interval expires, and no stream of
\* entries keeps one waiting.
Delivered ==
    \A n \in Entries :
        (running /\ accepted >= n)
            ~> (~running \/ n \in failed \/ \E i \in DOMAIN stored : stored[i] = n)

\* stop returns.  False: with two entries queued the writer leaves its loop
\* after the first, and join() waits for the second for ever.
StopReturns == stopper = "joining" ~> stopper = "returned"

=============================================================================
