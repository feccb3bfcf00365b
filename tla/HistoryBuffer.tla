----------------------------- MODULE HistoryBuffer -----------------------------
(***************************************************************************)
(* The batched history writer of apps/server/src/inverter/history-buffer.ts*)
(* between the storage policy, which enqueues rows, and the database, which*)
(* commits one batch at a time.                                            *)
(*                                                                         *)
(* A row is its position in the order of enqueue; what it carries makes no *)
(* difference here.  commit is one await: everything but its two outcomes  *)
(* may happen while it is outstanding.  A commit that throws may have      *)
(* reached the database all the same.                                      *)
(***************************************************************************)
EXTENDS Naturals, Sequences, Functions

CONSTANTS
  MaxPending,   \* maxPending, the cap on buffered rows
  MaxEnqueue,   \* bound: the most rows one enqueue call brings
  MaxRows       \* bound: the rows enqueued in a behaviour

ASSUME BufferAssumption ==
  /\ MaxPending \in Nat \ {0}
  /\ MaxEnqueue \in Nat
  /\ MaxRows \in Nat

VARIABLES
  enqueued,   \* history: how many rows have been enqueued
  pending,    \* the buffered rows, oldest first
  batch,      \* the rows of the outstanding commit
  flushing,   \* whether a commit is outstanding
  stored,     \* the rows in the database
  dropped     \* the rows the cap has discarded

bufferVars == <<enqueued, pending, batch, flushing, stored, dropped>>

Row == 1..MaxRows

BufferTypeOK ==
  /\ enqueued \in 0..MaxRows
  /\ pending \in Seq(Row)
  /\ batch \in Seq(Row)
  /\ flushing \in BOOLEAN
  /\ stored \in SUBSET Row
  /\ dropped \in SUBSET Row

BufferInit ==
  /\ enqueued = 0
  /\ pending = <<>> /\ batch = <<>> /\ flushing = FALSE
  /\ stored = {} /\ dropped = {}

\* The rows of one enqueue call.
Arriving(n) == [i \in 1..n |-> enqueued + i]

\* Mutation: the eager flush ignores that a commit is outstanding and takes its place.
EnqueueOverlapping(n) ==
  LET rows == pending \o Arriving(n) IN
  /\ enqueued + n <= MaxRows
  /\ enqueued' = enqueued + n
  /\ IF Len(rows) >= MaxPending
       THEN flushing' = TRUE /\ batch' = rows /\ pending' = <<>>
       ELSE pending' = rows /\ UNCHANGED <<batch, flushing>>
  /\ UNCHANGED <<stored, dropped>>

\* enqueue: append, and flush at once when the cap is reached and no commit is outstanding.
Enqueue(n) ==
  LET rows == pending \o Arriving(n) IN
  /\ enqueued + n <= MaxRows
  /\ enqueued' = enqueued + n
  /\ IF ~flushing /\ Len(rows) >= MaxPending
       THEN flushing' = TRUE /\ batch' = rows /\ pending' = <<>>
       ELSE pending' = rows /\ UNCHANGED <<batch, flushing>>
  /\ UNCHANGED <<stored, dropped>>

\* flush, by the timer, before a source swap or at shutdown: a no-op while one is outstanding.
Flush ==
  /\ ~flushing /\ pending # <<>>
  /\ flushing' = TRUE /\ batch' = pending /\ pending' = <<>>
  /\ UNCHANGED <<enqueued, stored, dropped>>

\* The batch is committed.
CommitOk ==
  /\ flushing
  /\ stored' = stored \cup Range(batch)
  /\ flushing' = FALSE /\ batch' = <<>>
  /\ UNCHANGED <<enqueued, pending, dropped>>

\* The rows to buffer after a failed commit, before the cap: the batch is older.
Requeued == batch \o pending

\* Mutation: the cap keeps the oldest rows and drops the newest.
TrimmedNewest(rows) == SubSeq(rows, 1, MaxPending)

\* What the cap leaves of the re-queued rows: the newest maxPending.
Trimmed(rows) == SubSeq(rows, Len(rows) - MaxPending + 1, Len(rows))

\* Mutation: a failed commit gives its batch up.
CommitForgets ==
  /\ flushing
  /\ flushing' = FALSE /\ batch' = <<>>
  /\ UNCHANGED <<enqueued, pending, stored, dropped>>

\* The commit throws: re-queue the batch, oldest first, and trim past the cap.
CommitFails ==
  /\ flushing
  /\ stored' \in {stored, stored \cup Range(batch)}
  /\ flushing' = FALSE /\ batch' = <<>>
  /\ IF Len(Requeued) > MaxPending
       THEN /\ pending' = Trimmed(Requeued)
            /\ dropped' = dropped \cup (Range(Requeued) \ Range(Trimmed(Requeued)))
       ELSE pending' = Requeued /\ UNCHANGED dropped
  /\ UNCHANGED enqueued

BufferNext ==
  \/ \E n \in 1..MaxEnqueue : Enqueue(n)
  \/ Flush \/ CommitOk \/ CommitFails

BufferSpec == BufferInit /\ [][BufferNext]_bufferVars

(***************************************************************************)
(* The scheduler's flush job keeps running, a commit settles, and the      *)
(* database does not refuse every batch forever.                           *)
(***************************************************************************)
FairBufferSpec == BufferSpec /\ WF_bufferVars(Flush) /\ SF_bufferVars(CommitOk)

-----------------------------------------------------------------------------
\* The outstanding batch and the buffer together hold the newest rows, in order, each once.
InOrder ==
  \A i \in 1..Len(Requeued) : Requeued[i] = enqueued - Len(Requeued) + i

(***************************************************************************)
(* "Re-queue (oldest first) so a transient DB blip doesn't drop history":  *)
(* every row ever enqueued is in the database, counted as dropped, or      *)
(* still queued, in the order of enqueue, whatever failed in between.      *)
(***************************************************************************)
NothingLost ==
  /\ InOrder
  /\ Len(Requeued) <= enqueued
  /\ \A row \in 1..(enqueued - Len(Requeued)) : row \in stored \cup dropped

(***************************************************************************)
(* The buffer implements the ledger of rows: "never past the cap - trim    *)
(* the oldest if we're over".  A row is given up only when maxPending      *)
(* newer ones are held, only rows that were enqueued are stored, and       *)
(* neither set ever shrinks.                                               *)
(***************************************************************************)
L == INSTANCE Ledger WITH Cap <- MaxPending, accepted <- enqueued

ImplementsLedger == L!Spec

(***************************************************************************)
(* A row is eventually stored or counted as dropped, through failed        *)
(* commits and rows that arrive while one is outstanding.                  *)
(***************************************************************************)
EventuallySettled ==
  \A row \in Row : enqueued >= row ~> row \in stored \cup dropped
=============================================================================
