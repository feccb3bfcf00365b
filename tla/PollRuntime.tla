----------------------------- MODULE PollRuntime -----------------------------
(***************************************************************************)
(* The poll runtime of apps/server/src/inverter/runtime.ts: polls of the   *)
(* live source, the roster they are keyed by (devices/registry.ts), the    *)
(* open interval the device writer holds for it (device-writer.ts), the    *)
(* buffer the closed ones go to, the source swap that follows a write of   *)
(* the plant (plant/plant-runtime.ts), and the shutdown.                   *)
(*                                                                         *)
(* A step is the code between two awaits.  A plant has one polled device,  *)
(* a sample one metric, and a reading is the endpoint it was taken from:   *)
(* whether it continues the open interval or ends it is the encoder's      *)
(* decision (module ChangeEncoder).  Left out: the second buffer, which is *)
(* drained beside the first, the cap (module HistoryBuffer), the broker    *)
(* (module BrokerPool), the live frames, the automation loop, the          *)
(* simulator, and the roster reloads that only add the optimizer's or      *)
(* EVCC's device.                                                          *)
(***************************************************************************)
EXTENDS Naturals, FiniteSets, Sequences, SequencesExt

CONSTANTS
    Devices, Endpoints,
    None,         \* no device; an endpoint without a host (offlineEndpoint)
    FirstDevice, FirstEndpoint,   \* what the plant's rows hold at boot, if anything
    Writers,      \* requests that may be under way; the boot is one of them
    Boot,
    MaxWrites,    \* writes of the plant
    MaxTaken,     \* intervals opened
    MaxFaults     \* commits, reads of the plant and of the settings that fail

ASSUME RuntimeAssumption ==
    /\ IsFiniteSet(Devices) /\ FirstDevice \in Devices /\ FirstEndpoint \in Endpoints
    /\ Boot \in Writers /\ None \notin Devices \union Endpoints
    /\ MaxWrites \in Nat /\ MaxTaken \in Nat /\ MaxFaults \in Nat

VARIABLES
    saved,     \* the plant's rows: its device and the endpoint
    roster,    \* registry.primary()
    ends,      \* the endpoint of every source built, in order; the last is live
    closed,    \* the sources that were closed
    poll,      \* the source the poll in flight reads, or 0
    timer,     \* the poll interval is armed
    open,      \* the endpoint whose reading opened a device's interval
    rows,      \* history: how many rows were enqueued; a row is its number
    buffer,    \* the rows pending, the rows being committed
    stored,    \* the rows in the database
    writer,    \* what each request is at
    recovery,  \* the re-read a sample without a device asked for
    stop,      \* the shutdown
    taken, writes, faults,   \* counters: intervals, writes, failures
    tangled,   \* history: reloads overlapped or failed; "was" once one ran alone since
    late       \* history: what the shutdown's flush could not wait for

vars == <<saved, roster, ends, closed, poll, timer, open, rows, buffer, stored, writer,
          recovery, stop, taken, writes, faults, tangled, late>>
sourceVars == <<ends, closed, timer>>
counters == <<taken, writes, faults>>

Device == Devices \union {None}
Endpoint == Endpoints \union {None}
Steps == {"idle", "reload", "install", "endpoint", "flush", "swap", "close"}
Idle == [pc |-> "idle", before |-> None, query |-> None, end |-> None, prev |-> 0,
         heals |-> FALSE, waits |-> FALSE]
NoRecovery == [flag |-> FALSE, reading |-> FALSE, query |-> None]
Source == Len(ends)

\* What the plant's rows say to poll; no device, or one without a connection,
\* is offline.
Target(plant) == IF plant.dev = None THEN None ELSE plant.end

\* The live source has a host to poll.
Connectable == Source # 0 /\ ends[Source] # None

TypeOK ==
    /\ saved \in [dev : Device, end : Endpoint]
    /\ roster \in Device
    /\ ends \in Seq(Endpoint) /\ closed \subseteq 1..Source /\ poll \in 0..Source
    /\ timer \in BOOLEAN
    /\ open \in [Devices -> Endpoint]
    /\ rows \in Nat /\ taken \in 0..MaxTaken
    /\ \A k \in stored \union ToSet(buffer.pending) \union ToSet(buffer.batch) : k \in 1..rows
    /\ buffer.flushing = (buffer.batch # <<>>)
    /\ \A w \in Writers :
         /\ writer[w].pc \in Steps /\ writer[w].before \in Device /\ writer[w].query \in Device
         /\ writer[w].end \in Endpoint /\ writer[w].prev \in 0..Source
         /\ writer[w].heals \in BOOLEAN /\ writer[w].waits \in BOOLEAN
    /\ recovery \in [flag : BOOLEAN, reading : BOOLEAN, query : Device]
    /\ tangled \in {"no", "was", "yes"} /\ late \in BOOLEAN
    /\ stop \in {"no", "flush", "source", "done"}

Init ==
    /\ saved \in [dev : {FirstDevice, None}, end : {FirstEndpoint}]
    /\ roster = None /\ ends = <<>> /\ closed = {} /\ poll = 0 /\ timer = FALSE
    /\ open = [d \in Devices |-> None] /\ rows = 0
    /\ buffer = [pending |-> <<>>, batch |-> <<>>, flushing |-> FALSE] /\ stored = {}
    /\ writer = [w \in Writers |-> IF w = Boot THEN [Idle EXCEPT !.pc = "reload"]
                                   ELSE Idle]
    /\ recovery = NoRecovery
    /\ stop = "no" /\ taken = 0 /\ writes = 0 /\ faults = 0
    /\ tangled = "no" /\ late = FALSE

Running == stop # "done"
Reloading == {w \in Writers : writer[w].pc # "idle"}

-----------------------------------------------------------------------------
(* The writer and the buffer *)

\* enqueue(): n more rows, into a buffer b.
Enqueued(b, n) == [b EXCEPT !.pending = @ \o [k \in 1..n |-> rows + k]]

\* Mutant: an empty buffer is flushed too.
FlushedEmpty(b) ==
    IF b.flushing THEN b ELSE [pending |-> <<>>, batch |-> b.pending, flushing |-> TRUE]

\* flush(): nothing while a commit is outstanding or there is nothing to write.
Flushed(b) ==
    IF b.flushing \/ b.pending = <<>> THEN b
    ELSE [pending |-> <<>>, batch |-> b.pending, flushing |-> TRUE]
Flushes(b) == ~b.flushing /\ b.pending # <<>>

\* Closing the intervals of a set of devices: one row for each that is open.
CloseOf(ds) == {d \in ds : open[d] # None}

\* Mutant: forgetting a device drops what it held open.
ForgetSilently(d) ==
    /\ open' = [x \in Devices |-> IF x = d THEN None ELSE open[x]]
    /\ UNCHANGED <<rows, buffer>>

\* forget(): the interval is written out, the policy dropped.
Forget(d) ==
    LET n == Cardinality(CloseOf({d} \intersect Devices))
    IN  /\ rows' = rows + n
        /\ buffer' = Enqueued(buffer, n)
        /\ open' = [x \in Devices |-> IF x = d THEN None ELSE open[x]]

\* closeSeriesIntervals() and the flush after it.
Closed == Enqueued(buffer, Cardinality(CloseOf(Devices)))
Drain ==
    /\ rows' = rows + Cardinality(CloseOf(Devices))
    /\ buffer' = Flushed(Closed)
    /\ open' = [d \in Devices |-> None]

\* commit(): the reading opens an interval, continues the open one, or ends it.
Commit(d, e) ==
    \/ /\ open[d] = None /\ taken < MaxTaken
       /\ open' = [open EXCEPT ![d] = e] /\ taken' = taken + 1
       /\ UNCHANGED <<rows, buffer>>
    \/ /\ open[d] # None
       /\ UNCHANGED <<open, taken, rows, buffer>>
    \/ /\ open[d] # None /\ taken < MaxTaken
       /\ rows' = rows + 1 /\ buffer' = Enqueued(buffer, 1)
       /\ open' = [open EXCEPT ![d] = e] /\ taken' = taken + 1

\* The flush job of the scheduler, which stop() clears.
FlushTick ==
    /\ stop = "no" /\ Flushes(buffer)
    /\ buffer' = Flushed(buffer)
    /\ UNCHANGED <<saved, roster, sourceVars, poll, open, rows, stored, writer, recovery,
                   stop, counters, tangled, late>>

\* Whoever awaited this commit goes on.
Resumed == [w \in Writers |-> [writer[w] EXCEPT !.waits = FALSE]]

CommitOk ==
    /\ Running /\ buffer.flushing
    /\ stored' = stored \union ToSet(buffer.batch)
    /\ buffer' = [pending |-> buffer.pending, batch |-> <<>>, flushing |-> FALSE]
    /\ writer' = Resumed
    /\ stop' = IF stop = "flush" THEN "source" ELSE stop
    /\ UNCHANGED <<saved, roster, sourceVars, poll, open, rows, recovery, counters,
                   tangled, late>>

\* The batch goes back in front; the awaiting code does not learn of it.
CommitFails ==
    /\ Running /\ buffer.flushing /\ faults < MaxFaults
    /\ faults' = faults + 1
    /\ buffer' = [pending |-> buffer.batch \o buffer.pending, batch |-> <<>>,
                  flushing |-> FALSE]
    /\ writer' = Resumed
    /\ stop' = IF stop = "flush" THEN "source" ELSE stop
    /\ late' = (late \/ stop # "no")
    /\ UNCHANGED <<saved, roster, sourceVars, poll, open, rows, stored, recovery, taken,
                   writes, tangled>>

-----------------------------------------------------------------------------
(* Polls *)

\* pollOnce() up to its await; the source it will key the sample of is captured.
\* Without a host the tick does nothing.
PollStart ==
    /\ Running /\ timer /\ poll = 0 /\ Connectable
    /\ poll' = Source
    /\ UNCHANGED <<saved, roster, sourceVars, open, rows, buffer, stored, writer, recovery,
                   stop, counters, tangled, late>>

\* The read fails; or its sample finds no device while a re-read is under way, or
\* less than ROSTER_RECOVERY_INTERVAL_MS after the last one, and is dropped.
PollNowhere ==
    /\ Running /\ poll # 0
    /\ poll' = 0
    /\ UNCHANGED <<saved, roster, sourceVars, open, rows, buffer, stored, writer, recovery,
                   stop, counters, tangled, late>>

\* fanOut() of a sample whose device is registered now.
FanOut ==
    /\ Running /\ poll # 0 /\ roster # None
    /\ Commit(roster, ends[poll])
    /\ poll' = 0
    /\ UNCHANGED <<saved, roster, sourceVars, stored, writer, recovery, stop, writes,
                   faults, tangled, late>>

\* noDeviceForSample(): the sample is dropped and the roster is read again.
StartRecovery ==
    /\ Running /\ poll # 0 /\ roster = None /\ ~recovery.flag
    /\ poll' = 0
    /\ recovery' = [flag |-> TRUE, reading |-> TRUE, query |-> saved.dev]
    /\ tangled' = IF Reloading # {} THEN "yes" ELSE tangled
    /\ writer' = [w \in Writers |-> [writer[w] EXCEPT !.heals = FALSE]]
    /\ UNCHANGED <<saved, roster, sourceVars, open, rows, buffer, stored, stop, counters,
                   late>>

\* The re-read arrives: there was no device to forget when it was asked for.
Recover ==
    /\ Running /\ recovery.reading
    /\ roster' = recovery.query
    /\ recovery' = NoRecovery
    /\ UNCHANGED <<saved, sourceVars, poll, open, rows, buffer, stored, writer, stop,
                   counters, tangled, late>>

\* Mutant: the flag is not cleared when the re-read fails.
RecoverFailsBusy ==
    /\ Running /\ recovery.reading /\ faults < MaxFaults
    /\ faults' = faults + 1
    /\ recovery' = [NoRecovery EXCEPT !.flag = TRUE]
    /\ UNCHANGED <<saved, roster, sourceVars, poll, open, rows, buffer, stored, writer,
                   stop, taken, writes, tangled, late>>

\* It fails: the last roster stays, the flag is cleared.
RecoverFails ==
    /\ Running /\ recovery.reading /\ faults < MaxFaults
    /\ faults' = faults + 1
    /\ recovery' = NoRecovery
    /\ UNCHANGED <<saved, roster, sourceVars, poll, open, rows, buffer, stored, writer,
                   stop, taken, writes, tangled, late>>

-----------------------------------------------------------------------------
(* A write of the plant, and the boot *)

\* A route writes the plant's rows; afterPlantWrite() follows.
Save(w) ==
    /\ Running /\ writer[w].pc = "idle" /\ writes < MaxWrites
    /\ \E now \in [dev : Device, end : Endpoint] : now # saved /\ saved' = now
    /\ writes' = writes + 1 /\ late' = (late \/ stop # "no")
    /\ LET alone == Reloading = {} /\ ~recovery.reading
       IN  /\ tangled' = IF alone THEN tangled ELSE "yes"
           /\ writer' = [v \in Writers |->
                           IF v = w
                           THEN [Idle EXCEPT !.pc = "reload", !.heals = alone /\ tangled = "yes"]
                           ELSE [writer[v] EXCEPT !.heals = FALSE]]
    /\ UNCHANGED <<roster, sourceVars, poll, open, rows, buffer, stored, recovery, stop,
                   taken, faults>>

At(w, pc) == Running /\ writer[w].pc = pc

\* reloadDevices(): the roster before, and the query.
Reload(w) ==
    /\ At(w, "reload")
    /\ writer' = [writer EXCEPT ![w].pc = "install", ![w].before = roster,
                                ![w].query = saved.dev]
    /\ UNCHANGED <<saved, roster, sourceVars, poll, open, rows, buffer, stored, recovery,
                   stop, counters, tangled, late>>

\* The query fails: the last good snapshot survives.
ReloadFails(w) ==
    /\ At(w, "reload") /\ faults < MaxFaults
    /\ faults' = faults + 1
    /\ writer' = [writer EXCEPT ![w].pc = "endpoint", ![w].heals = FALSE]
    /\ tangled' = "yes"
    /\ UNCHANGED <<saved, roster, sourceVars, poll, open, rows, buffer, stored, recovery,
                   stop, taken, writes, late>>

\* Mutant: the roster is read once, at boot.
InstallOnce(w) ==
    /\ At(w, "install")
    /\ roster' = IF roster = None THEN writer[w].query ELSE roster
    /\ writer' = [writer EXCEPT ![w].pc = "endpoint", ![w].before = None, ![w].query = None]
    /\ UNCHANGED <<saved, sourceVars, poll, open, rows, buffer, stored, recovery, stop,
                   counters, tangled, late>>

\* The new roster, and the device that is no longer on it is forgotten.
Install(w) ==
    /\ At(w, "install")
    /\ roster' = writer[w].query
    /\ IF writer[w].before # writer[w].query THEN Forget(writer[w].before)
       ELSE UNCHANGED <<open, rows, buffer>>
    /\ writer' = [writer EXCEPT ![w].pc = "endpoint", ![w].before = None, ![w].query = None]
    /\ UNCHANGED <<saved, sourceVars, poll, stored, recovery, stop, counters, tangled,
                   late>>

\* loadPollEndpoint(), and rebuildInverter() up to the flush it awaits.
LoadEndpoint(w) ==
    /\ At(w, "endpoint")
    /\ Drain
    /\ writer' = [writer EXCEPT ![w].pc = "flush", ![w].end = Target(saved),
                                ![w].waits = Flushes(Closed)]
    /\ UNCHANGED <<saved, roster, sourceVars, poll, stored, recovery, stop, counters,
                   tangled, late>>

\* The read of the plant fails: loadPollEndpoint() answers the offline endpoint.
EndpointFails(w) ==
    /\ At(w, "endpoint") /\ faults < MaxFaults
    /\ faults' = faults + 1
    /\ Drain
    /\ writer' = [writer EXCEPT ![w].pc = "flush", ![w].end = None, ![w].heals = FALSE,
                                ![w].waits = Flushes(Closed)]
    /\ tangled' = "yes"
    /\ UNCHANGED <<saved, roster, sourceVars, poll, stored, recovery, stop, taken, writes,
                   late>>

\* The source that will be replaced, before the settings are read.
TakePrevious(w) ==
    /\ At(w, "flush") /\ ~writer[w].waits
    /\ writer' = [writer EXCEPT ![w].pc = "swap", ![w].prev = Source]
    /\ UNCHANGED <<saved, roster, sourceVars, poll, open, rows, buffer, stored, recovery,
                   stop, counters, tangled, late>>

\* getSimulate() throws, the intervals drained already: the request ends and the
\* source stays; at boot the throw ends the process.
SettingsFail(w) ==
    /\ At(w, "swap") /\ faults < MaxFaults
    /\ faults' = faults + 1
    /\ writer' = [writer EXCEPT ![w] = Idle]
    /\ tangled' = "yes"
    /\ stop' = IF w = Boot THEN "done" ELSE stop
    /\ late' = (late \/ w = Boot)
    /\ UNCHANGED <<saved, roster, sourceVars, poll, open, rows, buffer, stored, recovery,
                   taken, writes>>

\* Mutant: the replaced source is not closed.
SwapLeaks(w) ==
    /\ At(w, "swap")
    /\ ends' = Append(ends, writer[w].end) /\ timer' = TRUE /\ UNCHANGED closed
    /\ writer' = [writer EXCEPT ![w] = Idle]
    /\ tangled' = IF writer[w].heals THEN "was" ELSE tangled
    /\ UNCHANGED <<saved, roster, poll, open, rows, buffer, stored, recovery, stop,
                   counters, late>>

\* buildSource() and restartLoop(); the previous one is closed next.
Swap(w) ==
    /\ At(w, "swap")
    /\ ends' = Append(ends, writer[w].end) /\ timer' = TRUE /\ UNCHANGED closed
    /\ writer' = [writer EXCEPT ![w] = IF @.prev = 0 THEN Idle ELSE [@ EXCEPT !.pc = "close"]]
    /\ tangled' = IF writer[w].heals THEN "was" ELSE tangled
    /\ UNCHANGED <<saved, roster, poll, open, rows, buffer, stored, recovery, stop,
                   counters, late>>

ClosePrevious(w) ==
    /\ At(w, "close")
    /\ closed' = closed \union {writer[w].prev}
    /\ writer' = [writer EXCEPT ![w] = Idle]
    /\ UNCHANGED <<saved, roster, ends, timer, poll, open, rows, buffer, stored, recovery,
                   stop, counters, tangled, late>>

-----------------------------------------------------------------------------
(* Shutdown *)

\* stop(): the timers, the intervals and one flush.  late records what it does
\* not wait for: a commit that is outstanding, a poll, a reload.
Stop ==
    /\ stop = "no" /\ writer[Boot].pc = "idle"
    /\ timer' = FALSE
    /\ Drain
    /\ late' = (buffer.flushing \/ poll # 0 \/ Reloading # {})
    /\ stop' = IF Flushes(Closed) THEN "flush" ELSE "source"
    /\ UNCHANGED <<saved, roster, ends, closed, poll, stored, writer, recovery, counters,
                   tangled>>

\* The bridge and the source are closed and the process exits.
Exit ==
    /\ stop = "source"
    /\ stop' = "done"
    /\ closed' = closed \union ({Source} \ {0})
    /\ UNCHANGED <<saved, roster, ends, timer, poll, open, rows, buffer, stored, writer,
                   recovery, counters, tangled, late>>

-----------------------------------------------------------------------------
WriterStep(w) ==
    \/ Reload(w) \/ Install(w) \/ LoadEndpoint(w) \/ TakePrevious(w) \/ Swap(w)
    \/ ClosePrevious(w)

WriterFails(w) == ReloadFails(w) \/ EndpointFails(w) \/ SettingsFail(w)

Next ==
    \/ FlushTick \/ CommitOk \/ CommitFails
    \/ PollStart \/ PollNowhere \/ FanOut \/ StartRecovery
    \/ Recover \/ RecoverFails
    \/ \E w \in Writers : Save(w) \/ WriterStep(w) \/ WriterFails(w)
    \/ Stop \/ Exit

\* The timers fire, queries and commits settle, and an inverter that is polled
\* answers again and again.
Fairness ==
    /\ WF_vars(CommitOk) /\ WF_vars(PollStart) /\ SF_vars(StartRecovery)
    /\ WF_vars(Recover)
    /\ \A w \in Writers : WF_vars(WriterStep(w))

Spec == Init /\ [][Next]_vars /\ Fairness

-----------------------------------------------------------------------------
Held == CloseOf(Devices)
Buffered == buffer.batch \o buffer.pending

\* Every interval a reading opened is still open, or its row is buffered or
\* stored, through swaps, retired devices and failed commits; and once the
\* process has exited they are all stored, unless the one flush of stop() found
\* a commit outstanding, a poll or a reload under way, or failed.
ReadingsKept ==
    /\ taken = rows + Cardinality(Held)
    /\ stored \union ToSet(Buffered) = 1..rows
    /\ \A k \in 1..Len(Buffered) : Buffered[k] = rows - Len(Buffered) + k
    /\ stop = "done" /\ ~late => Cardinality(stored) = taken

\* When no reload is under way, and the last ones did not overlap or fail, the
\* loop polls the endpoint of the saved device and idles when there is none,
\* holds an interval open for no other device, and every source but the live one
\* is closed.
SourceFollows ==
    Reloading = {} /\ ~recovery.reading /\ tangled # "yes" =>
      /\ roster = saved.dev /\ Held \subseteq {roster}
      /\ ends[Source] = Target(saved)
      /\ tangled = "no" => 1..(Source - 1) \subseteq closed

\* A reading is kept under a device it was not taken for only while a reload is
\* under way, by a poll of a source that is replaced, or after a tangle.
KeyedAsRead ==
    [][\A d \in Devices : open'[d] \notin {None, open[d]} =>
         \/ d = saved.dev /\ open'[d] = saved.end
         \/ Reloading # {} \/ recovery.reading \/ tangled = "yes" \/ poll # Source]_vars

\* A device the plant has is registered again without a restart, however many of
\* the roster's reads failed, as long as the loop has a host to poll: it is a
\* sample without a device that asks for the re-read.
RegisteredAgain ==
    saved.dev # None /\ Connectable ~>
      roster # None \/ saved.dev = None \/ ~Connectable \/ stop # "no"
=============================================================================
