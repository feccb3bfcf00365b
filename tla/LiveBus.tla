------------------------------ MODULE LiveBus ------------------------------
(***************************************************************************)
(* The multiplexed live socket, both ends: the browser's bus over its      *)
(* reconnecting socket (apps/web/src/lib/ws/bus.ts, reconnecting-socket.ts)*)
(* and the server's connection (apps/server/src/routes/ws-connection.ts,   *)
(* ws-subscribe.ts, ws-priming.ts), with the stream bus that feeds it      *)
(* (shared/streams.ts, routes/ws-publish.ts).                              *)
(*                                                                         *)
(* One browser and the connection it has, or had last.  A payload is the   *)
(* number of the state it shows; of a run's buffer only the newest payload *)
(* is kept, which is the one the buffer's limit keeps too.  Left out: the  *)
(* backoff's length, the cadence estimate, onStart (the bus has none), the *)
(* acks' contents and the `logs` topic, which is not buffered.             *)
(***************************************************************************)
EXTENDS Naturals, Sequences

CONSTANTS
    Dashboard,  \* topics behind the dashboard policy
    Admin,      \* topics behind the admin policy
    MaxHolders, \* subscribers of one topic
    MaxFrames,  \* control frames under way
    MaxMishaps, \* leases given back, connections dropped, lookups and snapshots
                \* that fail, changes of the session's rights
    MaxEmits    \* payloads emitted, on all topics together

ASSUME TopicsAssumption ==
    /\ Dashboard \intersect Admin = {}
    /\ MaxHolders \in Nat /\ MaxFrames \in Nat /\ MaxMishaps \in Nat /\ MaxEmits \in Nat

VARIABLES
    \* the browser
    leased,     \* the app shell holds the socket's lease
    holders,    \* number of live handlers of each topic
    sent,       \* topics the current connection has been told about
    outbox,     \* frames written before the handshake
    ws,         \* the browser's socket
    timer,      \* the reconnect timer
    \* the connection
    up,         \* frames on their way to, or queued at, the server
    linked,     \* the browser's socket is the server's connection
    \* the server
    srv,        \* the connection is registered and open
    gate,       \* the answer of the authorization the head of the queue got
    subscribed, \* topics the connection holds
    live,       \* topics it has joined the fan-out of
    runs,       \* priming runs in flight
    \* the session and the feeds
    access,     \* what the session may read
    version,    \* payloads emitted on each topic
    last,       \* newest payload the connection was sent on each topic
    \* history
    granted,    \* what the last authorization of this connection answered
    deaf,       \* topics the browser asked this connection for and was not given
    mishaps,    \* how many of MaxMishaps have happened
    emits       \* how many of MaxEmits have happened

clientVars == <<leased, holders, sent, outbox, ws, timer>>
connVars == <<srv, gate, subscribed, live, runs, last, granted>>
serverVars == <<connVars, deaf>>
feedVars == <<access, version, emits>>
vars == <<clientVars, up, linked, serverVars, feedVars, mishaps>>

Topics == Dashboard \union Admin
Levels == {"none", "dashboard", "admin"}
Frame == [t : {"open", "sub", "unsub"}, topics : SUBSET Topics]
Newest == MaxEmits + 1
Unread == Newest + 1    \* the snapshot's query has not run
Run == [topic : Topics, abandoned : BOOLEAN, current : BOOLEAN,
        snap : 0..Unread, buf : 0..Newest]

TypeOK ==
    /\ leased \in BOOLEAN /\ timer \in BOOLEAN /\ linked \in BOOLEAN
    /\ holders \in [Topics -> 0..MaxHolders]
    /\ sent \subseteq Topics
    /\ outbox \in Seq(Frame) /\ up \in Seq(Frame)
    /\ Len(outbox) + Len(up) <= MaxFrames + 3
    /\ ws \in {"none", "opening", "open"}
    /\ srv \in BOOLEAN
    /\ gate \in Levels \union {"asking", "failed"}
    /\ subscribed \subseteq Topics /\ live \subseteq Topics
    /\ deaf \subseteq Topics
    /\ runs \subseteq Run
    /\ access \in Levels /\ granted \in Levels
    /\ version \in [Topics -> 1..Newest]
    /\ last \in [Topics -> 0..Newest]
    /\ emits \in 0..MaxEmits

Init ==
    /\ leased = FALSE /\ timer = FALSE /\ linked = FALSE
    /\ holders = [t \in Topics |-> 0]
    /\ sent = {} /\ outbox = <<>> /\ ws = "none"
    /\ up = <<>>
    /\ srv = FALSE /\ gate = "asking" /\ subscribed = {} /\ live = {}
    /\ runs = {} /\ deaf = {}
    /\ access \in {"dashboard", "admin"} /\ granted = "none"
    /\ version = [t \in Topics |-> 1]
    /\ last = [t \in Topics |-> 0]
    /\ mishaps = 0 /\ emits = 0

\* Something the code must bear and does not cause.
Mishap == mishaps < MaxMishaps /\ mishaps' = mishaps + 1

-----------------------------------------------------------------------------
(* The browser *)

Held(h) == {t \in Topics : h[t] > 0}

\* #sync(): at most one frame each way between what is wanted and what the
\* connection has been told.
SyncFrames(h, told) ==
    LET add    == Held(h) \ told
        remove == told \ Held(h)
        Only(kind, ts) == IF ts = {} THEN <<>> ELSE <<[t |-> kind, topics |-> ts]>>
    IN  Only("sub", add) \o Only("unsub", remove)

\* subscribe() and its disposer: the handlers change, then #sync(), whose frames
\* go out or wait for the handshake.
Resubscribe(h) ==
    /\ Len(outbox) + Len(up) < MaxFrames
    /\ holders' = h
    /\ sent' = Held(h)
    /\ IF ws = "open"
       THEN up' = up \o SyncFrames(h, sent) /\ UNCHANGED outbox
       ELSE outbox' = outbox \o SyncFrames(h, sent) /\ UNCHANGED up
    /\ UNCHANGED <<leased, ws, timer, linked, serverVars, feedVars, mishaps>>

Subscribe(t) ==
    /\ holders[t] < MaxHolders
    /\ Resubscribe([holders EXCEPT ![t] = @ + 1])

\* Mutant: a cleanup that runs twice is counted twice.
DisposeTwice(t) == Resubscribe([holders EXCEPT ![t] = @ - 1])

Dispose(t) ==
    /\ holders[t] > 0
    /\ Resubscribe([holders EXCEPT ![t] = @ - 1])

\* connect(), the first lease.
Lease ==
    /\ ~leased
    /\ leased' = TRUE
    /\ ws' = "opening"
    /\ UNCHANGED <<holders, sent, outbox, timer, up, linked, serverVars, feedVars, mishaps>>

\* Mutant: the frames queued during an outage outlive it.
ForgetSentOnly ==
    /\ ws' = "none"
    /\ sent' = {}
    /\ linked' = FALSE /\ deaf' = {}
    /\ UNCHANGED outbox

\* Mutant: the bus remembers what it told a connection that is gone.
ForgetOutboxOnly ==
    /\ ws' = "none"
    /\ outbox' = <<>>
    /\ linked' = FALSE /\ deaf' = {}
    /\ UNCHANGED sent

\* What every end of a connection does on the browser's side: the outbox and
\* the bus's memory of what it wrote go together.
ForgetConnection ==
    /\ ws' = "none"
    /\ outbox' = <<>>
    /\ sent' = {}
    /\ linked' = FALSE /\ deaf' = {}

\* The last lease is released: #teardown().
Unlease ==
    /\ leased /\ Mishap
    /\ leased' = FALSE
    /\ timer' = FALSE
    /\ ForgetConnection
    /\ UNCHANGED <<holders, up, connVars, feedVars>>

\* The socket's close event; errors are closed into it.
SocketCloses ==
    /\ ws # "none"
    /\ Mishap \/ (linked /\ ~srv /\ UNCHANGED mishaps)
    /\ ForgetConnection
    /\ timer' = TRUE
    /\ UNCHANGED <<leased, holders, up, connVars, feedVars>>

\* The reconnect timer.
Reconnect ==
    /\ timer
    /\ timer' = FALSE
    /\ ws' = "opening"
    /\ UNCHANGED <<leased, holders, sent, outbox, up, linked, serverVars, feedVars, mishaps>>

\* The handshake completes on both sides: the server registers a fresh
\* connection whose first task is the authorization, and the browser flushes
\* its outbox and then reconciles.
SocketOpens ==
    /\ ws = "opening"
    /\ ws' = "open"
    /\ linked' = TRUE
    /\ srv' = TRUE /\ gate' = "asking"
    /\ subscribed' = {} /\ live' = {} /\ runs' = {} /\ deaf' = {}
    /\ last' = [t \in Topics |-> 0] /\ granted' = "none"
    /\ up' = <<[t |-> "open", topics |-> {}]>> \o outbox \o SyncFrames(holders, sent)
    /\ outbox' = <<>>
    /\ sent' = Held(holders)
    /\ UNCHANGED <<leased, holders, timer, feedVars, mishaps>>

-----------------------------------------------------------------------------
(* The server *)

Allowed(level) ==
    CASE level = "none"      -> {}
      [] level = "dashboard" -> Dashboard
      [] level = "admin"     -> Topics

\* authorize(): the rights are read now and used when the frame goes on.
Authorize ==
    /\ srv /\ up # <<>> /\ gate = "asking"
    /\ Head(up).t \in {"open", "sub"}
    /\ \/ gate' = access /\ UNCHANGED mishaps
       \/ gate' = "failed" /\ Mishap
    /\ UNCHANGED <<clientVars, up, linked, srv, subscribed, live, runs, last, granted,
                   deaf, feedVars>>

\* closeConnection(): the runs are abandoned and the topics forgotten.
CloseConnection ==
    /\ srv' = FALSE
    /\ subscribed' = {} /\ live' = {} /\ runs' = {}
    /\ up' = <<>> /\ gate' = "asking"
    /\ last' = [t \in Topics |-> 0] /\ granted' = "none" /\ deaf' = {}

\* drop(): the topics' runs are abandoned.  Their buffers are emptied, and what
\* their queries still answer is never looked at.
AbandonRuns(ts) ==
    {IF r.topic \in ts THEN [r EXCEPT !.abandoned = TRUE, !.buf = 0, !.snap = 0] ELSE r :
       r \in runs}

NextFrame == up' = Tail(up) /\ gate' = "asking"

\* The open task, once its authorization is answered.
HandleOpen ==
    /\ srv /\ up # <<>> /\ gate # "asking" /\ Head(up).t = "open"
    /\ IF gate \in {"failed", "none"}
       THEN CloseConnection
       ELSE /\ NextFrame
            /\ granted' = gate
            /\ UNCHANGED <<srv, subscribed, live, runs, last, deaf>>
    /\ UNCHANGED <<clientVars, linked, feedVars, mishaps>>

HandleUnsub ==
    /\ srv /\ up # <<>> /\ Head(up).t = "unsub"
    /\ LET dropped == Head(up).topics \intersect subscribed
       IN  /\ subscribed' = subscribed \ dropped
           /\ live' = live \ dropped
           /\ runs' = AbandonRuns(dropped)
    /\ deaf' = deaf \ Head(up).topics
    /\ NextFrame
    /\ UNCHANGED <<clientVars, linked, srv, last, granted, feedVars, mishaps>>

\* Mutant: only what the frame names is swept.
RevokedByName == (subscribed \intersect Head(up).topics) \ Allowed(gate)

\* sweepRevoked(): what the connection holds and may no longer read.
Revoked == subscribed \ Allowed(gate)

\* A `sub` frame once its authorization is answered: a failed lookup drops the
\* frame, no rights at all close the connection, and otherwise the revoked
\* topics are dropped and the newly held ones start their priming runs, unless
\* the ack could not be written to a socket that is closing.
HandleSub ==
    /\ srv /\ up # <<>> /\ gate # "asking" /\ Head(up).t = "sub"
    /\ \/ /\ gate = "failed"
          /\ NextFrame
          /\ deaf' = IF linked THEN deaf \union (Head(up).topics \ subscribed) ELSE {}
          /\ UNCHANGED <<srv, subscribed, live, runs, last, granted>>
       \/ /\ gate = "none"
          /\ CloseConnection
       \/ /\ gate \in {"dashboard", "admin"}
          /\ \E acked \in {TRUE, linked} :
             LET allowed == IF acked THEN Head(up).topics \intersect Allowed(gate) ELSE {}
                 fresh   == allowed \ (subscribed \ Revoked)
             IN  /\ subscribed' = (subscribed \ Revoked) \union fresh
                 /\ live' = live \ Revoked
                 /\ runs' = {[r EXCEPT !.current = @ /\ r.topic \notin fresh] :
                               r \in AbandonRuns(Revoked)}
                            \union {[topic |-> t, abandoned |-> FALSE, current |-> TRUE,
                                     snap |-> Unread, buf |-> 0] : t \in fresh}
                 /\ last' = [t \in Topics |-> IF t \in fresh THEN 0 ELSE last[t]]
                 /\ deaf' = IF linked THEN (deaf \union Head(up).topics \union Revoked) \ allowed
                            ELSE {}
          /\ granted' = gate
          /\ NextFrame
          /\ UNCHANGED srv
    /\ UNCHANGED <<clientVars, linked, feedVars, mishaps>>

\* The socket's close reaches the server.
ServerCloses ==
    /\ srv /\ ~linked
    /\ CloseConnection
    /\ UNCHANGED <<clientVars, linked, feedVars, mishaps>>

-----------------------------------------------------------------------------
(* Priming *)

\* The snapshot's query runs; it may fail, which leaves nothing to send.
ReadSnapshot(r) ==
    /\ r \in runs /\ r.snap = Unread
    /\ runs' = (runs \ {r}) \union {[r EXCEPT !.snap = version[r.topic]]}
    /\ UNCHANGED <<clientVars, up, linked, srv, gate, subscribed, live, last, granted,
                   deaf, feedVars, mishaps>>

SnapshotFails(r) ==
    /\ r \in runs /\ r.snap = Unread
    /\ Mishap
    /\ runs' = (runs \ {r}) \union {[r EXCEPT !.snap = 0]}
    /\ UNCHANGED <<clientVars, up, linked, srv, gate, subscribed, live, last, granted,
                   deaf, feedVars>>

\* isActive()
IsActive(r) == srv /\ r.topic \in subscribed /\ r.current

\* Mutant: the snapshot goes out after the buffer.
ShownLast(r) == IF r.snap # 0 THEN r.snap ELSE r.buf

\* The newest payload of snapshot, then buffer.
Shown(r) == IF r.buf # 0 THEN r.buf ELSE r.snap

\* The run resumes: abandoned, or snapshot and buffer are written and the topic
\* joins the fan-out in the same synchronous block.
Promote(r) ==
    /\ r \in runs /\ r.snap # Unread
    /\ runs' = runs \ {r}
    /\ IF r.abandoned \/ ~IsActive(r)
       THEN UNCHANGED <<live, last>>
       ELSE /\ live' = live \union {r.topic}
            /\ last' = [last EXCEPT ![r.topic] = IF Shown(r) = 0 THEN @ ELSE Shown(r)]
    /\ UNCHANGED <<clientVars, up, linked, srv, gate, subscribed, granted, deaf,
                   feedVars, mishaps>>

\* Delivery fails on a socket that is closing: the topic is not held any more.
PromoteFails(r) ==
    /\ r \in runs /\ r.snap # Unread /\ ~r.abandoned /\ IsActive(r)
    /\ ~linked
    /\ runs' = runs \ {r}
    /\ subscribed' = subscribed \ {r.topic}
    /\ UNCHANGED <<clientVars, up, linked, srv, gate, live, last, granted, deaf,
                   feedVars, mishaps>>

\* A producer emits: runs that listen buffer it, the fan-out sends it.
Emit(t) ==
    /\ emits < MaxEmits
    /\ emits' = emits + 1
    /\ version' = [version EXCEPT ![t] = @ + 1]
    /\ runs' = {IF r.topic = t /\ ~r.abandoned
                THEN [r EXCEPT !.buf = version'[t]] ELSE r : r \in runs}
    /\ last' = IF t \in live THEN [last EXCEPT ![t] = version'[t]] ELSE last
    /\ UNCHANGED <<clientVars, up, linked, srv, gate, subscribed, live, granted, deaf,
                   access, mishaps>>

\* The session's rights change: a role, an expiry, the public dashboard switch.
ChangeAccess ==
    /\ Mishap
    /\ \E level \in Levels \ {access} : access' = level
    /\ UNCHANGED <<clientVars, up, linked, serverVars, version, emits>>

-----------------------------------------------------------------------------
ServerStep == Authorize \/ HandleOpen \/ HandleUnsub \/ HandleSub \/ ServerCloses

PrimeStep(t) ==
    \E r \in runs : r.topic = t /\ (ReadSnapshot(r) \/ SnapshotFails(r) \/ Promote(r))

Next ==
    \/ \E t \in Topics : Subscribe(t) \/ Dispose(t) \/ Emit(t)
    \/ Lease \/ Unlease
    \/ SocketCloses \/ Reconnect \/ SocketOpens
    \/ ServerStep
    \/ \E t \in Topics : PrimeStep(t)
    \/ \E r \in runs : PromoteFails(r)
    \/ ChangeAccess

\* Timers fire, handshakes are answered, the queue and the queries move on (both
\* are bounded by timeouts).  People and the network owe nothing.
Fairness ==
    /\ WF_vars(Reconnect)
    /\ WF_vars(SocketOpens)
    /\ WF_vars(SocketCloses /\ UNCHANGED mishaps)
    /\ WF_vars(ServerStep)
    /\ \A t \in Topics : WF_vars(PrimeStep(t))

Spec == Init /\ [][Next]_vars /\ Fairness

-----------------------------------------------------------------------------
\* Once every frame of an open connection is handled, the server holds no topic
\* that nobody in the browser wants, through subscriptions before, during and
\* after outages: what the browser forgot it wrote was never written.
NoStraySubscription ==
    ws = "open" /\ srv /\ up = <<>> => subscribed \subseteq Held(holders)

\* What a connection holds or is fed is what the last authorization answered for
\* it allows: a sweep that revokes a topic also stops the priming run that would
\* have joined it to the fan-out later.
HeldIsAllowed == subscribed \union live \subseteq Allowed(granted)

\* A topic on the fan-out was last sent the newest state there is: no payload
\* falls between snapshot and promotion, and no older snapshot lands on top.
NothingMissed ==
    \A t \in live : last[t] \in {0, version[t]}

\* A topic somebody wants goes live: unless they leave, the session may read
\* nothing, or the connection was refused the topic.
GoesLive ==
    \A t \in Topics :
      leased /\ holders[t] > 0 ~>
        \/ linked /\ t \in live \union deaf
        \/ ~leased \/ holders[t] = 0
        \/ access = "none"
=============================================================================
