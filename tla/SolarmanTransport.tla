------------------------- MODULE SolarmanTransport -------------------------
(***************************************************************************)
(* The Modbus transport (packages/inverter-core/src/modbus-transport.ts)   *)
(* over the Solarman V5 port (solarman/v5-port.ts): connecting with two    *)
(* deadlines, the promise-chain lock, one transaction at a time, a refused *)
(* request asked once more, and replies that come late, twice or never.    *)
(*                                                                         *)
(* modbus-serial, which owns a transaction's timeout, the TCP socket and   *)
(* the logging stick are external and are modelled from how this code uses *)
(* them.  After end() a socket only closes: a connect event that still     *)
(* came would have its probe's write refused and end in the same state.    *)
(* Left out: the byte layout of frames, CRCs, and the logger's serial      *)
(* beyond whether one is known.                                            *)
(***************************************************************************)
EXTENDS Naturals, Sequences, FiniteSets

CONSTANTS
    Poll, Setting,  \* the two operations that share the client: read(), write()
    MaxPorts,       \* ports a transport dials in a behaviour
    MaxOps,         \* operations in a behaviour
    SeqMod,         \* sequence numbers before they wrap: 256 in the code
    MaxCloses       \* calls of close()

ASSUME BoundsAssumption ==
    /\ Poll # Setting
    /\ MaxPorts \in Nat /\ MaxOps \in Nat /\ MaxCloses \in Nat
    /\ SeqMod \in Nat /\ SeqMod > 1

VARIABLES
    port,       \* SolarmanV5Port objects
    client,     \* this.client, or 0
    connecting, \* the port getClient() is dialling, or 0
    waiters,    \* operations that wait for that connect, in order
    op,         \* what each operation is doing
    lock,       \* operations that hold or wait for the lock, in order
    spanning,   \* the read plan still has the grouped block in one piece
    degraded,
    begun,      \* operations so far
    lastTx,     \* transactions started
    wire,       \* requests on their way to the stick
    replies,    \* answers on their way back
    configured, \* a logger serial is configured
    closes,     \* calls of close() so far
    closing,    \* the port close() waits for, or 0
    refused,    \* history: attempts the stick has refused with status 05
    foreign     \* history: transactions answered by a reply to another one

dialVars == <<client, connecting, waiters>>
opVars   == <<op, lock, begun, lastTx, foreign>>
linkVars == <<wire, replies, refused>>
planVars == <<spanning, degraded>>
vars == <<port, dialVars, opVars, linkVars, planVars, configured, closes, closing>>

Ops == {Poll, Setting}
Ports == 1..MaxPorts
MaxTx == MaxOps + 1     \* one transaction each, and one more where the plan splits
Tx == 1..MaxTx
Seqs == 0..(SeqMod - 1)
Statuses == {"05", "06"}
NoRequest == [seq |-> 0, tx |-> 0, retried |-> FALSE]
Request == [seq : Seqs, tx : 0..MaxTx, retried : BOOLEAN]

NewPort == [sock |-> "none", open |-> FALSE, probing |-> FALSE, timer |-> FALSE,
            seq |-> 0, out |-> NoRequest]
PortType ==
    [sock : {"none", "connecting", "connected", "ending", "dead"},
     open : BOOLEAN, probing : BOOLEAN, timer : BOOLEAN,
     seq : Seqs, out : Request]

Idle == [st |-> "idle", port |-> 0, tx |-> 0]
OpType == [st : {"idle", "connecting", "queued", "active"},
           port : {0} \union Ports, tx : 0..MaxTx]

Message == [port : Ports, seq : Seqs, tx : 0..MaxTx, retried : BOOLEAN]
Reply == [msg : Message, kind : {"data"} \union Statuses]

TypeOK ==
    /\ port \in [Ports -> PortType]
    /\ client \in {0} \union Ports
    /\ connecting \in {0} \union Ports
    /\ op \in [Ops -> OpType]
    /\ waiters \in Seq(Ops) /\ lock \in Seq(Ops)
    /\ Len(waiters) + Len(lock) <= Cardinality(Ops)
    /\ spanning \in BOOLEAN /\ degraded \in BOOLEAN
    /\ lastTx \in 0..MaxTx
    /\ wire \subseteq Message
    /\ replies \subseteq Reply
    /\ configured \in BOOLEAN
    /\ closes \in 0..MaxCloses
    /\ closing \in {0} \union Ports
    /\ refused \subseteq Tx \X BOOLEAN
    /\ foreign \subseteq Tx
    /\ begun \in 0..MaxOps

Init ==
    /\ port = [p \in Ports |-> NewPort]
    /\ client = 0 /\ connecting = 0
    /\ op = [o \in Ops |-> Idle]
    /\ waiters = <<>> /\ lock = <<>>
    /\ spanning = TRUE /\ degraded = FALSE
    /\ begun = 0 /\ lastTx = 0
    /\ wire = {} /\ replies = {}
    /\ configured \in BOOLEAN
    /\ closes = 0 /\ closing = 0
    /\ refused = {}
    /\ foreign = {}

-----------------------------------------------------------------------------
(* The port's socket *)

\* A frame goes out with the port's next sequence number.  A write on a socket
\* that is ending reaches nobody, and no message is older than the byte of the
\* sequence number can tell: what still carried this number is lost.
Put(p, tx, retried) ==
    LET s    == port[p].seq
        kept == {m \in wire : m.port # p \/ m.seq # s}
    IN  /\ wire' = IF port[p].sock = "connected"
                   THEN kept \union {[port |-> p, seq |-> s, tx |-> tx,
                                      retried |-> retried]}
                   ELSE kept
        /\ replies' = {r \in replies : r.msg.port # p \/ r.msg.seq # s}

\* #nextSeq()
NextSeq(s) == (s + 1) % SeqMod

\* Mutant: a retry waits for the sequence number of the first attempt.
SentSameSeq(p, tx, retried) ==
    [port[p] EXCEPT !.seq = NextSeq(@),
                    !.out = [seq |-> IF retried THEN port[p].out.seq ELSE port[p].seq,
                             tx |-> tx, retried |-> retried]]

\* Mutant: a request that was never answered is not replaced by the next one.
SentKeepsOld(p, tx, retried) ==
    [port[p] EXCEPT !.seq = NextSeq(@),
                    !.out = IF @ # NoRequest /\ ~retried THEN @
                            ELSE [seq |-> port[p].seq, tx |-> tx,
                                  retried |-> retried]]

\* #send(): the request is remembered with the sequence number it goes out with.
Sent(p, tx, retried) ==
    [port[p] EXCEPT !.seq = NextSeq(@),
                    !.out = [seq |-> port[p].seq, tx |-> tx, retried |-> retried]]

-----------------------------------------------------------------------------
(* Connecting *)

Hushed(pt) == [pt EXCEPT !.timer = FALSE, !.probing = FALSE]

\* Mutant: close() leaves the timer of the probe running.
ClosedArmed(pt) == [pt EXCEPT !.sock = IF @ = "dead" THEN @ ELSE "ending"]

\* The port's close(): no timer and no probe outlives it.
Closed(pt) == [Hushed(pt) EXCEPT !.sock = IF @ = "dead" THEN @ ELSE "ending"]

\* The operations that wait for the connect fail with it.
WaitersFail ==
    /\ connecting' = 0
    /\ waiters' = <<>>
    /\ op' = [o \in Ops |-> IF op[o].st = "connecting" THEN Idle ELSE op[o]]

\* The socket of port p is gone, and what was on it.  A connect that was not
\* settled fails, and a close() that waited returns.
Dropped(p, pt) ==
    /\ port' = [port EXCEPT ![p] =
                  [Hushed(pt) EXCEPT !.open = FALSE, !.sock = "dead"]]
    /\ wire' = {m \in wire : m.port # p}
    /\ replies' = {r \in replies : r.msg.port # p}
    /\ IF connecting = p THEN WaitersFail ELSE UNCHANGED <<connecting, waiters, op>>
    /\ IF closing = p
       THEN closing' = 0 /\ client' = 0
       ELSE UNCHANGED <<closing, client>>
    /\ UNCHANGED <<lock, begun, lastTx, foreign, refused, planVars, configured, closes>>

\* #finishProbe() with a serial to use: the port is open, getClient() makes it
\* the client, and who waited queues for the lock.
Opened(p) ==
    /\ port' = [port EXCEPT ![p] = [Hushed(@) EXCEPT !.open = TRUE]]
    /\ IF connecting = p
       THEN /\ client' = p
            /\ connecting' = 0
            /\ waiters' = <<>>
            /\ lock' = lock \o waiters
            /\ op' = [o \in Ops |->
                        IF op[o].st = "connecting"
                        THEN [st |-> "queued", port |-> p, tx |-> 0] ELSE op[o]]
       ELSE UNCHANGED <<client, connecting, waiters, lock, op>>
    /\ UNCHANGED <<begun, lastTx, foreign, planVars, configured, closes, closing>>

\* The socket connects: #handleConnect() sends the discovery probe.
SocketConnects(p) ==
    /\ port[p].sock = "connecting"
    /\ port' = [port EXCEPT ![p].sock = "connected", ![p].probing = TRUE,
                            ![p].timer = TRUE, ![p].seq = NextSeq(@)]
    /\ wire' = wire \union {[port |-> p, seq |-> port[p].seq, tx |-> 0,
                             retried |-> FALSE]}
    /\ UNCHANGED <<dialVars, opVars, replies, refused, planVars, configured,
                   closes, closing>>

\* The port's own timer: the connect deadline, or a probe without an answer.
PortTimer(p) ==
    /\ port[p].timer
    /\ IF port[p].probing /\ configured
       THEN Opened(p) /\ UNCHANGED linkVars
       ELSE Dropped(p, port[p])

\* The socket closes or fails, at any time: #handleClose(), #handleError().
SocketLost(p) ==
    /\ port[p].sock \in {"connecting", "connected", "ending"}
    /\ Dropped(p, port[p])

\* getClient()'s own deadline for the whole connect.
DeadlineFires ==
    /\ connecting # 0
    /\ port' = [port EXCEPT ![connecting] = Closed(@)]
    /\ WaitersFail
    /\ UNCHANGED <<client, lock, begun, lastTx, foreign, linkVars, planVars, configured,
                   closes, closing>>

\* close() of the transport: it waits for an open client's port to close, and
\* does not look at a connect that is under way.
Close ==
    /\ closes < MaxCloses
    /\ closing = 0
    /\ closes' = closes + 1
    /\ IF client # 0 /\ port[client].open
       THEN /\ port' = [port EXCEPT ![client] = Closed(@)]
            /\ closing' = client
            /\ UNCHANGED client
       ELSE /\ client' = 0
            /\ UNCHANGED <<port, closing>>
    /\ UNCHANGED <<connecting, waiters, opVars, linkVars, planVars, configured>>

-----------------------------------------------------------------------------
(* Operations *)

\* read() or write() asks for the client: the one that is open, the one that is
\* being dialled, or a new dial.
Begin(o) ==
    /\ op[o].st = "idle"
    /\ begun < MaxOps
    /\ begun' = begun + 1
    /\ IF client # 0 /\ port[client].open
       THEN /\ op' = [op EXCEPT ![o] = [st |-> "queued", port |-> client, tx |-> 0]]
            /\ lock' = Append(lock, o)
            /\ UNCHANGED <<port, connecting, waiters>>
       ELSE /\ op' = [op EXCEPT ![o].st = "connecting"]
            /\ waiters' = Append(waiters, o)
            /\ UNCHANGED lock
            /\ IF connecting # 0
               THEN UNCHANGED <<port, connecting>>
               ELSE \E p \in Ports :
                      /\ port[p].sock = "none"
                      /\ \A q \in Ports : q < p => port[q].sock # "none"
                      /\ connecting' = p
                      /\ port' = [port EXCEPT ![p] =
                                    [NewPort EXCEPT !.sock = "connecting",
                                                    !.timer = TRUE]]
    /\ UNCHANGED <<client, lastTx, foreign, linkVars, planVars, configured, closes,
                   closing>>

\* The lock is the operation's: one Modbus transaction starts on the client it
\* was given.  write() of a port that is no longer open drops the request.
Transact(o, p, tx) ==
    /\ lastTx' = tx
    /\ op' = [op EXCEPT ![o] = [st |-> "active", port |-> p, tx |-> tx]]
    /\ IF port[p].open
       THEN /\ port' = [port EXCEPT ![p] = Sent(p, tx, FALSE)]
            /\ Put(p, tx, FALSE)
       ELSE UNCHANGED <<port, wire, replies>>

StartTx(o) ==
    /\ lock # <<>> /\ Head(lock) = o
    /\ op[o].st = "queued"
    /\ Transact(o, op[o].port, lastTx + 1)
    /\ UNCHANGED <<dialVars, lock, begun, foreign, refused, planVars, configured, closes,
                   closing>>

\* The operation ends and hands the lock on.
Finish(o) ==
    /\ op' = [op EXCEPT ![o] = Idle]
    /\ lock' = Tail(lock)

\* Mutant: a transaction that fails keeps the lock.
TxTimeoutKeepsLock(o) ==
    /\ op[o].st = "active"
    /\ op' = [op EXCEPT ![o] = Idle]
    /\ UNCHANGED <<port, dialVars, lock, begun, lastTx, foreign, linkVars, planVars,
                   configured, closes, closing>>

\* modbus-serial gives up on the transaction; the port still remembers it.
TxTimeout(o) ==
    /\ op[o].st = "active"
    /\ Finish(o)
    /\ UNCHANGED <<port, dialVars, begun, lastTx, foreign, linkVars, planVars, configured,
                   closes, closing>>

-----------------------------------------------------------------------------
(* The stick *)

\* The stick answers a request, or refuses it; one it never answers is lost.
Answer(m) ==
    /\ m \in wire
    /\ wire' = wire \ {m}
    /\ \E kind \in {"data"} \union Statuses :
         /\ replies' = replies \union {[msg |-> m, kind |-> kind]}
         /\ refused' = IF kind = "05" /\ m.tx # 0
                       THEN refused \union {<<m.tx, m.retried>>} ELSE refused
    /\ UNCHANGED <<port, dialVars, opVars, planVars, configured, closes, closing>>

\* The operation modbus-serial has a transaction of on port p, if any.
Pending(p) == {o \in Ops : op[o].st = "active" /\ op[o].port = p}

\* Mutant: any reply answers what is outstanding.
AnswersAny(r) == port[r.msg.port].out # NoRequest

\* A reply with the sequence number of the outstanding request.
Answers(r) ==
    LET out == port[r.msg.port].out
    IN  out # NoRequest /\ out.seq = r.msg.seq

\* #retryTransient(): a request refused with 05 is asked once more.
Retries(r) ==
    LET pt == port[r.msg.port]
    IN  r.kind = "05" /\ ~pt.out.retried /\ pt.open

\* The exception of a twice refused read of the grouped block: narrow() splits
\* the plan for good and reads the parts; any other exception fails the
\* operation.
Refuse(o, code) ==
    IF o = Poll /\ code = "05" /\ spanning
    THEN /\ spanning' = FALSE
         /\ degraded' = TRUE
         /\ op' = [op EXCEPT ![o].st = "queued"]
         /\ UNCHANGED lock
    ELSE /\ Finish(o)
         /\ UNCHANGED planVars

\* #handleFrame(): a reply arrives.  It may arrive again: it is dropped only when
\* its sequence number comes round or its socket goes.
Deliver(r) ==
    LET p  == r.msg.port
        pt == port[p]
    IN  /\ r \in replies
        /\ IF pt.probing
           THEN Opened(p) /\ UNCHANGED linkVars
           ELSE /\ Answers(r)
                /\ IF Retries(r)
                   THEN /\ port' = [port EXCEPT ![p] = Sent(p, pt.out.tx, TRUE)]
                        /\ Put(p, pt.out.tx, TRUE)
                        /\ UNCHANGED <<opVars, planVars>>
                   ELSE /\ port' = [port EXCEPT ![p].out = NoRequest]
                        /\ UNCHANGED <<wire, replies, begun, lastTx>>
                        /\ IF Pending(p) = {}
                           THEN UNCHANGED <<op, lock, foreign, planVars>>
                           ELSE \E o \in Pending(p) :
                                  IF r.kind = "data"
                                  THEN /\ Finish(o)
                                       /\ foreign' = IF r.msg.tx = op[o].tx THEN foreign
                                                     ELSE foreign \union {op[o].tx}
                                       /\ UNCHANGED planVars
                                  ELSE Refuse(o, r.kind) /\ UNCHANGED foreign
                /\ UNCHANGED <<dialVars, refused, configured, closes, closing>>

-----------------------------------------------------------------------------
Next ==
    \/ \E p \in Ports : SocketConnects(p) \/ PortTimer(p) \/ SocketLost(p)
    \/ DeadlineFires
    \/ Close
    \/ \E o \in Ops : Begin(o) \/ StartTx(o) \/ TxTimeout(o)
    \/ \E m \in wire : Answer(m)
    \/ \E r \in replies : Deliver(r)

\* The timers fire and the promise chain moves on; the stick, the socket and
\* the callers owe nothing.
Fairness ==
    /\ WF_vars(DeadlineFires)
    /\ \A o \in Ops : WF_vars(StartTx(o)) /\ WF_vars(TxTimeout(o))

Spec == Init /\ [][Next]_vars /\ Fairness

-----------------------------------------------------------------------------
\* The value a transaction is answered with is the answer to that transaction's
\* own request, although replies come late, twice and out of order, requests
\* time out while the port still remembers them, and sequence numbers wrap.
AnsweredByOwnReply == foreign = {}

\* A port is open only as the transport's client: one that getClient() gave up
\* on, or that was closed while its probe was out, never opens behind it, so
\* there is never a second open connection.
OpenIsClient == \A p \in Ports : port[p].open => p = client

\* The read plan is split for good only when the stick refused both attempts at
\* one and the same request: one busy moment, a duplicate refusal or a late one
\* never degrades the samples.
SplitAfterTwoRefusals ==
    degraded => \E t \in Tx : {<<t, FALSE>>, <<t, TRUE>>} \subseteq refused

\* A retry never follows a newer request onto the wire: what was timed out and
\* replaced is not written again, so the register keeps the latest value.
NothingOvertaken ==
    [][\A m \in wire' \ wire : m.tx \in {0, lastTx'}]_vars

\* Every read and write ends, with a value or an error: no connect, lost reply
\* or operation before it in the queue holds it for ever.
EveryOpEnds == \A o \in Ops : op[o].st # "idle" ~> op[o].st = "idle"
=============================================================================
