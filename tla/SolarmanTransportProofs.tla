----------------------- MODULE SolarmanTransportProofs -----------------------
(***************************************************************************)
(* Proofs about SolarmanTransport for any number of ports, operations and  *)
(* calls of close(), and any modulus of the sequence numbers.              *)
(***************************************************************************)
EXTENDS SolarmanTransport, FiniteSetTheorems, TLAPS

\* Operations in the promise chain of the lock, and those that wait for a connect.
Chained == {o \in Ops : op[o].st \in {"queued", "active"}}
Waiting == {o \in Ops : op[o].st = "connecting"}

\* s lists the members of S, each once.
Lists(s, S) ==
    /\ s \in Seq(Ops)
    /\ \A i, j \in 1..Len(s) : s[i] = s[j] => i = j
    /\ S = {s[i] : i \in 1..Len(s)}

\* The queues hold the operations whose state says so, and the one that has a
\* transaction is first.
Queues ==
    /\ Lists(lock, Chained)
    /\ Lists(waiters, Waiting)
    /\ \A o \in Ops : op[o].st = "active" => Head(lock) = o

\* A port has a timer or a probe only while it is dialled, and a request only
\* once it is open.
Phases ==
    \A p \in Ports :
      /\ port[p].sock = "connecting" \/ port[p].probing \/ port[p].timer => connecting = p
      /\ port[p].probing => port[p].sock = "connected"
      /\ port[p].open => port[p].sock \in {"connected", "ending"}
      /\ port[p].out # NoRequest => port[p].open \/ port[p].sock = "dead"

\* Nothing is open while a port is dialled, and close() waits for the open client.
Alone ==
    /\ connecting # 0 => \A p \in Ports : ~port[p].open
    /\ closing # 0 => client = closing /\ port[closing].open

\* The request an open port remembers, and the transaction under way, are the
\* latest; a retried request has been refused once.
Latest ==
    /\ \A p \in Ports : port[p].out # NoRequest =>
         /\ port[p].out.tx \in 1..lastTx
         /\ port[p].open => port[p].out.tx = lastTx
         /\ port[p].out.retried => <<port[p].out.tx, FALSE>> \in refused
    /\ \A o \in Ops : op[o].st = "active" => op[o].tx = lastTx

\* An operation was given an open port; those behind one that is still open,
\* or whose request it remembers, were given the same.
SamePort ==
    /\ \A o \in Chained : /\ op[o].port \in Ports
                          /\ port[op[o].port].open \/ port[op[o].port].sock = "dead"
    /\ \A o \in Chained : Head(lock) = o /\ port[op[o].port].open =>
         \A x \in Chained : op[x].port = op[o].port
    /\ \A p \in Ports : port[p].open /\ port[p].out # NoRequest =>
         \A x \in Chained : op[x].port = p

\* A message whose number is the one a port waits for belongs to the request it
\* waits for, and a refusal on its way back is on record.
Belongs(m) ==
    LET out == port[m.port].out
    IN  /\ port[m.port].sock # "dead"
        /\ out # NoRequest /\ out.seq = m.seq => m.tx = out.tx /\ m.retried = out.retried
Matched ==
    /\ \A m \in wire : Belongs(m)
    /\ \A r \in replies : /\ Belongs(r.msg)
                          /\ r.kind = "05" /\ r.msg.tx # 0 => <<r.msg.tx, r.msg.retried>> \in refused

\* An operation starts one transaction, and the split of the plan one more.
Due(o) == IF op[o].st \in {"connecting", "queued"} THEN 1 ELSE 0
Counted ==
    /\ spanning = ~degraded
    /\ lastTx + Due(Poll) + Due(Setting) <= begun + (IF degraded THEN 1 ELSE 0)

(***************************************************************************)
(* The inductive invariant.  A late reply is told from the awaited one by  *)
(* its number alone, so it matters that a number is cleared of messages    *)
(* when it is used again; that an answer belongs to the operation, and not *)
(* to an earlier one, needs the order of the lock.                         *)
(***************************************************************************)
Support == TypeOK /\ Queues /\ Phases /\ Alone /\ Latest /\ SamePort /\ Matched /\ Counted
IInv == Support /\ OpenIsClient /\ AnsweredByOwnReply /\ SplitAfterTwoRefusals

-----------------------------------------------------------------------------
(* Queues *)

\* An empty queue lists nobody, and only an empty one.
LEMMA ListsNobody ==
    /\ Lists(<<>>, {})
    /\ \A s, S : Lists(s, S) => (s = <<>> <=> S = {})
<1>1. Lists(<<>>, {})
    BY DEF Lists
<1>2. ASSUME NEW s, NEW S, Lists(s, S) PROVE s = <<>> <=> S = {}
    <2>1. s \in Seq(Ops) /\ S = {s[i] : i \in 1..Len(s)}
        BY <1>2 DEF Lists
    <2>2. s # <<>> => s[1] \in S
        BY <2>1
    <2>3. s = <<>> => S = {}
        BY <2>1
    <2> QED
        BY <2>2, <2>3
<1> QED
    BY <1>1, <1>2

\* An operation that joins a queue goes to its end.
LEMMA ListsAppend ==
    ASSUME NEW s, NEW S, Lists(s, S), NEW o \in Ops, o \notin S
    PROVE  /\ Lists(Append(s, o), S \union {o})
           /\ Head(Append(s, o)) = IF S = {} THEN o ELSE Head(s)
<1>1. s \in Seq(Ops) /\ S = {s[i] : i \in 1..Len(s)} /\ \A i, j \in 1..Len(s) : s[i] = s[j] => i = j
    BY DEF Lists
<1> DEFINE t == Append(s, o)
<1>2. /\ t \in Seq(Ops) /\ Len(t) = Len(s) + 1 /\ t[Len(s) + 1] = o
      /\ \A i \in 1..Len(s) : t[i] = s[i]
    BY <1>1
<1>3. Len(s) \in Nat /\ \A i \in 1..Len(s) : s[i] \in S
    BY <1>1
<1> HIDE DEF t
<1>4. \A i, j \in 1..Len(t) : t[i] = t[j] => i = j
    BY <1>1, <1>2, <1>3
<1>5. S \union {o} = {t[i] : i \in 1..Len(t)}
    <2>1. \A x \in S \union {o} : \E i \in 1..Len(t) : x = t[i]
        BY <1>1, <1>2, <1>3
    <2>2. \A i \in 1..Len(t) : t[i] \in S \union {o}
        BY <1>2, <1>3
    <2> QED
        BY <2>1, <2>2
<1>6. Head(t) = t[1] /\ (s # <<>> => Head(s) = s[1] /\ Len(s) >= 1) /\ (s = <<>> => Len(s) = 0)
    BY <1>1, <1>2
<1>7. Head(t) = IF S = {} THEN o ELSE Head(s)
    BY <1>2, <1>3, <1>6, ListsNobody
<1> QED
    BY <1>2, <1>4, <1>5, <1>7 DEF Lists, t

\* Who is first leaves the queue.
LEMMA ListsTail ==
    ASSUME NEW s, NEW S, Lists(s, S), s # <<>>
    PROVE  Head(s) \in S /\ Lists(Tail(s), S \ {Head(s)})
<1>1. s \in Seq(Ops) /\ S = {s[i] : i \in 1..Len(s)} /\ \A i, j \in 1..Len(s) : s[i] = s[j] => i = j
    BY DEF Lists
<1> DEFINE t == Tail(s)
<1>2. /\ t \in Seq(Ops) /\ Len(s) \in Nat /\ Len(s) >= 1 /\ Len(t) = Len(s) - 1 /\ Head(s) = s[1]
      /\ \A i \in 1..Len(t) : t[i] = s[i + 1]
    BY <1>1
<1> HIDE DEF t
<1>3. \A i, j \in 1..Len(t) : t[i] = t[j] => i = j
    <2> SUFFICES ASSUME NEW i \in 1..Len(t), NEW j \in 1..Len(t), t[i] = t[j] PROVE i = j
        OBVIOUS
    <2>1. i + 1 \in 1..Len(s) /\ j + 1 \in 1..Len(s) /\ s[i + 1] = s[j + 1]
        BY <1>2
    <2> QED
        BY <1>1, <2>1
<1>4. S \ {Head(s)} = {t[i] : i \in 1..Len(t)}
    <2>1. ASSUME NEW x \in S \ {Head(s)} PROVE \E i \in 1..Len(t) : x = t[i]
        <3>1. PICK k \in 1..Len(s) : x = s[k]
            BY <1>1
        <3>2. k # 1
            BY <1>2, <3>1
        <3>3. k - 1 \in 1..Len(t) /\ t[k - 1] = s[(k - 1) + 1] /\ (k - 1) + 1 = k
            BY <1>2, <3>2
        <3> QED
            BY <3>1, <3>3
    <2>2. ASSUME NEW i \in 1..Len(t) PROVE t[i] \in S \ {Head(s)}
        <3>1. i + 1 \in 1..Len(s) /\ i + 1 # 1 /\ 1 \in 1..Len(s) /\ t[i] = s[i + 1]
            BY <1>2
        <3> QED
            BY <1>1, <1>2, <3>1
    <2> QED
        BY <2>1, <2>2
<1>5. Head(s) \in S
    BY <1>1, <1>2
<1> QED
    BY <1>2, <1>3, <1>4, <1>5 DEF Lists, t

\* A queue that joins another goes behind it.
LEMMA ListsConcat ==
    ASSUME NEW s, NEW S, Lists(s, S), NEW t, NEW T, Lists(t, T), S \intersect T = {}
    PROVE  /\ Lists(s \o t, S \union T)
           /\ S # {} => Head(s \o t) = Head(s)
<1>1. s \in Seq(Ops) /\ S = {s[i] : i \in 1..Len(s)} /\ \A i, j \in 1..Len(s) : s[i] = s[j] => i = j
    BY DEF Lists
<1>2. t \in Seq(Ops) /\ T = {t[i] : i \in 1..Len(t)} /\ \A i, j \in 1..Len(t) : t[i] = t[j] => i = j
    BY DEF Lists
<1> DEFINE u == s \o t
<1>3. /\ u \in Seq(Ops) /\ Len(u) = Len(s) + Len(t) /\ Len(s) \in Nat /\ Len(t) \in Nat
      /\ \A i \in 1..Len(s) : u[i] = s[i]
      /\ \A i \in 1..Len(t) : u[Len(s) + i] = t[i]
    BY <1>1, <1>2
<1>4. s # <<>> => Head(u) = Head(s)
    BY <1>1, <1>2
<1> HIDE DEF u
<1>5. \A i \in 1..Len(u) : \/ i \in 1..Len(s) /\ u[i] = s[i] /\ u[i] \in S
                           \/ i - Len(s) \in 1..Len(t) /\ u[i] = t[i - Len(s)] /\ u[i] \in T
    <2> SUFFICES ASSUME NEW i \in 1..Len(u), ~(i \in 1..Len(s))
                 PROVE  i - Len(s) \in 1..Len(t) /\ u[i] = t[i - Len(s)] /\ u[i] \in T
        BY <1>1, <1>3
    <2>1. i - Len(s) \in 1..Len(t) /\ Len(s) + (i - Len(s)) = i
        BY <1>3
    <2>2. u[Len(s) + (i - Len(s))] = t[i - Len(s)]
        BY <1>3, <2>1
    <2> QED
        BY <1>2, <2>1, <2>2
<1>6. \A i, j \in 1..Len(u) : u[i] = u[j] => i = j
    <2> SUFFICES ASSUME NEW i \in 1..Len(u), NEW j \in 1..Len(u), u[i] = u[j] PROVE i = j
        OBVIOUS
    <2>1. CASE u[i] \in S
        BY <1>1, <1>5, <2>1
    <2>2. CASE u[i] \in T
        <3>1. i - Len(s) \in 1..Len(t) /\ j - Len(s) \in 1..Len(t)
              /\ t[i - Len(s)] = t[j - Len(s)]
            BY <1>5, <2>2
        <3>2. i - Len(s) = j - Len(s)
            BY <1>2, <3>1
        <3> QED
            BY <1>3, <3>2
    <2> QED
        BY <1>5, <2>1, <2>2
<1>7. S \union T = {u[i] : i \in 1..Len(u)}
    <2>1. ASSUME NEW x \in S PROVE \E i \in 1..Len(u) : x = u[i]
        <3>1. PICK k \in 1..Len(s) : x = s[k]
            BY <1>1
        <3> QED
            BY <1>3, <3>1
    <2>2. ASSUME NEW x \in T PROVE \E i \in 1..Len(u) : x = u[i]
        <3>1. PICK k \in 1..Len(t) : x = t[k]
            BY <1>2
        <3>2. Len(s) + k \in 1..Len(u)
            BY <1>3
        <3> QED
            BY <1>3, <3>1, <3>2
    <2> QED
        BY <1>5, <2>1, <2>2
<1>8. Lists(u, S \union T)
    BY <1>3, <1>6, <1>7 DEF Lists
<1>9. S # {} => s # <<>>
    BY ListsNobody
<1> QED
    BY <1>4, <1>8, <1>9 DEF u

\* There are two operations.
LEMMA TwoOps == Cardinality(Ops) = 2
<1>1. Poll # Setting
    BY BoundsAssumption
<1>2. IsFiniteSet({Poll}) /\ Cardinality({Poll}) = 1
    BY FS_Singleton
<1>3. Cardinality({Poll} \cup {Setting}) = Cardinality({Poll}) + 1
    BY <1>1, <1>2, FS_AddElement
<1>4. Ops = {Poll} \cup {Setting}
    BY DEF Ops
<1> QED
    BY <1>2, <1>3, <1>4

\* Two queues that share nobody are together no longer than the operations are many.
LEMMA ListsShort ==
    ASSUME NEW s, NEW S, Lists(s, S), NEW t, NEW T, Lists(t, T), S \intersect T = {}
    PROVE  Len(s) + Len(t) <= Cardinality(Ops)
<1> DEFINE u == s \o t
<1>1. Lists(u, S \union T)
    BY ListsConcat
<1>2. Len(u) = Len(s) + Len(t) /\ Len(u) \in Nat
    BY DEF Lists
<1> HIDE DEF u
<1>3. u \in Seq(Ops) /\ \A i, j \in 1..Len(u) : u[i] = u[j] => i = j
    BY <1>1 DEF Lists
<1>4. ASSUME Len(u) > 2 PROVE FALSE
    <2>1. 1 \in 1..Len(u) /\ 2 \in 1..Len(u) /\ 3 \in 1..Len(u)
        BY <1>2, <1>4
    <2>2. u[1] # u[2] /\ u[1] # u[3] /\ u[2] # u[3]
        BY <1>3, <2>1
    <2>3. u[1] \in Ops /\ u[2] \in Ops /\ u[3] \in Ops
        BY <1>3, <2>1
    <2> QED
        BY <2>2, <2>3 DEF Ops
<1> QED
    BY <1>2, <1>4, TwoOps

-----------------------------------------------------------------------------
(* Ports *)

\* The bounds are numbers, and a fresh port has its type.
LEMMA Bounds ==
    /\ MaxTx \in Nat /\ MaxPorts \in Nat /\ MaxOps \in Nat /\ MaxTx = MaxOps + 1
    /\ 0 \in Seqs /\ 0 \notin Ports /\ Poll # Setting
    /\ \A x \in Seqs : NextSeq(x) \in Seqs
    /\ NoRequest \in Request /\ NewPort \in PortType /\ Idle \in OpType
<1>1. /\ MaxTx \in Nat /\ MaxPorts \in Nat /\ MaxOps \in Nat /\ MaxTx = MaxOps + 1
      /\ 0 \in Seqs /\ 0 \notin Ports /\ Poll # Setting /\ 0 \in 0..MaxTx
    BY BoundsAssumption DEF MaxTx, Seqs, Ports
<1>2. \A x \in Seqs : NextSeq(x) \in Seqs
    BY BoundsAssumption DEF NextSeq, Seqs
<1>3. NoRequest \in Request
    BY <1>1 DEF NoRequest, Request
<1>4. NewPort \in PortType
    BY <1>1, <1>3 DEF NewPort, PortType
<1>5. Idle \in OpType
    BY <1>1 DEF Idle, OpType
<1> QED
    BY <1>1, <1>2, <1>3, <1>4, <1>5

\* What the port's close(), its failure and its probe's answer do to it.
LEMMA Fields ==
    ASSUME NEW pt \in PortType
    PROVE  LET closed == Closed(pt)
               gone   == [Hushed(pt) EXCEPT !.open = FALSE, !.sock = "dead"]
               opened == [Hushed(pt) EXCEPT !.open = TRUE]
           IN  /\ closed \in PortType /\ ~closed.timer /\ ~closed.probing
               /\ closed.open = pt.open /\ closed.out = pt.out /\ closed.seq = pt.seq
               /\ closed.sock = IF pt.sock = "dead" THEN "dead" ELSE "ending"
               /\ gone \in PortType /\ ~gone.timer /\ ~gone.probing
               /\ ~gone.open /\ gone.out = pt.out /\ gone.seq = pt.seq /\ gone.sock = "dead"
               /\ opened \in PortType /\ ~opened.timer /\ ~opened.probing
               /\ opened.open /\ opened.out = pt.out /\ opened.seq = pt.seq
               /\ opened.sock = pt.sock
BY DEF PortType, Hushed, Closed

\* A request that is sent is remembered with the number it goes out with.
LEMMA SentFields ==
    ASSUME TypeOK, NEW p \in Ports, NEW tx \in 0..MaxTx, NEW retried \in BOOLEAN
    PROVE  LET pt == port[p]
               sent == Sent(p, tx, retried)
           IN  /\ sent \in PortType /\ sent.timer = pt.timer /\ sent.probing = pt.probing
               /\ sent.open = pt.open /\ sent.sock = pt.sock
               /\ sent.out = [seq |-> pt.seq, tx |-> tx, retried |-> retried]
<1>1. port[p] \in PortType /\ port[p].seq \in Seqs /\ NextSeq(port[p].seq) \in Seqs
    BY Bounds DEF TypeOK, PortType
<1>2. [seq |-> port[p].seq, tx |-> tx, retried |-> retried] \in Request
    BY <1>1 DEF Request
<1> QED
    BY <1>1, <1>2 DEF Sent, PortType

-----------------------------------------------------------------------------
(* The steps of connecting *)

\* The operations that are not waiting for a connect do not notice that one fails.
LEMMA Failing ==
    ASSUME Support, lock' = lock, WaitersFail \/ UNCHANGED <<connecting, waiters, op>>
    PROVE  /\ op' \in [Ops -> OpType] /\ waiters' \in Seq(Ops) /\ Queues'
           /\ Len(waiters') + Len(lock') <= Cardinality(Ops)
           /\ Chained' = Chained /\ \A o \in Ops : op'[o].st \in {"queued", "active"} => op'[o] = op[o]
           /\ Due(Poll)' <= Due(Poll) /\ Due(Setting)' <= Due(Setting)
           /\ Due(Poll)' \in Nat /\ Due(Setting)' \in Nat
           /\ Due(Poll) \in Nat /\ Due(Setting) \in Nat
<1>0. op \in [Ops -> OpType] /\ waiters \in Seq(Ops) /\ Queues /\ Poll \in Ops /\ Setting \in Ops
    BY DEF Support, TypeOK, Ops
<1>1. Len(waiters) + Len(lock) <= Cardinality(Ops)
    BY DEF Support, TypeOK
<1>2. CASE UNCHANGED <<connecting, waiters, op>>
    BY <1>0, <1>1, <1>2 DEF Queues, Chained, Waiting, Due
<1>3. CASE WaitersFail
    <2>1. /\ waiters' = <<>>
          /\ op' = [o \in Ops |-> IF op[o].st = "connecting" THEN Idle ELSE op[o]]
        BY <1>3 DEF WaitersFail
    <2>2. op' \in [Ops -> OpType]
        BY <1>0, <2>1, Bounds
    <2>3. \A o \in Ops : /\ op[o].st = "connecting" => op'[o].st = "idle"
                         /\ op[o].st # "connecting" => op'[o] = op[o]
        BY <2>1 DEF Idle
    <2>4. Waiting' = {} /\ Chained' = Chained
        BY <2>3 DEF Waiting, Chained
    <2>5. Queues'
        BY <1>0, <2>1, <2>3, <2>4, ListsNobody DEF Queues
    <2>6. Len(waiters') + Len(lock') <= Cardinality(Ops)
        BY <1>0, <2>1, <2>4, ListsShort, ListsNobody DEF Queues
    <2>7. /\ Due(Poll)' <= Due(Poll) /\ Due(Setting)' <= Due(Setting)
          /\ Due(Poll)' \in Nat /\ Due(Setting)' \in Nat
          /\ Due(Poll) \in Nat /\ Due(Setting) \in Nat
        BY <1>0, <2>3 DEF Due
    <2>8. \A o \in Ops : op'[o].st \in {"queued", "active"} => op'[o] = op[o]
        BY <2>3
    <2> QED
        BY <2>1, <2>2, <2>4, <2>5, <2>6, <2>7, <2>8
<1> QED
    BY <1>2, <1>3

\* The socket of a port is gone.
LEMMA DroppedKeeps ==
    ASSUME IInv, NEW p \in Ports, Dropped(p, port[p])
    PROVE  IInv'
<1> DEFINE gone == [Hushed(port[p]) EXCEPT !.open = FALSE, !.sock = "dead"]
<1>0. Support /\ TypeOK /\ Queues /\ Phases /\ Alone /\ Latest /\ SamePort /\ Matched /\ Counted
    BY DEF IInv, Support
<1>1. /\ port' = [port EXCEPT ![p] = gone]
      /\ wire' = {m \in wire : m.port # p} /\ replies' = {r \in replies : r.msg.port # p}
      /\ WaitersFail \/ UNCHANGED <<connecting, waiters, op>>
      /\ connecting' = IF connecting = p THEN 0 ELSE connecting
      /\ closing' = IF closing = p THEN 0 ELSE closing
      /\ client' = IF closing = p THEN 0 ELSE client
      /\ UNCHANGED <<lock, begun, lastTx, foreign, refused, spanning, degraded, configured, closes>>
    BY DEF Dropped, WaitersFail, planVars
<1>2. port \in [Ports -> PortType] /\ port[p] \in PortType
    BY <1>0 DEF TypeOK
<1>3. gone \in PortType /\ ~gone.timer /\ ~gone.probing /\ ~gone.open /\ gone.out = port[p].out
      /\ gone.sock = "dead"
    BY <1>2, Fields
<1> HIDE DEF gone
<1>4. /\ port' \in [Ports -> PortType] /\ port'[p] = gone
      /\ \A q \in Ports : q # p => port'[q] = port[q]
    BY <1>1, <1>2, <1>3
<1>5. /\ op' \in [Ops -> OpType] /\ waiters' \in Seq(Ops) /\ Queues'
      /\ Len(waiters') + Len(lock') <= Cardinality(Ops)
      /\ Chained' = Chained /\ \A o \in Ops : op'[o].st \in {"queued", "active"} => op'[o] = op[o]
      /\ Due(Poll)' <= Due(Poll) /\ Due(Setting)' <= Due(Setting)
      /\ Due(Poll)' \in Nat /\ Due(Setting)' \in Nat
      /\ Due(Poll) \in Nat /\ Due(Setting) \in Nat
    BY <1>0, <1>1, Failing
<1>6. TypeOK'
    BY <1>0, <1>1, <1>4, <1>5 DEF TypeOK
<1>7. Phases'
    BY <1>0, <1>1, <1>3, <1>4 DEF Phases
<1>8. Alone' /\ OpenIsClient'
    BY <1>0, <1>1, <1>3, <1>4, Bounds DEF TypeOK, IInv, Alone, OpenIsClient
<1>9. Latest'
    BY <1>0, <1>1, <1>3, <1>4, <1>5 DEF Latest
<1>10. \A o \in Chained : op'[o] = op[o] /\ o \in Ops
    BY <1>5 DEF Chained
<1>11. SamePort'
    <2>1. \A o \in Chained' : /\ op'[o].port \in Ports
                              /\ port'[op'[o].port].open \/ port'[op'[o].port].sock = "dead"
        BY <1>0, <1>3, <1>4, <1>5, <1>10 DEF SamePort
    <2>2. \A q \in Ports : port'[q].open => q # p /\ port'[q] = port[q]
        BY <1>3, <1>4
    <2>3. \A o \in Chained' : Head(lock') = o /\ port'[op'[o].port].open =>
            \A x \in Chained' : op'[x].port = op'[o].port
        BY <1>0, <1>1, <1>5, <1>10, <2>1, <2>2 DEF SamePort
    <2>4. \A q \in Ports : port'[q].open /\ port'[q].out # NoRequest =>
            \A x \in Chained' : op'[x].port = q
        BY <1>0, <1>5, <1>10, <2>2 DEF SamePort
    <2> QED
        BY <2>1, <2>3, <2>4 DEF SamePort
<1>12. Matched'
    <2>1. \A m \in Message : m.port # p /\ m.port \in Ports /\ Belongs(m) => Belongs(m)'
        BY <1>4 DEF Belongs
    <2>2. \A m \in wire : m \in Message /\ m.port \in Ports
        BY <1>0 DEF TypeOK, Message
    <2>3. \A r \in replies : r.msg \in Message /\ r.msg.port \in Ports
        BY <1>0 DEF TypeOK, Reply, Message
    <2>4. \A m \in wire' : Belongs(m)'
        BY <1>0, <1>1, <2>1, <2>2 DEF Matched
    <2>5. \A r \in replies' : Belongs(r.msg)'
        BY <1>0, <1>1, <2>1, <2>3 DEF Matched
    <2>6. \A r \in replies' : r.kind = "05" /\ r.msg.tx # 0 => <<r.msg.tx, r.msg.retried>> \in refused'
        BY <1>0, <1>1 DEF Matched
    <2> QED
        BY <2>4, <2>5, <2>6 DEF Matched
<1>13. Counted'
    <2>1. lastTx \in Nat /\ begun \in Nat
        BY <1>0, Bounds DEF TypeOK
    <2> QED
        BY <1>0, <1>1, <1>5, <2>1 DEF Counted
<1>14. AnsweredByOwnReply' /\ SplitAfterTwoRefusals'
    BY <1>1 DEF IInv, AnsweredByOwnReply, SplitAfterTwoRefusals
<1> QED
    BY <1>5, <1>6, <1>7, <1>8, <1>9, <1>11, <1>12, <1>13, <1>14 DEF IInv, Support

\* Requests, operations and messages only depend on what is open, remembered or dead.
LEMMA Unnoticed ==
    ASSUME Support, lock' = lock, lastTx' = lastTx, UNCHANGED <<wire, replies, refused>>,
           \A q \in Ports : /\ (port'[q].open <=> port[q].open) /\ port'[q].out = port[q].out
                            /\ (port'[q].sock = "dead" <=> port[q].sock = "dead"),
           Chained' = Chained,
           \A o \in Ops : op'[o].st \in {"queued", "active"} => op'[o] = op[o]
    PROVE  Latest' /\ SamePort' /\ Matched'
<1>0. TypeOK /\ Latest /\ SamePort /\ Matched
    BY DEF Support
<1>1. \A o \in Chained : op'[o] = op[o] /\ o \in Ops
    BY DEF Chained
<1>2. Latest'
    BY <1>0 DEF Latest
<1>3. SamePort'
    BY <1>0, <1>1 DEF SamePort
<1>4. Matched'
    <2>1. \A m \in wire : m.port \in Ports
        BY <1>0 DEF TypeOK, Message
    <2>2. \A r \in replies : r.msg.port \in Ports
        BY <1>0 DEF TypeOK, Reply, Message
    <2> QED
        BY <1>0, <2>1, <2>2 DEF Matched, Belongs
<1> QED
    BY <1>2, <1>3, <1>4

\* getClient()'s deadline closes the port it is dialling.
LEMMA DeadlineKeeps ==
    ASSUME IInv, DeadlineFires
    PROVE  IInv'
<1> DEFINE p == connecting
<1>0. Support /\ TypeOK /\ Queues /\ Phases /\ Alone /\ Latest /\ SamePort /\ Matched /\ Counted
    BY DEF IInv, Support
<1>1. /\ p # 0 /\ port' = [port EXCEPT ![p] = Closed(port[p])] /\ WaitersFail /\ connecting' = 0
      /\ UNCHANGED <<client, lock, begun, lastTx, foreign, wire, replies, refused, spanning, degraded,
                     configured, closes, closing>>
    BY DEF DeadlineFires, WaitersFail, linkVars, planVars
<1>2. p \in Ports /\ port \in [Ports -> PortType] /\ port[p] \in PortType
    BY <1>0, <1>1 DEF TypeOK
<1>3. /\ Closed(port[p]) \in PortType /\ ~Closed(port[p]).timer /\ ~Closed(port[p]).probing
      /\ Closed(port[p]).open = port[p].open /\ Closed(port[p]).out = port[p].out
      /\ Closed(port[p]).sock = IF port[p].sock = "dead" THEN "dead" ELSE "ending"
    BY <1>2, Fields
<1>4. /\ port'[p] = Closed(port[p]) /\ port' \in [Ports -> PortType]
      /\ \A q \in Ports : q # p => port'[q] = port[q]
    BY <1>1, <1>2, <1>3
<1> HIDE DEF p
<1>5. \A q \in Ports : /\ (port'[q].open <=> port[q].open) /\ port'[q].out = port[q].out
                       /\ (port'[q].sock = "dead" <=> port[q].sock = "dead")
    BY <1>3, <1>4
<1>6. /\ op' \in [Ops -> OpType] /\ waiters' \in Seq(Ops) /\ Queues'
      /\ Len(waiters') + Len(lock') <= Cardinality(Ops)
      /\ Chained' = Chained /\ \A o \in Ops : op'[o].st \in {"queued", "active"} => op'[o] = op[o]
      /\ Due(Poll)' <= Due(Poll) /\ Due(Setting)' <= Due(Setting)
      /\ Due(Poll)' \in Nat /\ Due(Setting)' \in Nat
      /\ Due(Poll) \in Nat /\ Due(Setting) \in Nat
    BY <1>0, <1>1, Failing
<1>7. TypeOK'
    BY <1>0, <1>1, <1>4, <1>6 DEF TypeOK
<1>8. Phases'
    BY <1>0, <1>1, <1>3, <1>4 DEF Phases, p
<1>9. Alone' /\ OpenIsClient'
    BY <1>0, <1>1, <1>5 DEF TypeOK, IInv, Alone, OpenIsClient
<1>10. Latest' /\ SamePort' /\ Matched'
    BY <1>0, <1>1, <1>5, <1>6, Unnoticed
<1>11. Counted'
    <2>1. lastTx \in Nat /\ begun \in Nat
        BY <1>0, Bounds DEF TypeOK
    <2> QED
        BY <1>0, <1>1, <1>6, <2>1 DEF Counted
<1>12. AnsweredByOwnReply' /\ SplitAfterTwoRefusals'
    BY <1>1 DEF IInv, AnsweredByOwnReply, SplitAfterTwoRefusals
<1> QED
    BY <1>6, <1>7, <1>8, <1>9, <1>10, <1>11, <1>12 DEF IInv, Support

\* close() of the transport closes the open client, or forgets one that is not open.
LEMMA CloseKeeps ==
    ASSUME IInv, Close
    PROVE  IInv'
<1> DEFINE p == client
<1>0. Support /\ TypeOK /\ Queues /\ Phases /\ Alone /\ Latest /\ SamePort /\ Matched /\ Counted
    BY DEF IInv, Support
<1>1. /\ closes < MaxCloses /\ closing = 0 /\ closes' = closes + 1
      /\ UNCHANGED <<connecting, waiters, op, lock, begun, lastTx, foreign, wire, replies, refused,
                     spanning, degraded, configured>>
    BY DEF Close, opVars, linkVars, planVars
<1>2. closes' \in 0..MaxCloses
    BY <1>0, <1>1, BoundsAssumption DEF TypeOK
<1>3. Queues' /\ Counted' /\ Chained' = Chained /\ AnsweredByOwnReply' /\ SplitAfterTwoRefusals'
    BY <1>0, <1>1 DEF Queues, Chained, Waiting, Counted, Due, IInv, AnsweredByOwnReply,
       SplitAfterTwoRefusals
<1>4. CASE client # 0 /\ port[client].open
    <2>1. port' = [port EXCEPT ![p] = Closed(port[p])] /\ closing' = client /\ client' = client
        BY <1>4 DEF Close
    <2>2. p \in Ports /\ port \in [Ports -> PortType] /\ port[p] \in PortType
        BY <1>0, <1>4 DEF TypeOK
    <2>3. /\ Closed(port[p]) \in PortType /\ ~Closed(port[p]).timer /\ ~Closed(port[p]).probing
          /\ Closed(port[p]).open = port[p].open /\ Closed(port[p]).out = port[p].out
          /\ Closed(port[p]).sock = IF port[p].sock = "dead" THEN "dead" ELSE "ending"
        BY <2>2, Fields
    <2>4. /\ port'[p] = Closed(port[p]) /\ port' \in [Ports -> PortType]
          /\ \A q \in Ports : q # p => port'[q] = port[q]
        BY <2>1, <2>2, <2>3
    <2> HIDE DEF p
    <2>5. \A q \in Ports : /\ (port'[q].open <=> port[q].open) /\ port'[q].out = port[q].out
                           /\ (port'[q].sock = "dead" <=> port[q].sock = "dead")
        BY <2>3, <2>4
    <2>6. TypeOK'
        BY <1>0, <1>1, <1>2, <2>1, <2>4 DEF TypeOK
    <2>7. Phases'
        BY <1>0, <1>1, <1>4, <2>3, <2>4 DEF Phases, p
    <2>8. Alone' /\ OpenIsClient'
        BY <1>0, <1>1, <1>4, <2>1, <2>2, <2>5 DEF TypeOK, IInv, Alone, OpenIsClient, p
    <2>9. Latest' /\ SamePort' /\ Matched'
        BY <1>0, <1>1, <1>3, <2>5, Unnoticed
    <2> QED
        BY <1>3, <2>6, <2>7, <2>8, <2>9 DEF IInv, Support
<1>5. CASE ~(client # 0 /\ port[client].open)
    <2>1. client' = 0 /\ port' = port /\ closing' = closing
        BY <1>5 DEF Close
    <2>2. TypeOK'
        BY <1>0, <1>1, <1>2, <2>1 DEF TypeOK
    <2>3. Phases'
        BY <1>0, <1>1, <2>1 DEF Phases
    <2>4. Alone' /\ OpenIsClient'
        BY <1>0, <1>1, <1>5, <2>1, Bounds DEF TypeOK, IInv, Alone, OpenIsClient
    <2>5. Latest' /\ SamePort' /\ Matched'
        BY <1>0, <1>1, <1>3, <2>1, Unnoticed
    <2> QED
        BY <1>3, <2>2, <2>3, <2>4, <2>5 DEF IInv, Support
<1> QED
    BY <1>4, <1>5

\* The socket connects and the probe goes out.
LEMMA ConnectKeeps ==
    ASSUME IInv, NEW p \in Ports, SocketConnects(p)
    PROVE  IInv'
<1> DEFINE new == [port[p] EXCEPT !.sock = "connected", !.probing = TRUE, !.timer = TRUE,
                                  !.seq = NextSeq(port[p].seq)]
           probe == [port |-> p, seq |-> port[p].seq, tx |-> 0, retried |-> FALSE]
<1>0. Support /\ TypeOK /\ Queues /\ Phases /\ Alone /\ Latest /\ SamePort /\ Matched /\ Counted
    BY DEF IInv, Support
<1>1. port \in [Ports -> PortType] /\ port[p] \in PortType /\ port[p].seq \in Seqs
    BY <1>0 DEF TypeOK, PortType
<1>2. /\ port[p].sock = "connecting" /\ port' = [port EXCEPT ![p] = new]
      /\ wire' = wire \union {probe}
      /\ UNCHANGED <<client, connecting, waiters, op, lock, begun, lastTx, foreign, replies, refused,
                     spanning, degraded, configured, closes, closing>>
    BY <1>1 DEF SocketConnects, dialVars, opVars, planVars
<1>3. /\ new \in PortType /\ new.sock = "connected" /\ new.open = port[p].open /\ new.out = port[p].out
    BY <1>1, Bounds DEF PortType
<1>4. probe \in Message /\ probe.port = p
    BY <1>1, Bounds DEF Message
<1> HIDE DEF new, probe
<1>5. /\ port' \in [Ports -> PortType] /\ port'[p] = new
      /\ \A q \in Ports : q # p => port'[q] = port[q]
    BY <1>1, <1>2, <1>3
<1>6. connecting = p /\ ~port[p].open /\ port[p].out = NoRequest
    BY <1>0, <1>2 DEF Phases
<1>7. TypeOK'
    BY <1>0, <1>2, <1>4, <1>5 DEF TypeOK
<1>8. Phases'
    BY <1>0, <1>2, <1>3, <1>5, <1>6 DEF Phases
<1>9. Alone' /\ OpenIsClient'
    BY <1>0, <1>2, <1>3, <1>5 DEF TypeOK, IInv, Alone, OpenIsClient
<1>10. Latest' /\ Queues' /\ Counted' /\ AnsweredByOwnReply' /\ SplitAfterTwoRefusals'
    BY <1>0, <1>2, <1>3, <1>5
    DEF Latest, Queues, Chained, Waiting, Counted, Due, IInv, AnsweredByOwnReply,
       SplitAfterTwoRefusals
<1>11. SamePort'
    BY <1>0, <1>2, <1>3, <1>5 DEF SamePort, Chained
<1>12. Matched'
    <2>1. \A m \in Message : m.port \in Ports /\ Belongs(m) => Belongs(m)'
        BY <1>2, <1>3, <1>5, <1>6 DEF Belongs, Message
    <2>2. \A m : m = probe => Belongs(m)'
        BY <1>3, <1>4, <1>5, <1>6 DEF Belongs
    <2>3. \A m \in wire : m \in Message /\ m.port \in Ports
        BY <1>0 DEF TypeOK, Message
    <2>4. \A r \in replies : r.msg \in Message /\ r.msg.port \in Ports
        BY <1>0 DEF TypeOK, Reply, Message
    <2>5. \A m \in wire' : Belongs(m)'
        BY <1>0, <1>2, <2>1, <2>2, <2>3 DEF Matched
    <2>6. \A r \in replies' : Belongs(r.msg)'
        BY <1>0, <1>2, <2>1, <2>4 DEF Matched
    <2>7. \A r \in replies' : r.kind = "05" /\ r.msg.tx # 0 => <<r.msg.tx, r.msg.retried>> \in refused'
        BY <1>0, <1>2 DEF Matched
    <2> QED
        BY <2>5, <2>6, <2>7 DEF Matched
<1> QED
    BY <1>7, <1>8, <1>9, <1>10, <1>11, <1>12 DEF IInv, Support

\* The probe is answered, or its time is up with a serial at hand: the port opens
\* as the client, and who waited joins the lock.
LEMMA OpenedKeeps ==
    ASSUME IInv, NEW p \in Ports, port[p].probing, Opened(p), UNCHANGED linkVars
    PROVE  IInv'
<1> DEFINE opened == [Hushed(port[p]) EXCEPT !.open = TRUE]
           given == [st |-> "queued", port |-> p, tx |-> 0]
<1>0. Support /\ TypeOK /\ Queues /\ Phases /\ Alone /\ Latest /\ SamePort /\ Matched /\ Counted
    BY DEF IInv, Support
<1>1. connecting = p /\ port[p].sock = "connected" /\ connecting # 0
    BY <1>0, Bounds DEF Phases
<1>2. /\ port' = [port EXCEPT ![p] = opened]
      /\ client' = p /\ connecting' = 0 /\ waiters' = <<>> /\ lock' = lock \o waiters
      /\ op' = [o \in Ops |-> IF op[o].st = "connecting" THEN given ELSE op[o]]
      /\ UNCHANGED <<begun, lastTx, foreign, spanning, degraded, configured, closes, closing,
                     wire, replies, refused>>
    BY <1>1 DEF Opened, planVars, linkVars
<1>3. \A q \in Ports : ~port[q].open
    BY <1>0, <1>1 DEF Alone
<1>4. closing = 0 /\ port[p].out = NoRequest
    BY <1>0, <1>1, <1>3 DEF Alone, Phases, TypeOK
<1>5. port \in [Ports -> PortType] /\ port[p] \in PortType /\ op \in [Ops -> OpType]
    BY <1>0 DEF TypeOK
<1>6. /\ opened \in PortType /\ ~opened.timer /\ ~opened.probing /\ opened.open
      /\ opened.out = NoRequest /\ opened.sock = "connected"
    BY <1>1, <1>4, <1>5, Fields
<1>7. given \in OpType /\ given.st = "queued" /\ given.port = p
    BY Bounds DEF OpType
<1> HIDE DEF opened, given
<1>8. /\ port' \in [Ports -> PortType] /\ port'[p] = opened
      /\ \A q \in Ports : q # p => port'[q] = port[q]
    BY <1>2, <1>5, <1>6
<1>9. op' \in [Ops -> OpType]
    BY <1>2, <1>5, <1>7
<1>10. \A o \in Ops : IF o \in Waiting THEN op'[o] = given ELSE op'[o] = op[o]
    BY <1>2 DEF Waiting
<1>11. Chained' = Chained \union Waiting /\ Waiting' = {} /\ Chained \intersect Waiting = {}
       /\ Chained \subseteq Ops /\ Waiting \subseteq Ops
    BY <1>7, <1>10 DEF Chained, Waiting
<1>12. /\ Lists(lock', Chained') /\ Lists(waiters', Waiting')
       /\ Chained # {} => Head(lock') = Head(lock)
    BY <1>0, <1>2, <1>11, ListsConcat, ListsNobody DEF Queues
<1>13. Queues'
    <2>1. \A o \in Ops : op'[o].st = "active" => o \in Chained /\ op[o].st = "active"
        BY <1>7, <1>10 DEF Chained
    <2> QED
        BY <1>0, <1>12, <2>1 DEF Queues
<1>14. TypeOK'
    <2>1. lock' \in Seq(Ops) /\ waiters' \in Seq(Ops)
        BY <1>12 DEF Lists
    <2>2. Len(waiters') + Len(lock') <= Cardinality(Ops)
        BY <1>11, <1>12, ListsShort
    <2> QED
        BY <1>0, <1>2, <1>8, <1>9, <2>1, <2>2 DEF TypeOK
<1>15. Phases'
    BY <1>0, <1>1, <1>2, <1>6, <1>8 DEF Phases
<1>16. Alone' /\ OpenIsClient'
    BY <1>2, <1>3, <1>4, <1>8 DEF Alone, OpenIsClient
<1>17. Latest'
    <2>1. \A o \in Ops : op'[o].st = "active" => op'[o].tx = lastTx'
        BY <1>0, <1>2, <1>7, <1>10 DEF Latest
    <2>2. \A q \in Ports : port'[q].out # NoRequest => q # p /\ ~port'[q].open /\ port'[q] = port[q]
        BY <1>3, <1>6, <1>8
    <2>3. \A q \in Ports : port'[q].out # NoRequest =>
            /\ port'[q].out.tx \in 1..lastTx'
            /\ port'[q].out.retried => <<port'[q].out.tx, FALSE>> \in refused'
        <3> SUFFICES ASSUME NEW q \in Ports, port'[q].out # NoRequest
                     PROVE  /\ port'[q].out.tx \in 1..lastTx'
                            /\ port'[q].out.retried => <<port'[q].out.tx, FALSE>> \in refused'
            OBVIOUS
        <3>1. port'[q] = port[q]
            BY <2>2
        <3>2. lastTx' = lastTx /\ refused' = refused
            BY <1>2
        <3>3. port[q].out # NoRequest
            BY <3>1
        <3>4. port[q].out.tx \in 1..lastTx
            BY <1>0, <3>3 DEF Latest
        <3>5. port[q].out.retried => <<port[q].out.tx, FALSE>> \in refused
            BY <1>0, <3>3 DEF Latest
        <3> QED
            BY <3>1, <3>2, <3>4, <3>5
    <2> QED
        BY <2>1, <2>2, <2>3 DEF Latest
<1>18. SamePort'
    <2>1. \A o \in Chained : /\ op'[o] = op[o] /\ op[o].port \in Ports /\ op[o].port # p
                             /\ port'[op[o].port].sock = "dead" /\ ~port'[op[o].port].open
        BY <1>0, <1>1, <1>3, <1>8, <1>10, <1>11 DEF SamePort
    <2>2. \A o \in Waiting : op'[o].port = p
        BY <1>7, <1>10, <1>11
    <2>3. Chained = {} \/ Head(lock') \in Chained
        BY <1>0, <1>12, ListsTail, ListsNobody DEF Queues
    <2>4. \A q \in Ports : port'[q].open => port'[q].out = NoRequest
        BY <1>3, <1>6, <1>8
    <2>5. \A o \in Chained' : /\ op'[o].port \in Ports
                              /\ port'[op'[o].port].open \/ port'[op'[o].port].sock = "dead"
        BY <1>6, <1>8, <1>11, <2>1, <2>2
    <2>6. \A o \in Chained' : Head(lock') = o /\ port'[op'[o].port].open =>
            \A x \in Chained' : op'[x].port = op'[o].port
        BY <1>11, <2>1, <2>2, <2>3
    <2> QED
        BY <2>4, <2>5, <2>6 DEF SamePort
<1>19. Matched'
    <2>1. \A m \in Message : m.port \in Ports /\ Belongs(m) => Belongs(m)'
        BY <1>6, <1>8 DEF Belongs
    <2>2. \A m \in wire : m \in Message /\ m.port \in Ports
        BY <1>0 DEF TypeOK, Message
    <2>3. \A r \in replies : r.msg \in Message /\ r.msg.port \in Ports
        BY <1>0 DEF TypeOK, Reply, Message
    <2>4. \A m \in wire' : Belongs(m)'
        BY <1>0, <1>2, <2>1, <2>2 DEF Matched
    <2>5. \A r \in replies' : Belongs(r.msg)'
        BY <1>0, <1>2, <2>1, <2>3 DEF Matched
    <2>6. \A r \in replies' : r.kind = "05" /\ r.msg.tx # 0 => <<r.msg.tx, r.msg.retried>> \in refused'
        BY <1>0, <1>2 DEF Matched
    <2> QED
        BY <2>4, <2>5, <2>6 DEF Matched
<1>20. Counted'
    <2>1. Poll \in Ops /\ Setting \in Ops /\ \A o \in Ops : Due(o)' = Due(o)
        BY <1>7, <1>10 DEF Due, Ops, Waiting
    <2> QED
        BY <1>0, <1>2, <2>1 DEF Counted
<1>21. AnsweredByOwnReply' /\ SplitAfterTwoRefusals'
    BY <1>2 DEF IInv, AnsweredByOwnReply, SplitAfterTwoRefusals
<1> QED
    BY <1>13, <1>14, <1>15, <1>16, <1>17, <1>18, <1>19, <1>20, <1>21 DEF IInv, Support

-----------------------------------------------------------------------------
(* The steps of an operation *)

\* What an operation owes when it changes its state and the other does not.
LEMMA DueChange ==
    ASSUME NEW o \in Ops, \A x \in Ops : x # o => op'[x] = op[x]
    PROVE  /\ Due(o) \in {0, 1} /\ Due(o)' \in {0, 1} /\ Due(Poll) \in {0, 1} /\ Due(Setting) \in {0, 1}
           /\ Due(Poll)' \in {0, 1} /\ Due(Setting)' \in {0, 1}
           /\ Due(Poll)' + Due(Setting)' = Due(Poll) + Due(Setting) - Due(o) + Due(o)'
<1>1. o = Poll \/ o = Setting
    BY DEF Ops
<1>2. \A x \in Ops : x # o => Due(x)' = Due(x)
    BY DEF Due
<1>3. /\ Due(o) \in {0, 1} /\ Due(o)' \in {0, 1} /\ Due(Poll) \in {0, 1} /\ Due(Setting) \in {0, 1}
      /\ Due(Poll)' \in {0, 1} /\ Due(Setting)' \in {0, 1}
    BY DEF Due
<1>4. Poll \in Ops /\ Setting \in Ops /\ Poll # Setting
    BY Bounds DEF Ops
<1> QED
    BY <1>1, <1>2, <1>3, <1>4

\* read() or write() asks for the client.
LEMMA BeginKeeps ==
    ASSUME IInv, NEW o \in Ops, Begin(o)
    PROVE  IInv'
<1>0. Support /\ TypeOK /\ Queues /\ Phases /\ Alone /\ Latest /\ SamePort /\ Matched /\ Counted
    BY DEF IInv, Support
<1>1. /\ op[o].st = "idle" /\ begun < MaxOps /\ begun' = begun + 1
      /\ UNCHANGED <<client, lastTx, foreign, wire, replies, refused, spanning, degraded, configured,
                     closes, closing>>
    BY DEF Begin, linkVars, planVars
<1>2. /\ op \in [Ops -> OpType] /\ port \in [Ports -> PortType] /\ lastTx \in Nat /\ begun \in Nat
      /\ begun' \in 0..MaxOps /\ op[o] \in OpType
    BY <1>0, <1>1, Bounds DEF TypeOK
<1>3. o \notin Chained /\ o \notin Waiting /\ Chained \intersect Waiting = {}
    BY <1>1 DEF Chained, Waiting
<1>4. AnsweredByOwnReply' /\ SplitAfterTwoRefusals'
    BY <1>1 DEF IInv, AnsweredByOwnReply, SplitAfterTwoRefusals
<1>5. ASSUME \A x \in Ops : x # o => op'[x] = op[x], op'[o].st \in {"connecting", "queued"}
      PROVE  Counted'
    <2>1. Due(o) = 0 /\ Due(o)' = 1
        BY <1>1, <1>5 DEF Due
    <2>2. /\ Due(Poll) \in {0, 1} /\ Due(Setting) \in {0, 1}
          /\ Due(Poll)' \in {0, 1} /\ Due(Setting)' \in {0, 1}
          /\ Due(Poll)' + Due(Setting)' = Due(Poll) + Due(Setting) - 0 + 1
        BY <1>5, <2>1, DueChange
    <2> QED
        BY <1>0, <1>1, <1>2, <2>2 DEF Counted
<1>6. CASE client # 0 /\ port[client].open
    <2> DEFINE given == [st |-> "queued", port |-> client, tx |-> 0]
    <2>1. /\ op' = [op EXCEPT ![o] = given] /\ lock' = Append(lock, o)
          /\ UNCHANGED <<port, connecting, waiters>>
        BY <1>6 DEF Begin
    <2>2. client \in Ports /\ given \in OpType /\ given.st = "queued" /\ given.port = client
        BY <1>0, <1>6, Bounds DEF TypeOK, OpType
    <2> HIDE DEF given
    <2>3. op' \in [Ops -> OpType] /\ op'[o] = given /\ \A x \in Ops : x # o => op'[x] = op[x]
        BY <1>2, <2>1, <2>2
    <2>4. Chained' = Chained \union {o} /\ Waiting' = Waiting
        BY <1>1, <2>2, <2>3 DEF Chained, Waiting
    <2>5. /\ Lists(lock', Chained') /\ Lists(waiters', Waiting')
          /\ Head(lock') = IF Chained = {} THEN o ELSE Head(lock)
        BY <1>0, <1>3, <2>1, <2>4, ListsAppend DEF Queues
    <2>6. Queues'
        <3>1. \A x \in Ops : op'[x].st = "active" => x \in Chained /\ op[x].st = "active"
            BY <2>2, <2>3 DEF Chained
        <3> QED
            BY <1>0, <2>5, <3>1 DEF Queues
    <2>7. TypeOK'
        <3>1. lock' \in Seq(Ops) /\ waiters' \in Seq(Ops)
            BY <2>5 DEF Lists
        <3>2. Waiting' \intersect Chained' = {}
            BY <1>3, <2>4
        <3>3. Len(waiters') + Len(lock') <= Cardinality(Ops)
            BY <2>5, <3>2, ListsShort
        <3> QED
            BY <1>0, <1>1, <1>2, <2>1, <2>3, <3>1, <3>3 DEF TypeOK
    <2>8. Phases' /\ Alone' /\ OpenIsClient'
        BY <1>0, <1>1, <2>1 DEF IInv, Phases, Alone, OpenIsClient
    <2>9. Latest' /\ Matched'
        BY <1>0, <1>1, <2>1, <2>2, <2>3 DEF Latest, Matched, Belongs
    <2>10. SamePort'
        <3>1. \A x \in Chained : op'[x] = op[x] /\ x \in Ops
            BY <1>3, <2>3 DEF Chained
        <3>2. \A q \in Ports : port[q].open => q = client
            BY DEF IInv, OpenIsClient
        <3>3. Chained = {} \/ Head(lock) \in Chained
            BY <1>0, ListsTail, ListsNobody DEF Queues
        <3>4. \A x \in Chained' : /\ op'[x].port \in Ports
                                  /\ port[op'[x].port].open \/ port[op'[x].port].sock = "dead"
            BY <1>0, <1>6, <2>2, <2>3, <2>4, <3>1 DEF SamePort
        <3>5. \A x \in Chained' : Head(lock') = x /\ port[op'[x].port].open =>
                \A y \in Chained' : op'[y].port = op'[x].port
            BY <1>0, <2>2, <2>3, <2>4, <2>5, <3>1, <3>2, <3>3, <3>4 DEF SamePort
        <3>6. \A q \in Ports : port[q].open /\ port[q].out # NoRequest =>
                \A x \in Chained' : op'[x].port = q
            BY <1>0, <2>2, <2>3, <2>4, <3>1, <3>2 DEF SamePort
        <3> QED
            BY <2>1, <3>4, <3>5, <3>6 DEF SamePort
    <2>11. Counted'
        BY <1>5, <2>2, <2>3
    <2> QED
        BY <1>4, <2>6, <2>7, <2>8, <2>9, <2>10, <2>11 DEF IInv, Support
<1>7. CASE ~(client # 0 /\ port[client].open)
    <2> DEFINE asking == [op[o] EXCEPT !.st = "connecting"]
    <2>1. /\ op' = [op EXCEPT ![o] = asking] /\ waiters' = Append(waiters, o) /\ lock' = lock
        BY <1>2, <1>7 DEF Begin
    <2>2. asking \in OpType /\ asking.st = "connecting"
        BY <1>2 DEF OpType
    <2> HIDE DEF asking
    <2>3. op' \in [Ops -> OpType] /\ op'[o] = asking /\ \A x \in Ops : x # o => op'[x] = op[x]
        BY <1>2, <2>1, <2>2
    <2>4. Chained' = Chained /\ Waiting' = Waiting \union {o}
        BY <1>1, <2>2, <2>3 DEF Chained, Waiting
    <2>5. Lists(lock', Chained') /\ Lists(waiters', Waiting')
        BY <1>0, <1>3, <2>1, <2>4, ListsAppend DEF Queues
    <2>6. \A x \in Ops : op'[x].st \in {"queued", "active"} => op'[x] = op[x]
        BY <2>2, <2>3
    <2>7. Queues'
        BY <1>0, <2>1, <2>5, <2>6 DEF Queues
    <2>8. Counted'
        BY <1>5, <2>2, <2>3
    <2>9. /\ lock' \in Seq(Ops) /\ waiters' \in Seq(Ops)
          /\ Len(waiters') + Len(lock') <= Cardinality(Ops)
        <3>1. Waiting' \intersect Chained' = {}
            BY <1>3, <2>4
        <3> QED
            BY <2>5, <3>1, ListsShort DEF Lists
    <2>10. \A q \in Ports : ~port[q].open
        BY <1>7, Bounds DEF IInv, OpenIsClient
    <2>11. CASE connecting # 0
        <3>1. UNCHANGED <<port, connecting>>
            BY <1>7, <2>11 DEF Begin
        <3>2. TypeOK'
            BY <1>0, <1>1, <1>2, <2>3, <2>9, <3>1 DEF TypeOK
        <3>3. Phases' /\ Alone' /\ OpenIsClient'
            BY <1>0, <1>1, <3>1 DEF IInv, Phases, Alone, OpenIsClient
        <3>4. Latest' /\ SamePort' /\ Matched'
            BY <1>0, <1>1, <2>1, <2>4, <2>6, <3>1, Unnoticed
        <3> QED
            BY <1>4, <2>7, <2>8, <3>2, <3>3, <3>4 DEF IInv, Support
    <2>12. CASE connecting = 0
        <3> DEFINE dialled == [NewPort EXCEPT !.sock = "connecting", !.timer = TRUE]
        <3>1. PICK p \in Ports : /\ port[p].sock = "none" /\ connecting' = p
                                 /\ port' = [port EXCEPT ![p] = dialled]
            BY <1>7, <2>12 DEF Begin
        <3>2. /\ dialled \in PortType /\ dialled.sock = "connecting" /\ ~dialled.open
              /\ ~dialled.probing /\ dialled.out = NoRequest
            BY Bounds DEF NewPort, PortType
        <3> HIDE DEF dialled
        <3>3. /\ port' \in [Ports -> PortType] /\ port'[p] = dialled
              /\ \A q \in Ports : q # p => port'[q] = port[q]
            BY <1>2, <3>1, <3>2
        <3>4. ~port[p].open /\ port[p].out = NoRequest
            BY <1>0, <2>10, <3>1 DEF Phases
        <3>5. TypeOK'
            BY <1>0, <1>1, <1>2, <2>3, <2>9, <3>1, <3>3 DEF TypeOK
        <3>6. Phases'
            BY <1>0, <2>12, <3>1, <3>2, <3>3, Bounds DEF Phases
        <3>7. Alone' /\ OpenIsClient'
            BY <1>0, <1>1, <2>10, <3>1, <3>2, <3>3 DEF TypeOK, Alone, OpenIsClient
        <3>8. \A q \in Ports : /\ (port'[q].open <=> port[q].open) /\ port'[q].out = port[q].out
                               /\ (port'[q].sock = "dead" <=> port[q].sock = "dead")
            BY <3>1, <3>2, <3>3, <3>4
        <3>9. Latest' /\ SamePort' /\ Matched'
            BY <1>0, <1>1, <2>1, <2>4, <2>6, <3>8, Unnoticed
        <3> QED
            BY <1>4, <2>7, <2>8, <3>5, <3>6, <3>7, <3>9 DEF IInv, Support
    <2> QED
        BY <2>11, <2>12
<1> QED
    BY <1>6, <1>7

\* A request that goes out clears its number of what still carried it.
LEMMA PutKeeps ==
    ASSUME Support, NEW p \in Ports, NEW tx \in 0..MaxTx, NEW retried \in BOOLEAN,
           port' = [port EXCEPT ![p] = Sent(p, tx, retried)], Put(p, tx, retried),
           port[p].sock # "dead", refused' = refused
    PROVE  /\ port' \in [Ports -> PortType] /\ wire' \subseteq Message /\ replies' \subseteq Reply
           /\ Matched'
           /\ \A q \in Ports : q # p => port'[q] = port[q]
           /\ port'[p].timer = port[p].timer /\ port'[p].probing = port[p].probing
           /\ port'[p].open = port[p].open /\ port'[p].sock = port[p].sock
           /\ port'[p].out = [seq |-> port[p].seq, tx |-> tx, retried |-> retried]
           /\ \A m \in wire' \ wire : m.tx = tx
<1> DEFINE new == [port |-> p, seq |-> port[p].seq, tx |-> tx, retried |-> retried]
           out == [seq |-> port[p].seq, tx |-> tx, retried |-> retried]
           sent == Sent(p, tx, retried)
<1>0. TypeOK /\ Matched
    BY DEF Support
<1>1. port \in [Ports -> PortType] /\ port[p].seq \in Seqs
    BY <1>0 DEF TypeOK, PortType
<1>2. /\ sent \in PortType /\ sent.timer = port[p].timer /\ sent.probing = port[p].probing
      /\ sent.open = port[p].open /\ sent.sock = port[p].sock /\ sent.out = out
    BY <1>0, SentFields
<1>3. new \in Message /\ new.port = p /\ new.seq = port[p].seq /\ new.tx = tx /\ new.retried = retried
    BY <1>1 DEF Message
<1>4. /\ wire' \subseteq {m \in wire : m.port # p \/ m.seq # port[p].seq} \union {new}
      /\ replies' = {r \in replies : r.msg.port # p \/ r.msg.seq # port[p].seq}
    BY DEF Put
<1>5. out.seq = port[p].seq /\ out.tx = tx /\ out.retried = retried
    OBVIOUS
<1> HIDE DEF sent, new, out
<1>6. /\ port' \in [Ports -> PortType] /\ port'[p] = sent
      /\ \A q \in Ports : q # p => port'[q] = port[q]
    BY <1>1, <1>2 DEF sent
<1>7. wire' \subseteq Message /\ replies' \subseteq Reply
    BY <1>0, <1>3, <1>4 DEF TypeOK
<1>8. \A m \in Message : m.port \in Ports /\ Belongs(m) /\ (m.port # p \/ m.seq # port[p].seq)
        => Belongs(m)'
    BY <1>2, <1>5, <1>6 DEF Belongs
<1>9. \A m : m = new => Belongs(m)'
    BY <1>2, <1>3, <1>5, <1>6 DEF Belongs
<1>10. \A m \in wire : m \in Message /\ m.port \in Ports
    BY <1>0 DEF TypeOK, Message
<1>11. \A r \in replies : r.msg \in Message /\ r.msg.port \in Ports
    BY <1>0 DEF TypeOK, Reply, Message
<1>12. \A m \in wire' : Belongs(m)'
    BY <1>0, <1>4, <1>8, <1>9, <1>10 DEF Matched
<1>13. \A r \in replies' : Belongs(r.msg)'
    BY <1>0, <1>4, <1>8, <1>11 DEF Matched
<1>14. \A r \in replies' : r.kind = "05" /\ r.msg.tx # 0 => <<r.msg.tx, r.msg.retried>> \in refused'
    BY <1>0, <1>4 DEF Matched
<1>15. Matched'
    BY <1>12, <1>13, <1>14 DEF Matched
<1>16. \A m \in wire' \ wire : m.tx = tx
    BY <1>3, <1>4
<1> QED
    BY <1>2, <1>6, <1>7, <1>15, <1>16 DEF out

\* The first in the lock starts its transaction.
LEMMA StartKeeps ==
    ASSUME IInv, NEW o \in Ops, StartTx(o)
    PROVE  IInv' /\ \A m \in wire' \ wire : m.tx = lastTx'
<1> DEFINE p == op[o].port
           tx == lastTx + 1
           active == [st |-> "active", port |-> p, tx |-> tx]
<1>0. Support /\ TypeOK /\ Queues /\ Phases /\ Alone /\ Latest /\ SamePort /\ Matched /\ Counted
    BY DEF IInv, Support
<1>1. /\ Head(lock) = o /\ op[o].st = "queued" /\ lastTx' = tx /\ op' = [op EXCEPT ![o] = active]
      /\ IF port[p].open
         THEN port' = [port EXCEPT ![p] = Sent(p, tx, FALSE)] /\ Put(p, tx, FALSE)
         ELSE UNCHANGED <<port, wire, replies>>
      /\ UNCHANGED <<client, connecting, waiters, lock, begun, foreign, refused, spanning, degraded,
                     configured, closes, closing>>
    BY DEF StartTx, Transact, dialVars, planVars
<1>2. /\ op \in [Ops -> OpType] /\ port \in [Ports -> PortType] /\ lastTx \in Nat /\ begun \in 0..MaxOps
      /\ o \in Chained
    BY <1>0, <1>1, Bounds DEF TypeOK, Chained
<1>3. p \in Ports
    BY <1>0, <1>2 DEF SamePort
<1>4. tx \in Nat /\ tx \in 0..MaxTx /\ tx \in 1..tx
    <2>1. Due(o) = 1 /\ (o = Poll \/ o = Setting)
        BY <1>1 DEF Due, Ops
    <2>2. Due(Poll) \in {0, 1} /\ Due(Setting) \in {0, 1}
        BY DEF Due
    <2> QED
        BY <1>0, <1>2, <2>1, <2>2, Bounds DEF Counted
<1>5. active \in OpType /\ active.st = "active" /\ active.port = p /\ active.tx = tx
    BY <1>3, <1>4 DEF OpType
<1> HIDE DEF active, tx
<1>6. op' \in [Ops -> OpType] /\ op'[o] = active /\ \A x \in Ops : x # o => op'[x] = op[x]
    BY <1>1, <1>2, <1>5
<1>7. Chained' = Chained /\ Waiting' = Waiting /\ \A x \in Ops : op'[x].port = op[x].port
    BY <1>1, <1>5, <1>6 DEF Chained, Waiting
<1>8. \A x \in Ops : op'[x].st = "active" => x = o
    BY <1>0, <1>1, <1>6 DEF Queues
<1>9. Queues'
    BY <1>0, <1>1, <1>7, <1>8 DEF Queues
<1>10. Counted'
    <2>1. Due(o) = 1 /\ Due(o)' = 0
        BY <1>1, <1>5, <1>6 DEF Due
    <2>2. /\ Due(Poll) \in {0, 1} /\ Due(Setting) \in {0, 1}
          /\ Due(Poll)' \in {0, 1} /\ Due(Setting)' \in {0, 1}
          /\ Due(Poll)' + Due(Setting)' = Due(Poll) + Due(Setting) - 1 + 0
        BY <1>6, <2>1, DueChange
    <2>3. begun \in Nat /\ begun' = begun /\ degraded' = degraded /\ spanning' = spanning
        BY <1>1, <1>2
    <2> QED
        BY <1>0, <1>1, <1>2, <2>2, <2>3 DEF Counted, tx
<1>11. AnsweredByOwnReply' /\ SplitAfterTwoRefusals'
    BY <1>1 DEF IInv, AnsweredByOwnReply, SplitAfterTwoRefusals
<1>12. \A x \in Ops : op'[x].st = "active" => op'[x].tx = lastTx'
    BY <1>1, <1>5, <1>6, <1>8
<1>13. CASE port[p].open
    <2> HIDE DEF p
    <2>1. port' = [port EXCEPT ![p] = Sent(p, tx, FALSE)] /\ Put(p, tx, FALSE) /\ port[p].sock # "dead"
        BY <1>0, <1>1, <1>3, <1>13 DEF p, Phases
    <2> DEFINE out == [seq |-> port[p].seq, tx |-> tx, retried |-> FALSE]
    <2>2. /\ port' \in [Ports -> PortType] /\ wire' \subseteq Message /\ replies' \subseteq Reply
          /\ Matched'
          /\ \A q \in Ports : q # p => port'[q] = port[q]
          /\ port'[p].timer = port[p].timer /\ port'[p].probing = port[p].probing
          /\ port'[p].open = port[p].open /\ port'[p].sock = port[p].sock
          /\ port'[p].out = out
          /\ \A m \in wire' \ wire : m.tx = tx
        BY <1>0, <1>1, <1>3, <1>4, <2>1, PutKeeps
    <2>3. out.tx = tx /\ out.retried = FALSE
        OBVIOUS
    <2> HIDE DEF out
    <2>4. \A q \in Ports : port[q].open => q = p
        BY <1>3, <1>13 DEF IInv, OpenIsClient
    <2>5. TypeOK'
        BY <1>0, <1>1, <1>4, <1>6, <2>2 DEF TypeOK
    <2>6. Phases'
        BY <1>0, <1>1, <1>13, <2>2 DEF Phases
    <2>7. Alone' /\ OpenIsClient'
        BY <1>0, <1>1, <1>3, <2>2 DEF TypeOK, IInv, Alone, OpenIsClient
    <2>8. Latest'
        <3> SUFFICES ASSUME NEW q \in Ports, port'[q].out # NoRequest
                     PROVE  /\ port'[q].out.tx \in 1..lastTx'
                            /\ port'[q].open => port'[q].out.tx = lastTx'
                            /\ port'[q].out.retried => <<port'[q].out.tx, FALSE>> \in refused'
            BY <1>12 DEF Latest
        <3>1. CASE q = p
            BY <1>1, <1>4, <2>2, <2>3, <3>1
        <3>2. CASE q # p
            <4>1. port'[q] = port[q] /\ ~port[q].open /\ refused' = refused
                BY <1>1, <2>2, <2>4, <3>2
            <4>2. /\ port[q].out.tx \in 1..lastTx
                  /\ port[q].out.retried => <<port[q].out.tx, FALSE>> \in refused
                BY <1>0, <4>1 DEF Latest
            <4>3. port[q].out.tx \in 1..lastTx'
                BY <1>1, <1>2, <4>2 DEF tx
            <4> QED
                BY <4>1, <4>2, <4>3
        <3> QED
            BY <3>1, <3>2
    <2>9. SamePort'
        <3>1. \A x \in Chained : op[x].port = p
            BY <1>0, <1>1, <1>2, <1>13 DEF SamePort, p
        <3>2. \A x \in Chained' : op'[x].port = p /\ x \in Ops
            BY <1>7, <3>1 DEF Chained
        <3>3. port'[p].open /\ \A q \in Ports : port'[q].open => q = p
            BY <1>13, <2>2, <2>4
        <3> QED
            BY <1>3, <3>2, <3>3 DEF SamePort
    <2> QED
        BY <1>1, <1>9, <1>10, <1>11, <2>2, <2>5, <2>6, <2>7, <2>8, <2>9 DEF IInv, Support
<1>14. CASE ~port[p].open
    <2>1. port' = port /\ wire' = wire /\ replies' = replies
        BY <1>1, <1>14
    <2>2. \A q \in Ports : port[q].open => port[q].out = NoRequest
        BY <1>0, <1>2, <1>14 DEF SamePort
    <2>3. TypeOK'
        BY <1>0, <1>1, <1>4, <1>6, <2>1 DEF TypeOK
    <2>4. Phases' /\ Alone' /\ OpenIsClient'
        BY <1>0, <1>1, <2>1 DEF IInv, Phases, Alone, OpenIsClient
    <2>5. Latest'
        <3> SUFFICES ASSUME NEW q \in Ports, port[q].out # NoRequest
                     PROVE  /\ port[q].out.tx \in 1..lastTx'
                            /\ port[q].out.retried => <<port[q].out.tx, FALSE>> \in refused'
            BY <1>12, <2>1, <2>2 DEF Latest
        <3>1. /\ port[q].out.tx \in 1..lastTx
              /\ port[q].out.retried => <<port[q].out.tx, FALSE>> \in refused
            BY <1>0 DEF Latest
        <3>2. port[q].out.tx \in 1..lastTx'
            BY <1>1, <1>2, <3>1 DEF tx
        <3> QED
            BY <1>1, <3>1, <3>2
    <2>6. SamePort'
        <3>1. \A x \in Chained : x \in Ops
            BY DEF Chained
        <3> QED
            BY <1>0, <1>1, <1>7, <2>1, <3>1 DEF SamePort
    <2>7. Matched'
        BY <1>0, <1>1, <2>1 DEF Matched, Belongs
    <2> QED
        BY <1>9, <1>10, <1>11, <2>1, <2>3, <2>4, <2>5, <2>6, <2>7 DEF IInv, Support
<1> QED
    BY <1>13, <1>14

\* An operation that ends leaves the lock to the one behind it.
LEMMA FinishEffect ==
    ASSUME Support, NEW o \in Ops, op[o].st = "active", Finish(o), waiters' = waiters
    PROVE  /\ op' \in [Ops -> OpType] /\ lock' \in Seq(Ops) /\ Queues'
           /\ Len(waiters') + Len(lock') <= Cardinality(Ops)
           /\ Chained' \subseteq Chained /\ \A x \in Ops : op'[x].st # "idle" => op'[x] = op[x]
           /\ \A x, y \in Chained' : x = y
           /\ Due(Poll)' = Due(Poll) /\ Due(Setting)' = Due(Setting)
<1>0. TypeOK /\ Queues
    BY DEF Support
<1>1. op' = [op EXCEPT ![o] = Idle] /\ lock' = Tail(lock)
    BY DEF Finish
<1>2. op \in [Ops -> OpType] /\ o \in Chained /\ Head(lock) = o
    BY <1>0 DEF TypeOK, Chained, Queues
<1>3. /\ op' \in [Ops -> OpType] /\ op'[o] = Idle /\ \A x \in Ops : x # o => op'[x] = op[x]
    BY <1>1, <1>2, Bounds
<1>4. Idle.st = "idle"
    BY DEF Idle
<1>5. Chained' = Chained \ {o} /\ Waiting' = Waiting
    BY <1>2, <1>3, <1>4 DEF Chained, Waiting
<1>6. lock # <<>>
    BY <1>0, <1>2, ListsNobody DEF Queues
<1>7. Lists(lock', Chained') /\ Lists(waiters', Waiting')
    BY <1>0, <1>1, <1>2, <1>5, <1>6, ListsTail DEF Queues
<1>8. \A x \in Ops : op'[x].st # "active"
    BY <1>0, <1>2, <1>3, <1>4 DEF Queues
<1>9. Queues'
    BY <1>7, <1>8 DEF Queues
<1>10. \A x, y \in Chained' : x = y
    BY <1>5 DEF Chained, Ops
<1>11. Waiting' \intersect Chained' = {}
    BY DEF Waiting, Chained
<1>12. Len(waiters') + Len(lock') <= Cardinality(Ops) /\ lock' \in Seq(Ops)
    <2>1. lock' \in Seq(Ops)
        BY <1>7 DEF Lists
    <2> QED
        BY <1>7, <1>11, <2>1, ListsShort
<1>13. \A x \in Ops : Due(x)' = Due(x)
    BY <1>3, <1>4 DEF Due
<1> QED
    BY <1>3, <1>4, <1>5, <1>9, <1>10, <1>12, <1>13 DEF Ops

\* A port may forget its request, and operations may leave the lock.
LEMMA Cleared ==
    ASSUME Support, NEW p \in Ports,
           port' = port \/ port' = [port EXCEPT ![p].out = NoRequest],
           UNCHANGED <<wire, replies, refused, lastTx, connecting, client, closing>>, OpenIsClient,
           Chained' \subseteq Chained, \A x \in Chained' : op'[x].port = op[x].port,
           \A x \in Ops : op'[x].st = "active" => op'[x] = op[x],
           (lock' = lock /\ Chained' = Chained) \/ \A x, y \in Chained' : x = y
    PROVE  /\ port' \in [Ports -> PortType]
           /\ Phases' /\ Alone' /\ OpenIsClient' /\ Latest' /\ SamePort' /\ Matched'
<1>0. TypeOK /\ Phases /\ Alone /\ Latest /\ SamePort /\ Matched
    BY DEF Support
<1>1. /\ port' \in [Ports -> PortType]
      /\ \A q \in Ports : /\ port'[q].timer = port[q].timer /\ port'[q].probing = port[q].probing
                          /\ port'[q].open = port[q].open /\ port'[q].sock = port[q].sock
                          /\ port'[q].out = port[q].out \/ port'[q].out = NoRequest
    <2> DEFINE new == [port[p] EXCEPT !.out = NoRequest]
    <2>1. port \in [Ports -> PortType] /\ port[p] \in PortType
        BY <1>0 DEF TypeOK
    <2>2. /\ new \in PortType /\ new.timer = port[p].timer /\ new.probing = port[p].probing
          /\ new.open = port[p].open /\ new.sock = port[p].sock /\ new.out = NoRequest
        BY <2>1, Bounds DEF PortType
    <2>3. port' = port \/ port' = [port EXCEPT ![p] = new]
        OBVIOUS
    <2> HIDE DEF new
    <2>4. CASE port' = [port EXCEPT ![p] = new]
        <3>1. port'[p] = new /\ (\A q \in Ports : q # p => port'[q] = port[q])
              /\ port' \in [Ports -> PortType]
            BY <2>1, <2>2, <2>4
        <3> QED
            BY <2>2, <3>1
    <2> QED
        BY <2>1, <2>3, <2>4
<1>2. Phases'
    BY <1>0, <1>1 DEF Phases
<1>3. Alone' /\ OpenIsClient'
    BY <1>0, <1>1 DEF TypeOK, Alone, OpenIsClient
<1>4. Latest'
    <2> SUFFICES ASSUME NEW q \in Ports, port'[q].out # NoRequest
                 PROVE  /\ port'[q].out.tx \in 1..lastTx'
                        /\ port'[q].open => port'[q].out.tx = lastTx'
                        /\ port'[q].out.retried => <<port'[q].out.tx, FALSE>> \in refused'
        BY <1>0 DEF Latest
    <2>1. port'[q].out = port[q].out /\ port[q].out # NoRequest
        BY <1>1
    <2>2. lastTx' = lastTx /\ refused' = refused /\ port'[q].open = port[q].open
        BY <1>1
    <2>3. /\ port[q].out.tx \in 1..lastTx
          /\ port[q].open => port[q].out.tx = lastTx
          /\ port[q].out.retried => <<port[q].out.tx, FALSE>> \in refused
        BY <1>0, <2>1 DEF Latest
    <2> QED
        BY <2>1, <2>2, <2>3
<1>5. SamePort'
    <2>1. \A x \in Chained' : /\ op'[x].port \in Ports
                              /\ port'[op'[x].port].open \/ port'[op'[x].port].sock = "dead"
        BY <1>0, <1>1 DEF SamePort
    <2>2. \A x \in Chained' : Head(lock') = x /\ port'[op'[x].port].open =>
            \A y \in Chained' : op'[y].port = op'[x].port
        BY <1>0, <1>1, <2>1 DEF SamePort
    <2>3. \A q \in Ports : port'[q].open /\ port'[q].out # NoRequest =>
            \A x \in Chained' : op'[x].port = q
        BY <1>0, <1>1 DEF SamePort
    <2> QED
        BY <2>1, <2>2, <2>3 DEF SamePort
<1>6. Matched'
    <2>1. \A m \in Message : m.port \in Ports /\ Belongs(m) => Belongs(m)'
        BY <1>1 DEF Belongs
    <2>2. \A m \in wire : m \in Message /\ m.port \in Ports
        BY <1>0 DEF TypeOK, Message
    <2>3. \A r \in replies : r.msg \in Message /\ r.msg.port \in Ports
        BY <1>0 DEF TypeOK, Reply, Message
    <2> QED
        BY <1>0, <2>1, <2>2, <2>3 DEF Matched
<1> QED
    BY <1>1, <1>2, <1>3, <1>4, <1>5, <1>6

\* modbus-serial gives up on a transaction.
LEMMA TimeoutKeeps ==
    ASSUME IInv, NEW o \in Ops, TxTimeout(o)
    PROVE  IInv'
<1>0. Support /\ TypeOK /\ Counted /\ OpenIsClient
    BY DEF IInv, Support
<1>1. /\ op[o].st = "active" /\ Finish(o)
      /\ UNCHANGED <<port, client, connecting, waiters, begun, lastTx, foreign, wire, replies, refused,
                     spanning, degraded, configured, closes, closing>>
    BY DEF TxTimeout, dialVars, linkVars, planVars
<1>2. /\ op' \in [Ops -> OpType] /\ lock' \in Seq(Ops) /\ Queues'
      /\ Len(waiters') + Len(lock') <= Cardinality(Ops)
      /\ Chained' \subseteq Chained /\ \A x \in Ops : op'[x].st # "idle" => op'[x] = op[x]
      /\ \A x, y \in Chained' : x = y
      /\ Due(Poll)' = Due(Poll) /\ Due(Setting)' = Due(Setting)
    BY <1>0, <1>1, FinishEffect
<1>3. \A x \in Chained' : op'[x].port = op[x].port
    BY <1>2 DEF Chained
<1>4. o \in Chained
    BY <1>1 DEF Chained
<1>5. op[o].port \in Ports
    BY <1>0, <1>4 DEF Support, SamePort
<1>6. Phases' /\ Alone' /\ OpenIsClient' /\ Latest' /\ SamePort' /\ Matched'
    BY <1>0, <1>1, <1>2, <1>3, <1>5, Cleared
<1>7. TypeOK'
    BY <1>0, <1>1, <1>2 DEF TypeOK
<1>8. Counted' /\ AnsweredByOwnReply' /\ SplitAfterTwoRefusals'
    BY <1>0, <1>1, <1>2 DEF Counted, IInv, AnsweredByOwnReply, SplitAfterTwoRefusals
<1> QED
    BY <1>2, <1>6, <1>7, <1>8 DEF IInv, Support

\* The stick answers or refuses.
LEMMA AnswerKeeps ==
    ASSUME IInv, NEW m \in wire, Answer(m)
    PROVE  IInv' /\ wire' \subseteq wire
<1>0. Support /\ TypeOK /\ Queues /\ Phases /\ Alone /\ Latest /\ SamePort /\ Matched /\ Counted
    BY DEF IInv, Support
<1>1. PICK kind \in {"data"} \union Statuses :
        /\ replies' = replies \union {[msg |-> m, kind |-> kind]}
        /\ refused' = IF kind = "05" /\ m.tx # 0 THEN refused \union {<<m.tx, m.retried>>} ELSE refused
    BY DEF Answer
<1>2. /\ wire' = wire \ {m}
      /\ UNCHANGED <<port, client, connecting, waiters, op, lock, begun, lastTx, foreign,
                     spanning, degraded, configured, closes, closing>>
    BY DEF Answer, dialVars, opVars, planVars
<1>3. m \in Message /\ m.port \in Ports /\ m.tx \in 0..MaxTx /\ m.retried \in BOOLEAN
    BY <1>0 DEF TypeOK, Message
<1>4. [msg |-> m, kind |-> kind] \in Reply
    BY <1>3 DEF Reply
<1>5. refused \subseteq refused' /\ refused' \subseteq Tx \X BOOLEAN
    <2>1. m.tx # 0 => m.tx \in Tx
        BY <1>3, Bounds DEF Tx
    <2> QED
        BY <1>0, <1>1, <1>3, <2>1 DEF TypeOK
<1>6. TypeOK'
    BY <1>0, <1>1, <1>2, <1>4, <1>5 DEF TypeOK
<1>7. Queues' /\ Phases' /\ Alone' /\ SamePort' /\ Counted' /\ OpenIsClient' /\ AnsweredByOwnReply'
    BY <1>0, <1>2 DEF Queues, Chained, Waiting, Phases, Alone, SamePort, Counted, Due, IInv,
       OpenIsClient, AnsweredByOwnReply
<1>8. Latest'
    BY <1>0, <1>2, <1>5 DEF Latest
<1>9. Matched'
    <2>1. \A n : Belongs(n) => Belongs(n)'
        BY <1>2 DEF Belongs
    <2>2. \A n \in wire' : Belongs(n)'
        BY <1>0, <1>2, <2>1 DEF Matched
    <2>3. \A r \in replies' : r \in replies \/ (r.msg = m /\ r.kind = kind)
        BY <1>1
    <2>4. \A r \in replies' : Belongs(r.msg)'
        BY <1>0, <2>1, <2>3 DEF Matched
    <2>5. \A r \in replies' : r.kind = "05" /\ r.msg.tx # 0 => <<r.msg.tx, r.msg.retried>> \in refused'
        BY <1>0, <1>1, <1>5, <2>3 DEF Matched
    <2> QED
        BY <2>2, <2>4, <2>5 DEF Matched
<1>10. SplitAfterTwoRefusals'
    BY <1>2, <1>5 DEF IInv, SplitAfterTwoRefusals
<1> QED
    BY <1>2, <1>6, <1>7, <1>8, <1>9, <1>10 DEF IInv, Support

\* A reply that answers what its port waits for belongs to that request.
LEMMA ReplyFacts ==
    ASSUME Support, NEW r \in replies, Answers(r)
    PROVE  LET p   == r.msg.port
               out == port[p].out
           IN  /\ p \in Ports /\ port[p].open /\ port[p].sock # "dead" /\ out # NoRequest
               /\ out \in Request /\ out.tx = lastTx /\ out.tx \in Tx
               /\ r.msg.tx = out.tx /\ r.msg.retried = out.retried
               /\ out.retried => <<out.tx, FALSE>> \in refused
               /\ r.kind = "05" => <<out.tx, out.retried>> \in refused
<1> DEFINE p == r.msg.port
           out == port[p].out
<1>0. TypeOK /\ Phases /\ Latest /\ Matched
    BY DEF Support
<1>1. r \in Reply /\ r.msg \in Message /\ p \in Ports
    BY <1>0 DEF TypeOK, Reply, Message
<1>2. out \in Request /\ out.tx \in 0..MaxTx
    BY <1>0, <1>1 DEF TypeOK, PortType, Request
<1>3. out # NoRequest /\ out.seq = r.msg.seq
    BY DEF Answers
<1>4. port[p].sock # "dead" /\ r.msg.tx = out.tx /\ r.msg.retried = out.retried
    BY <1>0, <1>3 DEF Matched, Belongs
<1>5. port[p].open
    BY <1>0, <1>1, <1>3, <1>4 DEF Phases
<1>6. /\ out.tx \in 1..lastTx /\ out.tx = lastTx
      /\ out.retried => <<out.tx, FALSE>> \in refused
    BY <1>0, <1>1, <1>3, <1>5 DEF Latest
<1>7. out.tx \in Tx /\ out.tx # 0
    <2>1. lastTx \in 0..MaxTx
        BY <1>0 DEF TypeOK
    <2> QED
        BY <1>6, <2>1, Bounds DEF Tx
<1>8. r.kind = "05" => <<out.tx, out.retried>> \in refused
    BY <1>0, <1>4, <1>7 DEF Matched
<1> QED
    BY <1>1, <1>2, <1>3, <1>4, <1>5, <1>6, <1>7, <1>8

\* A request that was refused for the first time is asked once more.
LEMMA RetryKeeps ==
    ASSUME IInv, NEW r \in replies, Deliver(r), ~port[r.msg.port].probing, Retries(r)
    PROVE  IInv' /\ \A m \in wire' \ wire : m.tx = lastTx'
<1> DEFINE p == r.msg.port
           tx == port[p].out.tx
<1>0. Support /\ TypeOK /\ Queues /\ Phases /\ Alone /\ Latest /\ SamePort /\ Matched /\ Counted
    BY DEF IInv, Support
<1>1. /\ Answers(r) /\ port' = [port EXCEPT ![p] = Sent(p, tx, TRUE)] /\ Put(p, tx, TRUE)
      /\ UNCHANGED <<client, connecting, waiters, op, lock, begun, lastTx, foreign, spanning, degraded,
                     refused, configured, closes, closing>>
    BY DEF Deliver, dialVars, opVars, planVars
<1>2. /\ p \in Ports /\ port[p].open /\ port[p].sock # "dead" /\ port[p].out # NoRequest
      /\ tx = lastTx /\ tx \in Tx
      /\ r.kind = "05" => <<tx, port[p].out.retried>> \in refused
      /\ port[p].out \in Request
    BY <1>0, <1>1, ReplyFacts
<1>3. <<tx, FALSE>> \in refused
    <2>1. port[p].out.retried = FALSE /\ r.kind = "05"
        BY <1>2 DEF Retries, Request
    <2> QED
        BY <1>2, <2>1
<1>4. tx \in 0..MaxTx
    BY <1>2, Bounds DEF Tx
<1>5. /\ port' \in [Ports -> PortType] /\ wire' \subseteq Message /\ replies' \subseteq Reply
      /\ Matched'
      /\ \A q \in Ports : q # p => port'[q] = port[q]
      /\ port'[p].timer = port[p].timer /\ port'[p].probing = port[p].probing
      /\ port'[p].open = port[p].open /\ port'[p].sock = port[p].sock
      /\ port'[p].out = [seq |-> port[p].seq, tx |-> tx, retried |-> TRUE]
      /\ \A m \in wire' \ wire : m.tx = tx
    BY <1>0, <1>1, <1>2, <1>4, PutKeeps
<1>6. \A q \in Ports : /\ port'[q].timer = port[q].timer /\ port'[q].probing = port[q].probing
                       /\ port'[q].open = port[q].open /\ port'[q].sock = port[q].sock
                       /\ port'[q].out # NoRequest => port[q].out # NoRequest
    BY <1>2, <1>5
<1>7. TypeOK'
    BY <1>0, <1>1, <1>5 DEF TypeOK
<1>8. Queues' /\ Counted' /\ Chained' = Chained /\ AnsweredByOwnReply' /\ SplitAfterTwoRefusals'
    BY <1>0, <1>1 DEF Queues, Chained, Waiting, Counted, Due, IInv, AnsweredByOwnReply,
       SplitAfterTwoRefusals
<1>9. Phases'
    BY <1>0, <1>1, <1>6 DEF Phases
<1>10. Alone' /\ OpenIsClient'
    <2>1. closing # 0 => closing \in Ports
        BY <1>0 DEF TypeOK
    <2>2. Alone'
        BY <1>0, <1>1, <1>6, <2>1 DEF Alone
    <2> QED
        BY <1>1, <1>6, <2>2 DEF IInv, OpenIsClient
<1>11. Latest'
    <2>1. \A x \in Ops : op'[x].st = "active" => op'[x].tx = lastTx'
        BY <1>0, <1>1 DEF Latest
    <2>2. ASSUME NEW q \in Ports, port'[q].out # NoRequest
          PROVE  /\ port'[q].out.tx \in 1..lastTx'
                 /\ port'[q].open => port'[q].out.tx = lastTx'
                 /\ port'[q].out.retried => <<port'[q].out.tx, FALSE>> \in refused'
        <3>1. CASE q = p
            <4>1. port'[q].out.tx = tx /\ lastTx' = lastTx /\ refused' = refused
                <5>1. port'[q].out = [seq |-> port[p].seq, tx |-> tx, retried |-> TRUE]
                    BY <1>5, <3>1
                <5>2. port'[q].out.tx = tx
                    BY <5>1
                <5> QED
                    BY <1>1, <5>2
            <4>2. tx \in 1..lastTx /\ tx = lastTx
                BY <1>0, <1>2 DEF Latest
            <4>3. port'[q].out.tx \in 1..lastTx' /\ port'[q].out.tx = lastTx'
                BY <4>1, <4>2
            <4>4. <<port'[q].out.tx, FALSE>> \in refused'
                BY <1>3, <4>1
            <4> QED
                BY <4>3, <4>4
        <3>2. CASE q # p
            <4>1. port'[q] = port[q] /\ lastTx' = lastTx /\ refused' = refused
                BY <1>1, <1>5, <3>2
            <4>2. /\ port[q].out.tx \in 1..lastTx
                  /\ port[q].open => port[q].out.tx = lastTx
                  /\ port[q].out.retried => <<port[q].out.tx, FALSE>> \in refused
                BY <1>0, <2>2, <4>1 DEF Latest
            <4> QED
                BY <4>1, <4>2
        <3> QED
            BY <3>1, <3>2
    <2> QED
        BY <2>1, <2>2 DEF Latest
<1>12. SamePort'
    <2>1. \A x \in Chained : op[x].port \in Ports
        BY <1>0 DEF SamePort
    <2>2. op' = op /\ lock' = lock
        BY <1>1
    <2> QED
        BY <1>0, <1>6, <1>8, <2>1, <2>2 DEF SamePort
<1>13. \A m \in wire' \ wire : m.tx = lastTx'
    BY <1>1, <1>2, <1>5
<1> QED
    BY <1>5, <1>7, <1>8, <1>9, <1>10, <1>11, <1>12, <1>13 DEF IInv, Support

\* An answer ends the transaction of its port, or splits the plan.
LEMMA CompleteKeeps ==
    ASSUME IInv, NEW r \in replies, Deliver(r), ~port[r.msg.port].probing, ~Retries(r)
    PROVE  IInv' /\ wire' \subseteq wire
<1> DEFINE p == r.msg.port
           tx == port[p].out.tx
<1>0. Support /\ TypeOK /\ Queues /\ SamePort /\ Counted /\ OpenIsClient /\ Latest
    BY DEF IInv, Support
<1>1. /\ Answers(r) /\ port' = [port EXCEPT ![p].out = NoRequest]
      /\ IF Pending(p) = {}
         THEN UNCHANGED <<op, lock, foreign, planVars>>
         ELSE \E o \in Pending(p) :
                IF r.kind = "data"
                THEN /\ Finish(o)
                     /\ foreign' = IF r.msg.tx = op[o].tx THEN foreign ELSE foreign \union {op[o].tx}
                     /\ UNCHANGED planVars
                ELSE Refuse(o, r.kind) /\ UNCHANGED foreign
      /\ UNCHANGED <<client, connecting, waiters, begun, lastTx, wire, replies, refused,
                     configured, closes, closing>>
    BY DEF Deliver, dialVars
<1>2. /\ p \in Ports /\ port[p].open /\ tx = lastTx /\ tx \in Tx /\ r.msg.tx = tx
      /\ port[p].out \in Request
      /\ port[p].out.retried => <<tx, FALSE>> \in refused
      /\ r.kind = "05" => <<tx, port[p].out.retried>> \in refused
    BY <1>0, <1>1, ReplyFacts
<1> HIDE DEF p, tx
<1>3. CASE UNCHANGED <<op, lock, foreign, planVars>>
    <2>1. UNCHANGED <<op, lock, foreign, spanning, degraded>>
        BY <1>3 DEF planVars
    <2>2. Queues' /\ Counted' /\ Chained' = Chained /\ AnsweredByOwnReply' /\ SplitAfterTwoRefusals'
        BY <1>0, <1>1, <2>1 DEF Queues, Chained, Waiting, Counted, Due, IInv, AnsweredByOwnReply,
           SplitAfterTwoRefusals
    <2>3. /\ port' \in [Ports -> PortType]
          /\ Phases' /\ Alone' /\ OpenIsClient' /\ Latest' /\ SamePort' /\ Matched'
        BY <1>0, <1>1, <1>2, <2>1, <2>2, Cleared
    <2>4. TypeOK'
        BY <1>0, <1>1, <2>1, <2>3 DEF TypeOK
    <2> QED
        BY <1>1, <2>2, <2>3, <2>4 DEF IInv, Support
<1>4. ASSUME NEW o \in Ops, op[o].st = "active", Finish(o), UNCHANGED planVars, foreign' = foreign
      PROVE  IInv' /\ wire' \subseteq wire
    <2>1. UNCHANGED <<waiters, spanning, degraded>>
        BY <1>1, <1>4 DEF planVars
    <2>2. /\ op' \in [Ops -> OpType] /\ lock' \in Seq(Ops) /\ Queues'
          /\ Len(waiters') + Len(lock') <= Cardinality(Ops)
          /\ Chained' \subseteq Chained /\ \A x \in Ops : op'[x].st # "idle" => op'[x] = op[x]
          /\ \A x, y \in Chained' : x = y
          /\ Due(Poll)' = Due(Poll) /\ Due(Setting)' = Due(Setting)
        BY <1>0, <1>4, <2>1, FinishEffect
    <2>3. \A x \in Chained' : op'[x].port = op[x].port
        BY <2>2 DEF Chained
    <2>4. /\ port' \in [Ports -> PortType]
          /\ Phases' /\ Alone' /\ OpenIsClient' /\ Latest' /\ SamePort' /\ Matched'
        BY <1>0, <1>1, <1>2, <2>2, <2>3, Cleared
    <2>5. TypeOK'
        BY <1>0, <1>1, <1>4, <2>1, <2>2, <2>4 DEF TypeOK
    <2>6. Counted' /\ AnsweredByOwnReply' /\ SplitAfterTwoRefusals'
        BY <1>0, <1>1, <1>4, <2>1, <2>2 DEF Counted, IInv, AnsweredByOwnReply, SplitAfterTwoRefusals
    <2> QED
        BY <1>1, <2>2, <2>4, <2>5, <2>6 DEF IInv, Support
<1>5. ASSUME NEW o \in Ops, op[o].st = "active", r.kind = "05", spanning,
             spanning' = FALSE, degraded' = TRUE, op' = [op EXCEPT ![o].st = "queued"], lock' = lock,
             foreign' = foreign
      PROVE  IInv' /\ wire' \subseteq wire
    <2> DEFINE again == [op[o] EXCEPT !.st = "queued"]
    <2>1. op \in [Ops -> OpType] /\ op[o] \in OpType /\ op' = [op EXCEPT ![o] = again]
        BY <1>0, <1>5 DEF TypeOK
    <2>2. again \in OpType /\ again.st = "queued" /\ again.port = op[o].port
        BY <2>1 DEF OpType
    <2> HIDE DEF again
    <2>3. op' \in [Ops -> OpType] /\ op'[o] = again /\ \A x \in Ops : x # o => op'[x] = op[x]
        BY <2>1, <2>2
    <2>4. Chained' = Chained /\ Waiting' = Waiting
        BY <1>5, <2>2, <2>3 DEF Chained, Waiting
    <2>5. \A x \in Ops : op'[x].st = "active" => op'[x] = op[x]
        BY <2>2, <2>3
    <2>6. Queues'
        BY <1>0, <1>1, <1>5, <2>4, <2>5 DEF Queues
    <2>7. \A x \in Chained' : op'[x].port = op[x].port
        BY <2>2, <2>3 DEF Chained
    <2>8. /\ port' \in [Ports -> PortType]
          /\ Phases' /\ Alone' /\ OpenIsClient' /\ Latest' /\ SamePort' /\ Matched'
        BY <1>0, <1>1, <1>2, <1>5, <2>4, <2>5, <2>7, Cleared
    <2>9. TypeOK'
        BY <1>0, <1>1, <1>5, <2>3, <2>8 DEF TypeOK
    <2>10. Counted'
        <3>1. Due(o) = 0 /\ Due(o)' = 1
            BY <1>5, <2>2, <2>3 DEF Due
        <3>2. /\ Due(Poll) \in {0, 1} /\ Due(Setting) \in {0, 1}
              /\ Due(Poll)' \in {0, 1} /\ Due(Setting)' \in {0, 1}
              /\ Due(Poll)' + Due(Setting)' = Due(Poll) + Due(Setting) + 1
            BY <2>3, <3>1, DueChange
        <3>3. lastTx \in Nat /\ begun \in Nat
            BY <1>0, Bounds DEF TypeOK
        <3>4. lastTx + Due(Poll) + Due(Setting) <= begun /\ lastTx' = lastTx /\ begun' = begun
            <4>1. ~degraded
                BY <1>0, <1>5, Zenon DEF Counted
            <4>2. lastTx + Due(Poll) + Due(Setting) <= begun + 0
                BY <1>0, <4>1 DEF Counted
            <4> QED
                BY <1>1, <3>3, <4>2
        <3>5. lastTx' + Due(Poll)' + Due(Setting)' <= begun' + 1
            BY <3>2, <3>3, <3>4
        <3> QED
            BY <1>5, <3>5 DEF Counted
    <2>11. SplitAfterTwoRefusals'
        <3>1. port[p].out.retried
            BY <1>2, <1>5 DEF Retries, p
        <3>2. port[p].out.retried = TRUE
            BY <1>2, <3>1 DEF Request
        <3>3. <<tx, FALSE>> \in refused' /\ <<tx, TRUE>> \in refused' /\ tx \in Tx
            BY <1>1, <1>2, <1>5, <3>2
        <3> QED
            BY <3>3 DEF SplitAfterTwoRefusals
    <2> QED
        BY <1>1, <1>5, <2>6, <2>8, <2>9, <2>10, <2>11 DEF IInv, Support, AnsweredByOwnReply
<1>6. ASSUME NEW o \in Pending(p), r.kind = "data", Finish(o), UNCHANGED planVars,
             foreign' = IF r.msg.tx = op[o].tx THEN foreign ELSE foreign \union {op[o].tx}
      PROVE  IInv' /\ wire' \subseteq wire
    <2>1. o \in Ops /\ op[o].st = "active"
        BY DEF Pending
    <2>2. r.msg.tx = op[o].tx
        BY <1>0, <1>2, <2>1 DEF Latest
    <2> QED
        BY <1>4, <1>6, <2>1, <2>2
<1>7. ASSUME NEW o \in Pending(p), Refuse(o, r.kind), foreign' = foreign
      PROVE  IInv' /\ wire' \subseteq wire
    <2>1. o \in Ops /\ op[o].st = "active"
        BY DEF Pending
    <2>2. CASE o = Poll /\ r.kind = "05" /\ spanning
        <3>1. spanning' = FALSE /\ degraded' = TRUE /\ op' = [op EXCEPT ![o].st = "queued"] /\ lock' = lock
            BY <1>7, <2>2 DEF Refuse
        <3> QED
            BY <1>5, <1>7, <2>1, <2>2, <3>1
    <2>3. CASE ~(o = Poll /\ r.kind = "05" /\ spanning)
        BY <1>4, <1>7, <2>1, <2>3 DEF Refuse
    <2> QED
        BY <2>2, <2>3
<1> QED
    BY <1>1, <1>3, <1>6, <1>7

-----------------------------------------------------------------------------
(* The theorems *)

\* A transport starts without a port and without an operation.
LEMMA InitHolds == Init => IInv
<1> SUFFICES ASSUME Init PROVE IInv
    OBVIOUS
<1>1. \A o \in Ops : op[o] = Idle
    BY DEF Init
<1>2. \A p \in Ports : port[p] = NewPort
    BY DEF Init
<1>3. Chained = {} /\ Waiting = {} /\ Due(Poll) = 0 /\ Due(Setting) = 0
    BY <1>1 DEF Chained, Waiting, Due, Idle, Ops
<1>4. TypeOK
    <2>1. port \in [Ports -> PortType] /\ op \in [Ops -> OpType]
        BY Bounds DEF Init
    <2>2. Len(waiters) + Len(lock) <= Cardinality(Ops)
        BY TwoOps DEF Init
    <2>3. closes \in 0..MaxCloses /\ begun \in 0..MaxOps /\ lastTx \in 0..MaxTx
        BY BoundsAssumption, Bounds DEF Init
    <2>4. waiters \in Seq(Ops) /\ lock \in Seq(Ops)
        BY DEF Init
    <2> QED
        BY <2>1, <2>2, <2>3, <2>4 DEF Init, TypeOK
<1>5. Queues
    BY <1>1, <1>3, ListsNobody DEF Init, Queues, Idle
<1>6. Phases /\ Alone /\ OpenIsClient /\ SamePort /\ Latest
    <2>1. \A p \in Ports : /\ port[p].sock = "none" /\ port[p].out = NoRequest
                           /\ ~port[p].open /\ ~port[p].probing /\ ~port[p].timer
        BY <1>2 DEF NewPort
    <2>2. \A o \in Ops : op[o].st # "active"
        BY <1>1 DEF Idle
    <2>3. Phases /\ Alone /\ OpenIsClient
        BY <2>1 DEF Init, Phases, Alone, OpenIsClient
    <2> QED
        BY <1>3, <2>1, <2>2, <2>3 DEF SamePort, Latest
<1>7. Matched /\ AnsweredByOwnReply
    BY DEF Init, Matched, AnsweredByOwnReply
<1>8. Counted /\ SplitAfterTwoRefusals
    <2>1. spanning = TRUE /\ degraded = FALSE /\ lastTx = 0 /\ begun = 0
        BY DEF Init
    <2>2. spanning = ~degraded
        BY <2>1
    <2>3. lastTx + Due(Poll) + Due(Setting) <= begun + (IF degraded THEN 1 ELSE 0)
        BY <1>3, <2>1
    <2> QED
        BY <2>1, <2>2, <2>3 DEF Counted, SplitAfterTwoRefusals
<1> QED
    BY <1>4, <1>5, <1>6, <1>7, <1>8 DEF IInv, Support

\* Every step keeps the invariant and puts nothing but a probe or the latest
\* transaction on the wire.
LEMMA StepHolds ==
    ASSUME IInv, Next
    PROVE  IInv' /\ \A m \in wire' \ wire : m.tx \in {0, lastTx'}
<1>1. ASSUME NEW p \in Ports, SocketConnects(p)
      PROVE  IInv' /\ \A m \in wire' \ wire : m.tx \in {0, lastTx'}
    <2> DEFINE probe == [port |-> p, seq |-> port[p].seq, tx |-> 0, retried |-> FALSE]
    <2>1. wire' = wire \union {probe} /\ probe.tx = 0
        BY <1>1 DEF SocketConnects
    <2> HIDE DEF probe
    <2> QED
        BY <1>1, <2>1, ConnectKeeps
<1>2. ASSUME NEW p \in Ports, Dropped(p, port[p])
      PROVE  IInv' /\ \A m \in wire' \ wire : m.tx \in {0, lastTx'}
    BY <1>2, DroppedKeeps DEF Dropped
<1>3. ASSUME NEW p \in Ports, PortTimer(p)
      PROVE  IInv' /\ \A m \in wire' \ wire : m.tx \in {0, lastTx'}
    <2>1. CASE port[p].probing /\ configured
        <3>1. Opened(p) /\ UNCHANGED linkVars
            BY <1>3, <2>1 DEF PortTimer
        <3>2. wire' = wire
            BY <3>1 DEF linkVars
        <3> QED
            BY <2>1, <3>1, <3>2, OpenedKeeps
    <2> QED
        BY <1>2, <1>3, <2>1 DEF PortTimer
<1>4. ASSUME NEW p \in Ports, SocketLost(p)
      PROVE  IInv' /\ \A m \in wire' \ wire : m.tx \in {0, lastTx'}
    BY <1>2, <1>4 DEF SocketLost
<1>5. CASE DeadlineFires
    BY <1>5, DeadlineKeeps DEF DeadlineFires, linkVars
<1>6. CASE Close
    BY <1>6, CloseKeeps DEF Close, linkVars
<1>7. ASSUME NEW o \in Ops, Begin(o)
      PROVE  IInv' /\ \A m \in wire' \ wire : m.tx \in {0, lastTx'}
    <2>1. wire' = wire
        BY <1>7 DEF Begin, linkVars
    <2> QED
        BY <1>7, <2>1, BeginKeeps
<1>8. ASSUME NEW o \in Ops, StartTx(o)
      PROVE  IInv' /\ \A m \in wire' \ wire : m.tx \in {0, lastTx'}
    BY <1>8, StartKeeps
<1>9. ASSUME NEW o \in Ops, TxTimeout(o)
      PROVE  IInv' /\ \A m \in wire' \ wire : m.tx \in {0, lastTx'}
    BY <1>9, TimeoutKeeps DEF TxTimeout, linkVars
<1>10. ASSUME NEW m \in wire, Answer(m)
       PROVE  IInv' /\ \A n \in wire' \ wire : n.tx \in {0, lastTx'}
    BY <1>10, AnswerKeeps
<1>11. ASSUME NEW r \in replies, Deliver(r)
       PROVE  IInv' /\ \A m \in wire' \ wire : m.tx \in {0, lastTx'}
    <2>1. CASE port[r.msg.port].probing
        <3>1. Opened(r.msg.port) /\ UNCHANGED linkVars
            BY <1>11, <2>1 DEF Deliver
        <3>2. r.msg.port \in Ports
            BY DEF IInv, Support, TypeOK, Reply, Message
        <3>3. wire' = wire
            BY <3>1 DEF linkVars
        <3> QED
            BY <2>1, <3>1, <3>2, <3>3, OpenedKeeps
    <2>2. CASE ~port[r.msg.port].probing /\ Retries(r)
        BY <1>11, <2>2, RetryKeeps
    <2>3. CASE ~port[r.msg.port].probing /\ ~Retries(r)
        BY <1>11, <2>3, CompleteKeeps
    <2> QED
        BY <2>1, <2>2, <2>3
<1> QED
    BY <1>1, <1>3, <1>4, <1>5, <1>6, <1>7, <1>8, <1>9, <1>10, <1>11 DEF Next

\* The invariant holds in every reachable state.
LEMMA Inductive == Spec => []IInv
<1>1. Init => IInv
    BY InitHolds
<1>2. IInv /\ [Next]_vars => IInv'
    <2> SUFFICES ASSUME IInv, [Next]_vars PROVE IInv'
        OBVIOUS
    <2>1. CASE Next
        BY <2>1, StepHolds
    <2>2. CASE UNCHANGED vars
        <3>1. UNCHANGED <<port, client, connecting, waiters, op, lock, begun, lastTx, foreign, wire,
                          replies, refused, spanning, degraded, configured, closes, closing>>
            BY <2>2 DEF vars, dialVars, opVars, linkVars, planVars
        <3>2. TypeOK' /\ Queues' /\ Phases' /\ Alone' /\ Latest'
            BY <3>1 DEF IInv, Support, TypeOK, Queues, Chained, Waiting, Phases, Alone, Latest
        <3>3. SamePort' /\ Matched' /\ Counted'
            BY <3>1 DEF IInv, Support, SamePort, Chained, Matched, Belongs, Counted, Due
        <3> QED
            BY <3>1, <3>2, <3>3 DEF IInv, Support, OpenIsClient, AnsweredByOwnReply,
               SplitAfterTwoRefusals
    <2> QED
        BY <2>1, <2>2
<1> QED
    BY <1>1, <1>2, PTL DEF Spec

\* The ports, queues, messages and counters of the transport stay of their
\* types, whatever connects, closes, answers and timeouts do to each other; in
\* particular MaxOps + 1 transactions are enough for MaxOps operations, since
\* read() runs narrow() once.
THEOREM TypeCorrect == Spec => []TypeOK
<1>1. IInv => TypeOK
    BY DEF IInv, Support
<1> QED
    BY <1>1, Inductive, PTL

\* getClient() and close() never leave a second open port behind the client.
THEOREM OneOpenPort == Spec => []OpenIsClient
<1>1. IInv => OpenIsClient
    BY DEF IInv
<1> QED
    BY <1>1, Inductive, PTL

\* #handleFrame() hands a transaction the answer to its own request, however
\* late, often or out of order replies come.
THEOREM AnswersAreOwn == Spec => []AnsweredByOwnReply
<1>1. IInv => AnsweredByOwnReply
    BY DEF IInv
<1> QED
    BY <1>1, Inductive, PTL

\* narrow() splits the read plan only after both attempts of #retryTransient()
\* at one request were refused.
THEOREM SplitIsEarned == Spec => []SplitAfterTwoRefusals
<1>1. IInv => SplitAfterTwoRefusals
    BY DEF IInv
<1> QED
    BY <1>1, Inductive, PTL

\* #retryTransient() never writes an older request after a newer one.
THEOREM RetriesNeverOvertake == Spec => NothingOvertaken
<1>1. IInv /\ [Next]_vars => [\A m \in wire' \ wire : m.tx \in {0, lastTx'}]_vars
    BY StepHolds
<1> QED
    BY <1>1, Inductive, PTL DEF Spec, NothingOvertaken
=============================================================================
