---------------------------- MODULE LiveBusProofs ----------------------------
(***************************************************************************)
(* Proofs about LiveBus for any topics, any number of handlers, frames and *)
(* payloads, and any mishaps.                                              *)
(***************************************************************************)
EXTENDS LiveBus, TLAPS

\* A frame of s still takes t back.
WillDrop(s, t) == \E i \in 1..Len(s) : s[i].t = "unsub" /\ t \in s[i].topics

\* Every topic a frame of s asks for is one the bus believes it has told, or a
\* later frame of s takes it back.
Settled(s, told) ==
    \A i \in 1..Len(s) : s[i].t = "sub" =>
      \A t \in s[i].topics :
        t \in told \/ \E j \in 1..Len(s) : j > i /\ s[j].t = "unsub" /\ t \in s[j].topics

\* The bus's memory is what is wanted, or empty with nothing written; on an open
\* connection what the server holds follows it, once the frames are handled.
Reconciled ==
    /\ sent = Held(holders) \/ (sent = {} /\ outbox = <<>>)
    /\ ws = "open" => sent = Held(holders) /\ outbox = <<>>
    /\ Settled(outbox, sent)
    /\ ws = "open" => Settled(up, sent)
    /\ ws = "open" => \A t \in subscribed : t \in sent \/ WillDrop(up, t)

\* The open task is the first of its connection and finds it empty.
OpenFirst ==
    /\ \A i \in 1..Len(outbox) : outbox[i].t # "open"
    /\ \A i \in 1..Len(up) : up[i].t = "open" =>
         i = 1 /\ subscribed = {} /\ live = {} /\ runs = {}

\* A topic has at most one run that can still promote it, and only while it is
\* not on the fan-out and nothing was sent on it.
Promotable == {r \in runs : ~r.abandoned /\ r.current}
OneRun ==
    /\ live \subseteq subscribed
    /\ \A r \in Promotable : r.topic \notin live /\ last[r.topic] = 0
    /\ \A r, x \in Promotable : r.topic = x.topic => r = x

\* What a run would show is the newest state, unless it has nothing to show.
FreshRuns ==
    \A r \in runs : ~r.abandoned =>
      /\ r.buf # 0 => r.buf = version[r.topic]
      /\ r.buf = 0 /\ r.snap \notin {0, Unread} => r.snap = version[r.topic]

\* Frames that wait are as many as their bound lets them be, and no topic has
\* shown more payloads than were emitted.
Bounded ==
    /\ Len(outbox) <= MaxFrames + 1
    /\ \A t \in Topics : version[t] <= emits + 1

(***************************************************************************)
(* The inductive invariant.  That no stray topic is held needs what the    *)
(* frames under way will still do; that nothing is missed needs that only  *)
(* one run can promote a topic, which is why drop() abandons the others.   *)
(***************************************************************************)
IInv ==
    /\ TypeOK /\ Bounded /\ Reconciled /\ OpenFirst /\ OneRun /\ FreshRuns
    /\ HeldIsAllowed /\ NothingMissed

-----------------------------------------------------------------------------
(* Frames *)

\* A sync writes at most one frame each way, for what the two sides differ in.
LEMMA SyncWrites ==
    ASSUME NEW h, NEW told \in SUBSET Topics
    PROVE  LET s == SyncFrames(h, told)
           IN  /\ s \in Seq(Frame) /\ Len(s) \in 0..2
               /\ \A i \in 1..Len(s) :
                    /\ s[i].t # "open"
                    /\ s[i].t = "sub" => s[i].topics \subseteq Held(h)
               /\ \A t \in told \ Held(h) : WillDrop(s, t)
               /\ told = Held(h) => s = <<>>
<1> DEFINE add == Held(h) \ told
           remove == told \ Held(h)
           subs == [t |-> "sub", topics |-> add]
           unsubs == [t |-> "unsub", topics |-> remove]
           s == SyncFrames(h, told)
<1>1. subs \in Frame /\ unsubs \in Frame
    BY DEF Frame, Held
<1>2. /\ subs.t = "sub" /\ subs.topics = add /\ unsubs.t = "unsub" /\ unsubs.topics = remove
      /\ add \subseteq Held(h)
    OBVIOUS
<1>3. \/ add = {} /\ remove = {} /\ s = <<>>
      \/ add # {} /\ remove = {} /\ s = <<subs>>
      \/ add = {} /\ remove # {} /\ s = <<unsubs>>
      \/ add # {} /\ remove # {} /\ s = <<subs, unsubs>>
    <2>1. /\ <<>> \o <<>> = <<>> /\ <<subs>> \o <<>> = <<subs>> /\ <<>> \o <<unsubs>> = <<unsubs>>
          /\ <<subs>> \o <<unsubs>> = <<subs, unsubs>>
        <3> HIDE DEF subs, unsubs
        <3>1. \A a \in Seq(Frame) : <<>> \o a = a /\ a \o <<>> = a
            OBVIOUS
        <3>2. ASSUME NEW x \in Frame, NEW y \in Frame PROVE <<x>> \o <<y>> = <<x, y>>
            <4>1. /\ <<x>> \o <<y>> \in Seq(Frame) /\ Len(<<x>> \o <<y>>) = 2
                  /\ (<<x>> \o <<y>>)[1] = x /\ (<<x>> \o <<y>>)[2] = y
                OBVIOUS
            <4>2. \A v \in Seq(Frame) : Len(v) = 2 => v = <<v[1], v[2]>>
                OBVIOUS
            <4> QED
                BY <4>1, <4>2
        <3>3. <<>> \in Seq(Frame) /\ <<subs>> \in Seq(Frame) /\ <<unsubs>> \in Seq(Frame)
            BY <1>1
        <3> QED
            BY <1>1, <3>1, <3>2, <3>3
    <2>2. s = (IF add = {} THEN <<>> ELSE <<subs>>) \o (IF remove = {} THEN <<>> ELSE <<unsubs>>)
        BY DEF SyncFrames
    <2> HIDE DEF subs, unsubs, s, add, remove
    <2> QED
        BY <2>1, <2>2
<1>4. told = Held(h) => add = {} /\ remove = {}
    OBVIOUS
<1> HIDE DEF subs, unsubs, s, add
<1>5. s \in Seq(Frame) /\ Len(s) \in 0..2
    <2>1. /\ <<>> \in Seq(Frame) /\ <<subs>> \in Seq(Frame) /\ <<unsubs>> \in Seq(Frame)
          /\ <<subs, unsubs>> \in Seq(Frame)
        BY <1>1
    <2>2. /\ Len(<<>>) = 0 /\ Len(<<subs>>) = 1 /\ Len(<<unsubs>>) = 1 /\ Len(<<subs, unsubs>>) = 2
        OBVIOUS
    <2>3. s \in Seq(Frame)
        BY <1>3, <2>1
    <2>4. Len(s) = 0 \/ Len(s) = 1 \/ Len(s) = 2
        BY <1>3, <2>2
    <2> QED
        BY <2>3, <2>4
<1>6. \A i \in 1..Len(s) : s[i] = subs \/ s[i] = unsubs
    BY <1>3
<1>7. remove # {} => \E i \in 1..Len(s) : s[i] = unsubs
    <2>1. s = <<unsubs>> => 1 \in 1..Len(s) /\ s[1] = unsubs
        OBVIOUS
    <2>2. s = <<subs, unsubs>> => 2 \in 1..Len(s) /\ s[2] = unsubs
        OBVIOUS
    <2> QED
        BY <1>3, <2>1, <2>2
<1>8. \A t \in remove : WillDrop(s, t)
    BY <1>2, <1>7 DEF WillDrop
<1>9. told = Held(h) => s = <<>>
    BY <1>3, <1>4
<1>10. \A i \in 1..Len(s) : s[i].t # "open" /\ (s[i].t = "sub" => s[i].topics \subseteq Held(h))
    BY <1>2, <1>6
<1> QED
    BY <1>5, <1>8, <1>9, <1>10 DEF s

\* A frame of two lists joined is a frame of one of them.
LEMMA Joined ==
    ASSUME NEW s \in Seq(Frame), NEW u \in Seq(Frame), NEW i \in 1..Len(s \o u)
    PROVE  \/ i \in 1..Len(s) /\ (s \o u)[i] = s[i]
           \/ i - Len(s) \in 1..Len(u) /\ (s \o u)[i] = u[i - Len(s)]
<1>1. /\ Len(s \o u) = Len(s) + Len(u) /\ Len(s) \in Nat /\ Len(u) \in Nat
      /\ \A k \in 1..Len(s) : (s \o u)[k] = s[k]
      /\ \A k \in 1..Len(u) : (s \o u)[Len(s) + k] = u[k]
    OBVIOUS
<1>2. CASE ~(i \in 1..Len(s))
    <2>1. i - Len(s) \in 1..Len(u) /\ Len(s) + (i - Len(s)) = i
        BY <1>1, <1>2
    <2> QED
        BY <1>1, <2>1
<1> QED
    BY <1>1, <1>2

\* Once a sync is written, what was asked for is wanted or taken back.
LEMMA SyncSettles ==
    ASSUME NEW s \in Seq(Frame), NEW u \in Seq(Frame), NEW told, NEW held,
           Settled(s, told),
           \A i \in 1..Len(u) : u[i].t = "sub" => u[i].topics \subseteq held,
           \A t \in told \ held : WillDrop(u, t)
    PROVE  /\ Settled(s \o u, held)
           /\ \A t : t \in told \/ WillDrop(s, t) => t \in held \/ WillDrop(s \o u, t)
<1> DEFINE v == s \o u
<1>1. /\ v \in Seq(Frame) /\ Len(v) = Len(s) + Len(u) /\ Len(s) \in Nat /\ Len(u) \in Nat
      /\ \A i \in 1..Len(s) : v[i] = s[i]
      /\ \A i \in 1..Len(u) : v[Len(s) + i] = u[i]
    OBVIOUS
<1> HIDE DEF v
<1>2. ASSUME NEW t, WillDrop(u, t)
      PROVE  \E j \in 1..Len(v) : j > Len(s) /\ v[j].t = "unsub" /\ t \in v[j].topics
    <2>1. PICK k \in 1..Len(u) : u[k].t = "unsub" /\ t \in u[k].topics
        BY <1>2 DEF WillDrop
    <2>2. Len(s) + k \in 1..Len(v) /\ Len(s) + k > Len(s) /\ v[Len(s) + k] = u[k]
        BY <1>1
    <2> QED
        BY <2>1, <2>2
<1>3. ASSUME NEW i \in 1..Len(v), v[i].t = "sub", NEW t \in v[i].topics, t \notin held
      PROVE  \E j \in 1..Len(v) : j > i /\ v[j].t = "unsub" /\ t \in v[j].topics
    <2>1. CASE i \in 1..Len(s)
        <3>1. s[i] = v[i]
            BY <1>1, <2>1
        <3>2. CASE t \in told
            <4>1. PICK j \in 1..Len(v) : j > Len(s) /\ v[j].t = "unsub" /\ t \in v[j].topics
                BY <1>2, <1>3, <3>2
            <4>2. j > i
                BY <1>1, <2>1, <4>1
            <4> QED
                BY <4>1, <4>2
        <3>3. CASE t \notin told
            <4>1. PICK j \in 1..Len(s) : j > i /\ s[j].t = "unsub" /\ t \in s[j].topics
                BY <1>3, <2>1, <3>1, <3>3 DEF Settled
            <4>2. j \in 1..Len(v) /\ v[j] = s[j]
                BY <1>1
            <4> QED
                BY <4>1, <4>2
        <3> QED
            BY <3>2, <3>3
    <2>2. CASE ~(i \in 1..Len(s))
        <3>1. i - Len(s) \in 1..Len(u) /\ v[i] = u[i - Len(s)]
            BY <2>2, Joined DEF v
        <3> QED
            BY <1>3, <3>1
    <2> QED
        BY <2>1, <2>2
<1>4. Settled(v, held)
    BY <1>3 DEF Settled
<1>5. ASSUME NEW t, t \in told \/ WillDrop(s, t), t \notin held PROVE WillDrop(v, t)
    <2>1. CASE t \in told
        BY <1>2, <1>5, <2>1 DEF WillDrop
    <2>2. CASE WillDrop(s, t)
        <3>1. PICK j \in 1..Len(s) : s[j].t = "unsub" /\ t \in s[j].topics
            BY <2>2 DEF WillDrop
        <3>2. j \in 1..Len(v) /\ v[j] = s[j]
            BY <1>1
        <3> QED
            BY <3>1, <3>2 DEF WillDrop
    <2> QED
        BY <1>5, <2>1, <2>2
<1> QED
    BY <1>4, <1>5 DEF v

\* A frame in front that asks for nothing changes nothing.
LEMMA OpenInFront ==
    ASSUME NEW s \in Seq(Frame), NEW told, Settled(s, told), NEW f \in Frame, f.t = "open"
    PROVE  Settled(<<f>> \o s, told)
<1> DEFINE v == <<f>> \o s
<1>1. /\ Len(v) = Len(s) + 1 /\ Len(s) \in Nat /\ v[1] = f
      /\ \A i \in 1..Len(s) : v[1 + i] = s[i]
    OBVIOUS
<1> HIDE DEF v
<1> SUFFICES ASSUME NEW i \in 1..Len(v), v[i].t = "sub", NEW t \in v[i].topics, t \notin told
             PROVE  \E j \in 1..Len(v) : j > i /\ v[j].t = "unsub" /\ t \in v[j].topics
    BY DEF Settled, v
<1>2. i # 1
    BY <1>1
<1>3. i - 1 \in 1..Len(s) /\ v[1 + (i - 1)] = s[i - 1] /\ 1 + (i - 1) = i
    BY <1>1, <1>2
<1>4. PICK j \in 1..Len(s) : j > i - 1 /\ s[j].t = "unsub" /\ t \in s[j].topics
    BY <1>3 DEF Settled
<1>5. 1 + j \in 1..Len(v) /\ 1 + j > i /\ v[1 + j] = s[j]
    BY <1>1, <1>4
<1> QED
    BY <1>4, <1>5

\* The server takes the first frame.
LEMMA FirstGoes ==
    ASSUME NEW s \in Seq(Frame), s # <<>>
    PROVE  /\ Tail(s) \in Seq(Frame) /\ Len(Tail(s)) = Len(s) - 1
           /\ Head(s) \in Frame /\ Head(s) = s[1] /\ 1 \in 1..Len(s)
           /\ \A i \in 1..Len(Tail(s)) : Tail(s)[i] = s[i + 1] /\ i + 1 \in 1..Len(s)
           /\ \A told : Settled(s, told) =>
                /\ Settled(Tail(s), told)
                /\ Head(s).t = "sub" =>
                     \A t \in Head(s).topics : t \in told \/ WillDrop(Tail(s), t)
           /\ \A t : WillDrop(s, t) => \/ WillDrop(Tail(s), t)
                                       \/ Head(s).t = "unsub" /\ t \in Head(s).topics
<1> DEFINE v == Tail(s)
<1>1. /\ v \in Seq(Frame) /\ Len(v) = Len(s) - 1 /\ Len(s) \in Nat /\ Len(s) >= 1
      /\ Head(s) = s[1] /\ Head(s) \in Frame
      /\ \A i \in 1..Len(v) : v[i] = s[i + 1]
    OBVIOUS
<1> HIDE DEF v
<1>2. ASSUME NEW j \in 1..Len(s), j > 1 PROVE j - 1 \in 1..Len(v) /\ v[j - 1] = s[j]
    <2>1. j - 1 \in 1..Len(v) /\ (j - 1) + 1 = j
        BY <1>1, <1>2
    <2> QED
        BY <1>1, <2>1
<1>3. ASSUME NEW t, WillDrop(s, t), ~(Head(s).t = "unsub" /\ t \in Head(s).topics)
      PROVE  WillDrop(v, t)
    <2>1. PICK j \in 1..Len(s) : s[j].t = "unsub" /\ t \in s[j].topics
        BY <1>3 DEF WillDrop
    <2>2. j > 1
        BY <1>1, <1>3, <2>1
    <2> QED
        BY <1>2, <2>1, <2>2 DEF WillDrop
<1>4. ASSUME NEW told, Settled(s, told) PROVE Settled(v, told)
    <2> SUFFICES ASSUME NEW i \in 1..Len(v), v[i].t = "sub", NEW t \in v[i].topics, t \notin told
                 PROVE  \E j \in 1..Len(v) : j > i /\ v[j].t = "unsub" /\ t \in v[j].topics
        BY DEF Settled
    <2>1. i + 1 \in 1..Len(s) /\ s[i + 1] = v[i]
        BY <1>1
    <2>2. PICK j \in 1..Len(s) : j > i + 1 /\ s[j].t = "unsub" /\ t \in s[j].topics
        BY <1>4, <2>1 DEF Settled
    <2>3. j > 1 /\ j - 1 > i
        BY <1>1, <2>2
    <2> QED
        BY <1>2, <2>2, <2>3
<1>5. ASSUME NEW told, Settled(s, told), Head(s).t = "sub", NEW t \in Head(s).topics, t \notin told
      PROVE  WillDrop(v, t)
    <2>1. 1 \in 1..Len(s) /\ s[1].t = "sub" /\ t \in s[1].topics
        BY <1>1, <1>5
    <2>2. PICK j \in 1..Len(s) : j > 1 /\ s[j].t = "unsub" /\ t \in s[j].topics
        BY <1>5, <2>1 DEF Settled
    <2> QED
        BY <1>2, <2>2 DEF WillDrop
<1>6. 1 \in 1..Len(s) /\ \A i \in 1..Len(v) : i + 1 \in 1..Len(s)
    BY <1>1
<1> QED
    BY <1>1, <1>3, <1>4, <1>5, <1>6 DEF v

-----------------------------------------------------------------------------
(* The browser *)

\* What a step that leaves the server and the feeds alone keeps.
LEMMA ServerSame ==
    ASSUME IInv, UNCHANGED <<subscribed, live, runs, last, granted, version, emits>>
    PROVE  /\ OneRun' /\ FreshRuns' /\ HeldIsAllowed' /\ NothingMissed'
           /\ \A t \in Topics : version'[t] <= emits' + 1
<1>1. OneRun' /\ FreshRuns'
    BY DEF IInv, OneRun, Promotable, FreshRuns
<1>2. HeldIsAllowed' /\ NothingMissed'
    BY DEF IInv, HeldIsAllowed, NothingMissed
<1> QED
    BY <1>1, <1>2 DEF IInv, Bounded

\* The handlers change and the difference is written.
LEMMA ResubscribeKeeps ==
    ASSUME IInv, NEW h \in [Topics -> 0..MaxHolders], Resubscribe(h)
    PROVE  IInv'
<1> DEFINE s == SyncFrames(h, sent)
<1>0. TypeOK /\ Bounded /\ Reconciled /\ OpenFirst
    BY DEF IInv
<1>1. /\ Len(outbox) + Len(up) < MaxFrames /\ holders' = h /\ sent' = Held(h)
      /\ IF ws = "open" THEN up' = up \o s /\ outbox' = outbox ELSE outbox' = outbox \o s /\ up' = up
      /\ UNCHANGED <<leased, ws, timer, linked, srv, gate, subscribed, live, runs, last, granted, deaf,
                     access, version, emits, mishaps>>
    BY DEF Resubscribe, serverVars, connVars, feedVars
<1>2. /\ outbox \in Seq(Frame) /\ up \in Seq(Frame) /\ sent \in SUBSET Topics
      /\ Len(outbox) \in Nat /\ Len(up) \in Nat /\ MaxFrames \in Nat /\ Held(h) \subseteq Topics
    BY <1>0, TopicsAssumption DEF TypeOK, Held
<1>3. /\ s \in Seq(Frame) /\ Len(s) \in 0..2
      /\ \A i \in 1..Len(s) : s[i].t # "open" /\ (s[i].t = "sub" => s[i].topics \subseteq Held(h))
      /\ \A t \in sent \ Held(h) : WillDrop(s, t)
    BY <1>2, SyncWrites
<1> HIDE DEF s
<1>4. OneRun' /\ FreshRuns' /\ HeldIsAllowed' /\ NothingMissed' /\ \A t \in Topics : version'[t] <= emits' + 1
    BY <1>1, ServerSame
<1>5. Held(holders)' = Held(h)
    BY <1>1
<1>6. CASE ws = "open"
    <2>1. up' = up \o s /\ outbox' = outbox
        BY <1>1, <1>6
    <2>2. up' \in Seq(Frame) /\ Len(up') = Len(up) + Len(s)
        BY <1>2, <1>3, <2>1
    <2>3. Settled(up', Held(h)) /\ \A t : t \in sent \/ WillDrop(up, t) => t \in Held(h) \/ WillDrop(up', t)
        BY <1>0, <1>2, <1>3, <1>6, <2>1, SyncSettles DEF Reconciled
    <2>4. outbox' = <<>>
        BY <1>0, <1>6, <2>1 DEF Reconciled
    <2>5. Settled(outbox', sent')
        BY <2>4 DEF Settled
    <2>6. Reconciled'
        BY <1>0, <1>1, <1>5, <1>6, <2>3, <2>4, <2>5 DEF Reconciled
    <2>7. TypeOK' /\ Bounded'
        <3>1. Len(outbox') + Len(up') <= MaxFrames + 3 /\ Len(outbox') <= MaxFrames + 1
            <4>1. Len(outbox) + Len(up) < MaxFrames
                BY <1>1
            <4>2. Len(s) \in 0..2
                BY <1>3
            <4>3. Len(outbox') = Len(outbox) /\ Len(up') = Len(up) + Len(s)
                BY <2>1, <2>2
            <4>4. \A a, b, m \in Nat : \A l \in 0..2 : a + b < m =>
                    /\ a + (b + l) <= m + 3 /\ (a + l) + b <= m + 3
                    /\ a <= m + 1 /\ a + l <= m + 1
                OBVIOUS
            <4>5. Len(outbox) \in Nat /\ Len(up) \in Nat /\ MaxFrames \in Nat
                BY <1>2
            <4> QED
                BY <4>1, <4>2, <4>3, <4>4, <4>5
        <3> QED
            BY <1>0, <1>1, <1>2, <1>4, <2>1, <2>2, <3>1 DEF TypeOK, Bounded
    <2>8. OpenFirst'
        <3>1. \A i \in 1..Len(up') : \/ i \in 1..Len(up) /\ up'[i] = up[i]
                                     \/ i - Len(up) \in 1..Len(s) /\ up'[i] = s[i - Len(up)]
            BY <1>2, <1>3, <2>1, Joined
        <3>2. \A i \in 1..Len(up') : up'[i].t = "open" => i \in 1..Len(up) /\ up[i].t = "open"
            BY <1>3, <3>1
        <3> QED
            BY <1>0, <1>1, <2>4, <3>2 DEF OpenFirst
    <2> QED
        BY <1>4, <2>6, <2>7, <2>8 DEF IInv
<1>7. CASE ws # "open"
    <2>1. outbox' = outbox \o s /\ up' = up
        BY <1>1, <1>7
    <2>2. outbox' \in Seq(Frame) /\ Len(outbox') = Len(outbox) + Len(s)
        BY <1>2, <1>3, <2>1
    <2>3. Settled(outbox', Held(h))
        BY <1>0, <1>2, <1>3, <2>1, SyncSettles DEF Reconciled
    <2>4. Reconciled'
        BY <1>1, <1>5, <1>7, <2>3 DEF Reconciled
    <2>5. TypeOK' /\ Bounded'
        <3>1. Len(outbox') + Len(up') <= MaxFrames + 3 /\ Len(outbox') <= MaxFrames + 1
            <4>1. Len(outbox) + Len(up) < MaxFrames
                BY <1>1
            <4>2. Len(s) \in 0..2
                BY <1>3
            <4>3. Len(outbox') = Len(outbox) + Len(s) /\ Len(up') = Len(up)
                BY <2>1, <2>2
            <4>4. \A a, b, m \in Nat : \A l \in 0..2 : a + b < m =>
                    /\ a + (b + l) <= m + 3 /\ (a + l) + b <= m + 3
                    /\ a <= m + 1 /\ a + l <= m + 1
                OBVIOUS
            <4>5. Len(outbox) \in Nat /\ Len(up) \in Nat /\ MaxFrames \in Nat
                BY <1>2
            <4> QED
                BY <4>1, <4>2, <4>3, <4>4, <4>5
        <3> QED
            BY <1>0, <1>1, <1>2, <1>4, <2>1, <2>2, <3>1 DEF TypeOK, Bounded
    <2>6. OpenFirst'
        <3>1. \A i \in 1..Len(outbox') : \/ i \in 1..Len(outbox) /\ outbox'[i] = outbox[i]
                                         \/ i - Len(outbox) \in 1..Len(s) /\ outbox'[i] = s[i - Len(outbox)]
            BY <1>2, <1>3, <2>1, Joined
        <3> QED
            BY <1>0, <1>1, <1>3, <2>1, <3>1 DEF OpenFirst
    <2> QED
        BY <1>4, <2>4, <2>5, <2>6 DEF IInv
<1> QED
    BY <1>6, <1>7

\* subscribe() and its disposer.
LEMMA SubscribeKeeps ==
    ASSUME IInv, NEW t \in Topics, Subscribe(t) \/ Dispose(t)
    PROVE  IInv'
<1>1. holders \in [Topics -> 0..MaxHolders] /\ holders[t] \in 0..MaxHolders /\ MaxHolders \in Nat
    BY TopicsAssumption DEF IInv, TypeOK
<1>2. CASE Subscribe(t)
    <2>1. holders[t] + 1 \in 0..MaxHolders
        BY <1>1, <1>2 DEF Subscribe
    <2>2. [holders EXCEPT ![t] = @ + 1] \in [Topics -> 0..MaxHolders]
        BY <1>1, <2>1
    <2> QED
        BY <1>2, <2>2, ResubscribeKeeps DEF Subscribe
<1>3. CASE Dispose(t)
    <2>1. holders[t] - 1 \in 0..MaxHolders
        BY <1>1, <1>3 DEF Dispose
    <2>2. [holders EXCEPT ![t] = @ - 1] \in [Topics -> 0..MaxHolders]
        BY <1>1, <2>1
    <2> QED
        BY <1>3, <2>2, ResubscribeKeeps DEF Dispose
<1> QED
    BY <1>2, <1>3

\* A socket is dialled, for the first lease or by the reconnect timer.
LEMMA DialKeeps ==
    ASSUME IInv, Lease \/ Reconnect
    PROVE  IInv'
<1>1. /\ ws' = "opening" /\ leased' \in BOOLEAN /\ timer' \in BOOLEAN
      /\ UNCHANGED <<holders, sent, outbox, up, linked, srv, gate, subscribed, live, runs, last, granted,
                     deaf, access, version, emits, mishaps>>
    BY DEF IInv, TypeOK, Lease, Reconnect, serverVars, connVars, feedVars
<1>2. OneRun' /\ FreshRuns' /\ HeldIsAllowed' /\ NothingMissed' /\ \A t \in Topics : version'[t] <= emits' + 1
    BY <1>1, ServerSame
<1>3. TypeOK' /\ Bounded'
    BY <1>1, <1>2 DEF IInv, TypeOK, Bounded
<1>4. Reconciled' /\ OpenFirst'
    BY <1>1 DEF IInv, Reconciled, OpenFirst, Held, Settled
<1> QED
    BY <1>2, <1>3, <1>4 DEF IInv

\* The browser's side of a connection ends.
LEMMA ForgetKeeps ==
    ASSUME IInv, Unlease \/ SocketCloses
    PROVE  IInv'
<1>0. TypeOK /\ OpenFirst
    BY DEF IInv
<1>1. /\ ws' = "none" /\ outbox' = <<>> /\ sent' = {} /\ linked' = FALSE /\ deaf' = {}
      /\ leased' \in BOOLEAN /\ timer' \in BOOLEAN
      /\ UNCHANGED <<holders, up, srv, gate, subscribed, live, runs, last, granted, access, version, emits>>
    BY <1>0 DEF TypeOK, Unlease, SocketCloses, ForgetConnection, connVars, feedVars
<1>2. OneRun' /\ FreshRuns' /\ HeldIsAllowed' /\ NothingMissed' /\ \A t \in Topics : version'[t] <= emits' + 1
    BY <1>1, ServerSame
<1>3. /\ Len(outbox') = 0 /\ outbox' \in Seq(Frame) /\ Len(up) \in Nat /\ Len(outbox) \in Nat
      /\ MaxFrames \in Nat
    BY <1>0, <1>1, TopicsAssumption DEF TypeOK
<1>4. Len(outbox') + Len(up') <= MaxFrames + 3 /\ Len(outbox') <= MaxFrames + 1
    BY <1>0, <1>1, <1>3 DEF TypeOK
<1>5. TypeOK' /\ Bounded'
    BY <1>0, <1>1, <1>2, <1>3, <1>4 DEF TypeOK, Bounded
<1>6. Reconciled'
    BY <1>1, <1>3 DEF Reconciled, Settled
<1>7. OpenFirst'
    BY <1>0, <1>1, <1>3 DEF OpenFirst
<1> QED
    BY <1>2, <1>5, <1>6, <1>7 DEF IInv

\* A fresh connection: what was written before the handshake, then a sync.
LEMMA SocketOpensKeeps ==
    ASSUME IInv, SocketOpens
    PROVE  IInv'
<1> DEFINE f == [t |-> "open", topics |-> {}]
           q == <<f>> \o outbox
           s == SyncFrames(holders, sent)
<1>0. TypeOK /\ Bounded /\ Reconciled /\ OpenFirst
    BY DEF IInv
<1>1. /\ ws' = "open" /\ linked' = TRUE /\ srv' = TRUE /\ gate' = "asking"
      /\ subscribed' = {} /\ live' = {} /\ runs' = {} /\ deaf' = {}
      /\ last' = [t \in Topics |-> 0] /\ granted' = "none"
      /\ up' = q \o s /\ outbox' = <<>> /\ sent' = Held(holders)
      /\ UNCHANGED <<leased, holders, timer, access, version, emits, mishaps>>
    BY DEF SocketOpens, feedVars
<1>2. outbox \in Seq(Frame) /\ sent \in SUBSET Topics /\ Held(holders) \subseteq Topics
    BY <1>0 DEF TypeOK, Held
<1>3. f \in Frame /\ f.t = "open"
    BY DEF Frame
<1> HIDE DEF f
<1>4. /\ q \in Seq(Frame) /\ Len(q) = Len(outbox) + 1 /\ q[1] = f
      /\ \A i \in 1..Len(outbox) : q[1 + i] = outbox[i]
    BY <1>2, <1>3
<1>5. Settled(q, sent)
    BY <1>0, <1>2, <1>3, OpenInFront DEF Reconciled
<1> HIDE DEF q
<1>6. /\ s \in Seq(Frame) /\ Len(s) \in 0..2
      /\ \A i \in 1..Len(s) : s[i].t # "open" /\ (s[i].t = "sub" => s[i].topics \subseteq Held(holders))
      /\ \A t \in sent \ Held(holders) : WillDrop(s, t)
      /\ sent = Held(holders) => s = <<>>
    BY <1>2, SyncWrites
<1> HIDE DEF s
<1>7. Settled(up', Held(holders))
    BY <1>1, <1>4, <1>5, <1>6, SyncSettles
<1>8. up' \in Seq(Frame) /\ Len(up') = Len(q) + Len(s) /\ outbox' \in Seq(Frame) /\ Len(outbox') = 0
    BY <1>1, <1>4, <1>6
<1>9. Len(outbox') + Len(up') <= MaxFrames + 3 /\ Len(outbox') <= MaxFrames + 1
    <2>1. Len(outbox) \in Nat /\ Len(outbox) <= MaxFrames + 1 /\ MaxFrames \in Nat /\ Len(s) \in 0..2
        BY <1>0, <1>2, <1>6, TopicsAssumption DEF Bounded
    <2>2. Len(s) = 0 \/ Len(outbox) = 0
        <3>1. s = <<>> \/ outbox = <<>>
            BY <1>0, <1>6 DEF Reconciled
        <3>2. \A x : x = <<>> => Len(x) = 0
            OBVIOUS
        <3> QED
            BY <3>1, <3>2
    <2>3. Len(outbox') = 0 /\ Len(up') = Len(outbox) + 1 + Len(s)
        BY <1>4, <1>8
    <2>4. \A a, m \in Nat : \A l \in 0..2 : a <= m + 1 /\ (l = 0 \/ a = 0) =>
            0 + (a + 1 + l) <= m + 3 /\ 0 <= m + 1
        OBVIOUS
    <2> QED
        BY <2>1, <2>2, <2>3, <2>4
<1>10. TypeOK'
    <2>1. Newest \in Nat
        BY TopicsAssumption DEF Newest
    <2>2. last' \in [Topics -> 0..Newest]
        BY <1>1, <2>1
    <2> QED
        BY <1>0, <1>1, <1>2, <1>8, <1>9, <2>2 DEF TypeOK, Levels
<1>11. Bounded'
    BY <1>0, <1>1, <1>9 DEF Bounded
<1>12. Reconciled'
    <2>1. Held(holders)' = Held(holders) /\ sent' = Held(holders)
        BY <1>1
    <2>2. Settled(outbox', sent')
        BY <1>8 DEF Settled
    <2> QED
        BY <1>1, <1>7, <2>1, <2>2 DEF Reconciled
<1>13. OpenFirst'
    <2>1. \A i \in 1..Len(outbox') : outbox'[i].t # "open"
        BY <1>8
    <2>2. ASSUME NEW i \in 1..Len(up'), up'[i].t = "open" PROVE i = 1
        <3>1. i \in 1..Len(q) /\ up'[i] = q[i]
            BY <1>1, <1>4, <1>6, <2>2, Joined
        <3>2. ASSUME i # 1 PROVE FALSE
            <4>1. i - 1 \in 1..Len(outbox) /\ 1 + (i - 1) = i
                BY <1>2, <1>4, <3>1, <3>2
            <4>2. q[i] = outbox[i - 1]
                BY <1>4, <4>1
            <4> QED
                BY <1>0, <2>2, <3>1, <4>1, <4>2 DEF OpenFirst
        <3> QED
            BY <3>2
    <2> QED
        BY <1>1, <2>1, <2>2 DEF OpenFirst
<1>14. OneRun' /\ FreshRuns' /\ HeldIsAllowed' /\ NothingMissed'
    BY <1>1 DEF OneRun, Promotable, FreshRuns, HeldIsAllowed, NothingMissed
<1> QED
    BY <1>10, <1>11, <1>12, <1>13, <1>14 DEF IInv

-----------------------------------------------------------------------------
(* The server *)

\* A connection that is closed holds nothing.
LEMMA CloseKeeps ==
    ASSUME IInv, CloseConnection, UNCHANGED <<clientVars, linked, feedVars, mishaps>>
    PROVE  IInv'
<1>0. TypeOK /\ Bounded /\ Reconciled /\ OpenFirst
    BY DEF IInv
<1>1. /\ srv' = FALSE /\ subscribed' = {} /\ live' = {} /\ runs' = {} /\ up' = <<>> /\ gate' = "asking"
      /\ last' = [t \in Topics |-> 0] /\ granted' = "none" /\ deaf' = {}
      /\ UNCHANGED <<leased, holders, sent, outbox, ws, timer, linked, access, version, emits, mishaps>>
    BY DEF CloseConnection, clientVars, feedVars
<1>2. Newest \in Nat /\ MaxFrames \in Nat /\ last' \in [Topics -> 0..Newest]
    BY <1>1, TopicsAssumption DEF Newest
<1>3. /\ up' \in Seq(Frame) /\ Len(up') = 0 /\ Len(outbox) \in Nat /\ Len(up) \in Nat
      /\ outbox' = outbox /\ outbox \in Seq(Frame)
    BY <1>0, <1>1 DEF TypeOK
<1>4. Len(outbox') + Len(up') <= MaxFrames + 3
    <2>1. Len(outbox) <= MaxFrames + 1
        BY <1>0 DEF Bounded
    <2> QED
        BY <1>2, <1>3, <2>1
<1>5. TypeOK'
    BY <1>0, <1>1, <1>2, <1>3, <1>4 DEF TypeOK, Levels
<1>6. Bounded'
    BY <1>0, <1>1 DEF Bounded
<1>7. Reconciled'
    <2>1. Settled(up', sent')
        BY <1>3 DEF Settled
    <2>2. Held(holders)' = Held(holders) /\ (Settled(outbox, sent) => Settled(outbox', sent'))
        BY <1>1
    <2> QED
        BY <1>0, <1>1, <2>1, <2>2 DEF Reconciled
<1>8. OpenFirst'
    BY <1>0, <1>1, <1>3 DEF OpenFirst
<1>9. OneRun' /\ FreshRuns' /\ HeldIsAllowed' /\ NothingMissed'
    BY <1>1 DEF OneRun, Promotable, FreshRuns, HeldIsAllowed, NothingMissed
<1> QED
    BY <1>5, <1>6, <1>7, <1>8, <1>9 DEF IInv

\* The server takes a frame: the topics it holds afterwards are some it held
\* already, less those an `unsub` names, and some a `sub` names.
LEMMA FrameTaken ==
    ASSUME IInv, up # <<>>, up' = Tail(up), UNCHANGED <<clientVars, feedVars>>,
           \A t \in subscribed' : t \in subscribed \/ (Head(up).t = "sub" /\ t \in Head(up).topics),
           Head(up).t = "unsub" => \A t \in subscribed' : t \notin Head(up).topics
    PROVE  /\ Bounded' /\ Reconciled' /\ OpenFirst'
           /\ up' \in Seq(Frame) /\ Len(outbox') + Len(up') <= MaxFrames + 3
<1>0. TypeOK /\ Bounded /\ Reconciled /\ OpenFirst
    BY DEF IInv
<1>1. UNCHANGED <<leased, holders, sent, outbox, ws, timer, access, version, emits>> /\ up \in Seq(Frame)
    BY <1>0 DEF clientVars, feedVars, TypeOK
<1>2. /\ Tail(up) \in Seq(Frame) /\ Len(Tail(up)) = Len(up) - 1
      /\ \A i \in 1..Len(Tail(up)) : Tail(up)[i] = up[i + 1] /\ i + 1 \in 1..Len(up)
      /\ Settled(up, sent) =>
           /\ Settled(Tail(up), sent)
           /\ Head(up).t = "sub" => \A t \in Head(up).topics : t \in sent \/ WillDrop(Tail(up), t)
      /\ \A t : WillDrop(up, t) => \/ WillDrop(Tail(up), t)
                                   \/ Head(up).t = "unsub" /\ t \in Head(up).topics
    BY <1>1, FirstGoes
<1>3. Bounded'
    BY <1>0, <1>1 DEF Bounded
<1>4. Reconciled'
    <2>1. Held(holders)' = Held(holders) /\ (Settled(outbox, sent) => Settled(outbox', sent'))
        BY <1>1
    <2>2. ws = "open" => Settled(up', sent')
        BY <1>0, <1>1, <1>2 DEF Reconciled
    <2>3. ASSUME ws = "open", NEW t \in subscribed' PROVE t \in sent' \/ WillDrop(up', t)
        <3>1. sent' = sent /\ up' = Tail(up) /\ Settled(up, sent)
            BY <1>0, <1>1, <2>3 DEF Reconciled
        <3>2. CASE t \in subscribed
            <4>1. t \in sent \/ WillDrop(up, t)
                BY <1>0, <2>3, <3>2 DEF Reconciled
            <4> QED
                BY <1>2, <3>1, <4>1
        <3> QED
            BY <1>2, <3>1, <3>2
    <2> QED
        BY <1>0, <1>1, <2>1, <2>2, <2>3 DEF Reconciled
<1>5. OpenFirst'
    <2>1. \A i \in 1..Len(outbox') : outbox'[i].t # "open"
        BY <1>0, <1>1 DEF OpenFirst
    <2>2. ASSUME NEW i \in 1..Len(up'), up'[i].t = "open" PROVE FALSE
        <3>1. i + 1 \in 1..Len(up) /\ up[i + 1].t = "open" /\ i + 1 # 1
            BY <1>2, <2>2
        <3> QED
            BY <1>0, <3>1 DEF OpenFirst
    <2> QED
        BY <2>1, <2>2 DEF OpenFirst
<1>6. Len(outbox') + Len(up') <= MaxFrames + 3
    <2>1. Len(outbox) \in Nat /\ Len(up) \in Nat /\ MaxFrames \in Nat /\ Len(outbox) + Len(up) <= MaxFrames + 3
        BY <1>0, TopicsAssumption DEF TypeOK
    <2>2. Len(outbox') = Len(outbox) /\ Len(up') = Len(up) - 1
        BY <1>1, <1>2
    <2> QED
        BY <2>1, <2>2
<1> QED
    BY <1>2, <1>3, <1>4, <1>5, <1>6

\* The bounds are numbers.
LEMMA Bounds ==
    /\ Newest \in Nat /\ Unread = Newest + 1 /\ MaxFrames \in Nat /\ MaxEmits \in Nat
    /\ Newest = MaxEmits + 1 /\ Unread \in 0..Unread /\ Unread # 0
    /\ \A n \in 0..Newest : n \in 0..Unread /\ n # Unread
    /\ \A n \in 1..Newest : n \in 0..Newest /\ n # 0
<1>1. MaxEmits \in Nat /\ MaxFrames \in Nat
    BY TopicsAssumption
<1> QED
    BY <1>1 DEF Newest, Unread

\* drop() abandons the runs of its topics and no other.
LEMMA AbandonEffect ==
    ASSUME TypeOK, NEW ts
    PROVE  /\ AbandonRuns(ts) \subseteq Run
           /\ \A x \in AbandonRuns(ts) : ~x.abandoned => x \in runs /\ x.topic \notin ts
<1> SUFFICES ASSUME NEW x \in AbandonRuns(ts)
             PROVE  x \in Run /\ (~x.abandoned => x \in runs /\ x.topic \notin ts)
    OBVIOUS
<1>1. PICK r \in runs :
        x = IF r.topic \in ts THEN [r EXCEPT !.abandoned = TRUE, !.buf = 0, !.snap = 0] ELSE r
    BY DEF AbandonRuns
<1>2. r \in Run /\ 0 \in 0..Newest /\ 0 \in 0..Unread
    BY Bounds DEF TypeOK
<1>3. CASE r.topic \in ts
    <2>1. x = [r EXCEPT !.abandoned = TRUE, !.buf = 0, !.snap = 0]
        BY <1>1, <1>3
    <2> QED
        BY <1>2, <2>1 DEF Run
<1>4. CASE r.topic \notin ts
    BY <1>1, <1>2, <1>4
<1> QED
    BY <1>3, <1>4

\* Steps that drop topics, with their runs.
LEMMA DropKeeps ==
    ASSUME IInv, NEW ts, runs' = AbandonRuns(ts), subscribed' = subscribed \ ts, live' = live \ ts,
           UNCHANGED <<last, granted, version>>
    PROVE  runs' \subseteq Run /\ OneRun' /\ FreshRuns' /\ HeldIsAllowed' /\ NothingMissed'
<1>0. TypeOK /\ OneRun /\ FreshRuns /\ HeldIsAllowed /\ NothingMissed
    BY DEF IInv
<1>1. runs' \subseteq Run /\ \A x \in runs' : ~x.abandoned => x \in runs /\ x.topic \notin ts
    BY <1>0, AbandonEffect
<1>2. \A x \in Promotable' : x \in Promotable
    BY <1>1 DEF Promotable
<1>3. OneRun'
    BY <1>0, <1>2 DEF OneRun
<1>4. FreshRuns'
    BY <1>0, <1>1 DEF FreshRuns
<1>5. HeldIsAllowed' /\ NothingMissed'
    BY <1>0 DEF HeldIsAllowed, NothingMissed
<1> QED
    BY <1>1, <1>3, <1>4, <1>5

\* The answer of the authorization comes.
LEMMA AuthorizeKeeps ==
    ASSUME IInv, Authorize
    PROVE  IInv'
<1>1. /\ gate' \in Levels \union {"asking", "failed"}
      /\ UNCHANGED <<leased, holders, sent, outbox, ws, timer, up, linked, srv, subscribed, live, runs, last,
                     granted, deaf, access, version, emits>>
    BY DEF IInv, TypeOK, Authorize, clientVars, feedVars
<1>2. OneRun' /\ FreshRuns' /\ HeldIsAllowed' /\ NothingMissed' /\ \A t \in Topics : version'[t] <= emits' + 1
    BY <1>1, ServerSame
<1>3. TypeOK' /\ Bounded'
    BY <1>1, <1>2 DEF IInv, TypeOK, Bounded
<1>4. Reconciled' /\ OpenFirst'
    BY <1>1 DEF IInv, Reconciled, OpenFirst, Held, Settled, WillDrop
<1> QED
    BY <1>2, <1>3, <1>4 DEF IInv

\* The open task.
LEMMA HandleOpenKeeps ==
    ASSUME IInv, HandleOpen
    PROVE  IInv'
<1>0. TypeOK /\ OpenFirst /\ OneRun /\ FreshRuns /\ HeldIsAllowed /\ NothingMissed
    BY DEF IInv
<1>1. up # <<>> /\ Head(up).t = "open" /\ UNCHANGED <<clientVars, linked, feedVars, mishaps>>
    BY DEF HandleOpen
<1>2. CASE gate \in {"failed", "none"}
    BY <1>1, <1>2, CloseKeeps DEF HandleOpen
<1>3. CASE gate \notin {"failed", "none"}
    <2>1. up' = Tail(up) /\ gate' = "asking" /\ granted' = gate /\ gate # "asking"
          /\ UNCHANGED <<srv, subscribed, live, runs, last, deaf>>
        BY <1>3 DEF HandleOpen, NextFrame
    <2>2. subscribed = {} /\ live = {} /\ runs = {}
        <3>1. 1 \in 1..Len(up) /\ up[1].t = "open"
            BY <1>0, <1>1, FirstGoes DEF TypeOK
        <3> QED
            BY <1>0, <3>1 DEF OpenFirst
    <2>3. /\ Bounded' /\ Reconciled' /\ OpenFirst'
          /\ up' \in Seq(Frame) /\ Len(outbox') + Len(up') <= MaxFrames + 3
        BY <1>1, <2>1, <2>2, FrameTaken
    <2>4. OneRun' /\ FreshRuns' /\ HeldIsAllowed' /\ NothingMissed'
        BY <2>1, <2>2 DEF OneRun, Promotable, FreshRuns, HeldIsAllowed, NothingMissed
    <2>5. granted' \in Levels
        BY <1>0, <1>3, <2>1 DEF TypeOK
    <2>6. TypeOK'
        BY <1>0, <1>1, <2>1, <2>3, <2>5 DEF TypeOK, clientVars, feedVars
    <2> QED
        BY <2>3, <2>4, <2>6 DEF IInv
<1> QED
    BY <1>2, <1>3

\* An `unsub` frame.
LEMMA HandleUnsubKeeps ==
    ASSUME IInv, HandleUnsub
    PROVE  IInv'
<1> DEFINE dropped == Head(up).topics \intersect subscribed
<1>0. TypeOK
    BY DEF IInv
<1>1. /\ up # <<>> /\ Head(up).t = "unsub" /\ up' = Tail(up) /\ gate' = "asking"
      /\ subscribed' = subscribed \ dropped /\ live' = live \ dropped /\ runs' = AbandonRuns(dropped)
      /\ deaf' = deaf \ Head(up).topics
      /\ UNCHANGED <<clientVars, linked, srv, last, granted, feedVars, mishaps>>
    BY DEF HandleUnsub, NextFrame
<1>2. version' = version
    BY <1>1 DEF feedVars
<1>3. runs' \subseteq Run /\ OneRun' /\ FreshRuns' /\ HeldIsAllowed' /\ NothingMissed'
    BY <1>1, <1>2, DropKeeps
<1>4. /\ Bounded' /\ Reconciled' /\ OpenFirst'
      /\ up' \in Seq(Frame) /\ Len(outbox') + Len(up') <= MaxFrames + 3
    BY <1>1, FrameTaken
<1>5. TypeOK'
    <2>1. /\ subscribed' \subseteq Topics /\ live' \subseteq Topics /\ deaf' \subseteq Topics
          /\ UNCHANGED <<leased, holders, sent, outbox, ws, timer, linked, srv, last, granted, access,
                         version, emits>>
        BY <1>0, <1>1 DEF TypeOK, clientVars, feedVars
    <2> QED
        BY <1>0, <1>1, <1>3, <1>4, <2>1 DEF TypeOK
<1> QED
    BY <1>3, <1>4, <1>5 DEF IInv

\* The run a newly held topic starts with, and the runs after a `sub` frame that
\* revokes some topics and gives some.
Started(t) == [topic |-> t, abandoned |-> FALSE, current |-> TRUE, snap |-> Unread, buf |-> 0]
SubRuns(gone, fresh) ==
    {[r EXCEPT !.current = @ /\ r.topic \notin fresh] : r \in AbandonRuns(gone)}
      \union {Started(t) : t \in fresh}

\* A run that goes on is one that did or one that starts, and none of the former
\* may promote a topic that starts one.
LEMMA SubRunsEffect ==
    ASSUME TypeOK, NEW gone, NEW fresh \in SUBSET Topics
    PROVE  /\ SubRuns(gone, fresh) \subseteq Run
           /\ \A x \in SubRuns(gone, fresh) : ~x.abandoned =>
                \/ x.topic \in fresh /\ x = Started(x.topic)
                \/ /\ x.topic \notin gone
                   /\ x.current => x \in runs /\ x.topic \notin fresh
                   /\ \E r \in runs : /\ ~r.abandoned
                                      /\ r.topic = x.topic /\ r.buf = x.buf /\ r.snap = x.snap
<1> SUFFICES ASSUME NEW x \in SubRuns(gone, fresh)
             PROVE  /\ x \in Run
                    /\ ~x.abandoned =>
                         \/ x.topic \in fresh /\ x = Started(x.topic)
                         \/ /\ x.topic \notin gone
                            /\ x.current => x \in runs /\ x.topic \notin fresh
                            /\ \E r \in runs : /\ ~r.abandoned
                                               /\ r.topic = x.topic /\ r.buf = x.buf /\ r.snap = x.snap
    OBVIOUS
<1>1. CASE \E t \in fresh : x = Started(t)
    <2>1. PICK t \in fresh : x = Started(t)
        BY <1>1
    <2>2. x \in Run /\ x.topic = t
        BY <2>1, Bounds DEF Started, Run
    <2> QED
        BY <2>1, <2>2
<1>2. ASSUME NEW r \in AbandonRuns(gone), x = [r EXCEPT !.current = @ /\ r.topic \notin fresh]
      PROVE  /\ x \in Run
             /\ ~x.abandoned => /\ x.topic \notin gone
                                /\ x.current => x \in runs /\ x.topic \notin fresh
                                /\ r \in runs /\ ~r.abandoned
                                /\ r.topic = x.topic /\ r.buf = x.buf /\ r.snap = x.snap
    <2>1. r \in Run /\ (~r.abandoned => r \in runs /\ r.topic \notin gone)
        BY AbandonEffect
    <2>2. x \in Run
        BY <1>2, <2>1 DEF Run
    <2>3. /\ x.topic = r.topic /\ x.abandoned = r.abandoned /\ x.snap = r.snap /\ x.buf = r.buf
          /\ x.current = (r.current /\ r.topic \notin fresh)
        BY <1>2, <2>1 DEF Run
    <2>4. x.current => r.topic \notin fresh /\ r.current
        BY <2>3, Zenon
    <2>5. r.current /\ r.topic \notin fresh => x = r
        <3>1. r.current \in BOOLEAN
            BY <2>1 DEF Run
        <3>2. r.current /\ r.topic \notin fresh => (r.current /\ r.topic \notin fresh) = r.current
            BY <3>1
        <3> QED
            BY <1>2, <2>1, <3>2 DEF Run
    <2> QED
        BY <2>1, <2>2, <2>3, <2>4, <2>5
<1>3. (\E t \in fresh : x = Started(t))
      \/ \E r \in AbandonRuns(gone) : x = [r EXCEPT !.current = @ /\ r.topic \notin fresh]
    BY DEF SubRuns
<1> QED
    BY <1>1, <1>2, <1>3

\* A `sub` frame of a session that may read something.
LEMMA GivenKeeps ==
    ASSUME IInv, gate \in {"dashboard", "admin"}, NEW allowed, allowed \subseteq Allowed(gate),
           NEW fresh, fresh = allowed \ (subscribed \ Revoked),
           subscribed' = (subscribed \ Revoked) \union fresh, live' = live \ Revoked,
           runs' = SubRuns(Revoked, fresh),
           last' = [t \in Topics |-> IF t \in fresh THEN 0 ELSE last[t]],
           granted' = gate, UNCHANGED version
    PROVE  /\ runs' \subseteq Run /\ subscribed' \subseteq Topics /\ live' \subseteq Topics
           /\ last' \in [Topics -> 0..Newest]
           /\ OneRun' /\ FreshRuns' /\ HeldIsAllowed' /\ NothingMissed'
<1>0. TypeOK /\ OneRun /\ FreshRuns /\ HeldIsAllowed /\ NothingMissed
    BY DEF IInv
<1>1. fresh \in SUBSET Topics /\ Allowed(gate) \subseteq Topics
    BY DEF Allowed, Topics
<1>2. /\ runs' \subseteq Run
      /\ \A x \in runs' : ~x.abandoned =>
           \/ x.topic \in fresh /\ x = Started(x.topic)
           \/ /\ x.topic \notin Revoked
              /\ x.current => x \in runs /\ x.topic \notin fresh
              /\ \E r \in runs : /\ ~r.abandoned
                                 /\ r.topic = x.topic /\ r.buf = x.buf /\ r.snap = x.snap
    BY <1>0, <1>1, SubRunsEffect
<1>3. \A x \in Promotable' : \/ x.topic \in fresh /\ x = Started(x.topic)
                             \/ x \in Promotable /\ x.topic \notin Revoked /\ x.topic \notin fresh
    BY <1>2 DEF Promotable
<1>4. \A r \in runs : r.topic \in Topics
    BY <1>0 DEF TypeOK, Run
<1>5. live' \subseteq subscribed' /\ \A t \in fresh : t \notin live'
    BY <1>0 DEF OneRun
<1>6. last' \in [Topics -> 0..Newest] /\ \A t \in Topics : last'[t] = IF t \in fresh THEN 0 ELSE last[t]
    BY <1>0, Bounds DEF TypeOK
<1>7. OneRun'
    <2>1. ASSUME NEW x \in Promotable' PROVE x.topic \notin live' /\ last'[x.topic] = 0
        <3>1. CASE x.topic \in fresh
            BY <1>1, <1>5, <1>6, <3>1
        <3>2. CASE x \in Promotable /\ x.topic \notin fresh
            <4>1. x.topic \in Topics /\ x.topic \notin live /\ last[x.topic] = 0
                BY <1>0, <1>4, <3>2 DEF OneRun, Promotable
            <4> QED
                BY <1>6, <3>2, <4>1
        <3> QED
            BY <1>3, <3>1, <3>2
    <2>2. \A x, y \in Promotable' : x.topic = y.topic => x = y
        BY <1>0, <1>3 DEF OneRun
    <2> QED
        BY <1>5, <2>1, <2>2 DEF OneRun
<1>8. FreshRuns'
    <2>1. \A t : Started(t).buf = 0 /\ Started(t).snap = Unread
        BY DEF Started
    <2> SUFFICES ASSUME NEW x \in runs', ~x.abandoned
                 PROVE  /\ x.buf # 0 => x.buf = version[x.topic]
                        /\ x.buf = 0 /\ x.snap \notin {0, Unread} => x.snap = version[x.topic]
        BY DEF FreshRuns
    <2>2. CASE x = Started(x.topic)
        BY <2>1, <2>2
    <2>3. CASE \E r \in runs : ~r.abandoned /\ r.topic = x.topic /\ r.buf = x.buf /\ r.snap = x.snap
        BY <1>0, <2>3 DEF FreshRuns
    <2> QED
        BY <1>2, <2>2, <2>3
<1>9. HeldIsAllowed'
    <2>1. subscribed \ Revoked \subseteq Allowed(gate)
        BY DEF Revoked
    <2> QED
        BY <1>5, <2>1 DEF HeldIsAllowed
<1>10. NothingMissed'
    <2> SUFFICES ASSUME NEW t \in live' PROVE last'[t] \in {0, version[t]}
        BY DEF NothingMissed
    <2>1. t \in live /\ t \in Topics
        BY <1>0 DEF TypeOK
    <2> QED
        BY <1>0, <1>6, <2>1 DEF NothingMissed
<1>11. subscribed' \subseteq Topics /\ live' \subseteq Topics
    BY <1>0, <1>1 DEF TypeOK
<1> QED
    BY <1>2, <1>6, <1>7, <1>8, <1>9, <1>10, <1>11

\* A `sub` frame.
LEMMA HandleSubKeeps ==
    ASSUME IInv, HandleSub
    PROVE  IInv'
<1>0. TypeOK
    BY DEF IInv
<1>1. /\ up # <<>> /\ Head(up).t = "sub"
      /\ UNCHANGED <<clientVars, linked, feedVars, mishaps>>
    BY DEF HandleSub
<1>2. /\ UNCHANGED <<leased, holders, sent, outbox, ws, timer, linked, access, version, emits>>
      /\ Head(up).topics \subseteq Topics
    <2>1. Head(up) \in Frame
        BY <1>0, <1>1, FirstGoes DEF TypeOK
    <2> QED
        BY <1>1, <2>1 DEF clientVars, feedVars, Frame
<1>3. CASE gate = "failed"
    <2>1. /\ up' = Tail(up) /\ gate' = "asking"
          /\ deaf' = IF linked THEN deaf \union (Head(up).topics \ subscribed) ELSE {}
          /\ UNCHANGED <<srv, subscribed, live, runs, last, granted>>
        BY <1>3 DEF HandleSub, NextFrame
    <2>2. OneRun' /\ FreshRuns' /\ HeldIsAllowed' /\ NothingMissed'
        BY <1>2, <2>1, ServerSame
    <2>3. /\ Bounded' /\ Reconciled' /\ OpenFirst'
          /\ up' \in Seq(Frame) /\ Len(outbox') + Len(up') <= MaxFrames + 3
        BY <1>1, <2>1, FrameTaken
    <2>4. deaf' \subseteq Topics
        BY <1>0, <1>2, <2>1 DEF TypeOK
    <2>5. TypeOK'
        BY <1>0, <1>2, <2>1, <2>3, <2>4 DEF TypeOK
    <2> QED
        BY <2>2, <2>3, <2>5 DEF IInv
<1>4. CASE gate = "none"
    BY <1>1, <1>4, CloseKeeps DEF HandleSub
<1>5. CASE gate \in {"dashboard", "admin"}
    <2>1. PICK acked \in {TRUE, linked} :
            LET allowed == IF acked THEN Head(up).topics \intersect Allowed(gate) ELSE {}
                fresh   == allowed \ (subscribed \ Revoked)
            IN  /\ subscribed' = (subscribed \ Revoked) \union fresh
                /\ live' = live \ Revoked
                /\ runs' = SubRuns(Revoked, fresh)
                /\ last' = [t \in Topics |-> IF t \in fresh THEN 0 ELSE last[t]]
                /\ deaf' = IF linked THEN (deaf \union Head(up).topics \union Revoked) \ allowed ELSE {}
        BY <1>5 DEF HandleSub, SubRuns, Started
    <2> DEFINE allowed == IF acked THEN Head(up).topics \intersect Allowed(gate) ELSE {}
               fresh   == allowed \ (subscribed \ Revoked)
    <2>2. granted' = gate /\ up' = Tail(up) /\ gate' = "asking" /\ srv' = srv
        BY <1>5 DEF HandleSub, NextFrame
    <2>3. allowed \subseteq Allowed(gate) /\ allowed \subseteq Head(up).topics
        OBVIOUS
    <2> HIDE DEF allowed
    <2>4. /\ fresh = allowed \ (subscribed \ Revoked)
          /\ subscribed' = (subscribed \ Revoked) \union fresh /\ live' = live \ Revoked
          /\ runs' = SubRuns(Revoked, fresh)
          /\ last' = [t \in Topics |-> IF t \in fresh THEN 0 ELSE last[t]]
          /\ deaf' = IF linked THEN (deaf \union Head(up).topics \union Revoked) \ allowed ELSE {}
        BY <2>1 DEF allowed
    <2> HIDE DEF fresh
    <2>5. /\ runs' \subseteq Run /\ subscribed' \subseteq Topics /\ live' \subseteq Topics
          /\ last' \in [Topics -> 0..Newest]
          /\ OneRun' /\ FreshRuns' /\ HeldIsAllowed' /\ NothingMissed'
        BY <1>2, <1>5, <2>2, <2>3, <2>4, GivenKeeps
    <2>6. \A t \in subscribed' : t \in subscribed \/ t \in Head(up).topics
        BY <2>3, <2>4
    <2>7. /\ Bounded' /\ Reconciled' /\ OpenFirst'
          /\ up' \in Seq(Frame) /\ Len(outbox') + Len(up') <= MaxFrames + 3
        BY <1>1, <2>2, <2>6, FrameTaken
    <2>8. deaf' \subseteq Topics
        BY <1>0, <1>2, <2>4 DEF TypeOK, Revoked
    <2>9. granted' \in Levels /\ gate' \in Levels \union {"asking", "failed"}
        BY <1>5, <2>2 DEF Levels
    <2>10. TypeOK'
        BY <1>0, <1>2, <2>2, <2>5, <2>7, <2>8, <2>9 DEF TypeOK
    <2> QED
        BY <2>5, <2>7, <2>10 DEF IInv
<1> QED
    BY <1>3, <1>4, <1>5 DEF HandleSub

-----------------------------------------------------------------------------
(* Priming and the feeds *)

\* What a step on the runs leaves alone.
LEMMA ClientSame ==
    ASSUME IInv, UNCHANGED <<clientVars, up>>, subscribed' \subseteq subscribed,
           live' \subseteq live \/ runs # {}, runs = {} => runs' = {}
    PROVE  Reconciled' /\ OpenFirst'
<1>0. Reconciled /\ OpenFirst
    BY DEF IInv
<1>1. UNCHANGED <<holders, sent, outbox, ws, up>>
    BY DEF clientVars
<1>2. Reconciled'
    BY <1>0, <1>1 DEF Reconciled, Held, Settled, WillDrop
<1>3. \A i \in 1..Len(up') : up'[i].t = "open" => i = 1 /\ subscribed' = {} /\ live' = {} /\ runs' = {}
    BY <1>0, <1>1 DEF OpenFirst
<1> QED
    BY <1>0, <1>1, <1>2, <1>3 DEF OpenFirst

\* The snapshot's query answers or fails.
LEMMA SnapshotKeeps ==
    ASSUME IInv, NEW r \in runs, ReadSnapshot(r) \/ SnapshotFails(r)
    PROVE  IInv'
<1>0. TypeOK /\ OneRun /\ FreshRuns /\ HeldIsAllowed /\ NothingMissed
    BY DEF IInv
<1>1. /\ r.snap = Unread
      /\ \E n \in {0, version[r.topic]} : runs' = (runs \ {r}) \union {[r EXCEPT !.snap = n]}
      /\ UNCHANGED <<clientVars, up, linked, srv, gate, subscribed, live, last, granted, deaf, feedVars>>
    BY DEF ReadSnapshot, SnapshotFails
<1>2. PICK n \in {0, version[r.topic]} : runs' = (runs \ {r}) \union {[r EXCEPT !.snap = n]}
    BY <1>1
<1> DEFINE x == [r EXCEPT !.snap = n]
<1>3. r \in Run /\ r.topic \in Topics
    BY <1>0 DEF TypeOK, Run
<1>4. n \in 0..Unread /\ version[r.topic] \in 1..Newest
    BY <1>0, <1>3, Bounds DEF TypeOK
<1>5. /\ x \in Run /\ x.topic = r.topic /\ x.abandoned = r.abandoned /\ x.current = r.current
      /\ x.buf = r.buf /\ x.snap = n
    BY <1>3, <1>4 DEF Run
<1>6. \A y \in runs' : y = x \/ (y \in runs /\ y # r)
    BY <1>2
<1> HIDE DEF x
<1>7. UNCHANGED <<leased, holders, sent, outbox, ws, timer, up, linked, srv, gate, subscribed, live, last,
                  granted, deaf, access, version, emits>>
    BY <1>1 DEF clientVars, feedVars
<1>8. OneRun'
    <2>1. \A y \in Promotable' : (y = x /\ r \in Promotable) \/ (y \in Promotable /\ y # r)
        BY <1>5, <1>6 DEF Promotable
    <2>2. \A y \in Promotable' : y.topic \notin live' /\ last'[y.topic] = 0
        BY <1>0, <1>5, <1>7, <2>1 DEF OneRun
    <2>3. \A y, z \in Promotable' : y.topic = z.topic => y = z
        BY <1>0, <1>5, <2>1 DEF OneRun
    <2> QED
        BY <1>0, <1>7, <2>2, <2>3 DEF OneRun
<1>9. FreshRuns'
    BY <1>0, <1>2, <1>5, <1>6, <1>7 DEF FreshRuns
<1>10. HeldIsAllowed' /\ NothingMissed'
    BY <1>0, <1>7 DEF HeldIsAllowed, NothingMissed
<1>11. TypeOK' /\ Bounded'
    <2>1. runs' \subseteq Run
        BY <1>0, <1>5, <1>6 DEF TypeOK
    <2> QED
        BY <1>0, <1>7, <2>1 DEF TypeOK, IInv, Bounded
<1>12. Reconciled' /\ OpenFirst'
    BY <1>1, <1>7, ClientSame
<1> QED
    BY <1>8, <1>9, <1>10, <1>11, <1>12 DEF IInv

\* A run resumes, and promotes its topic if it still may.
LEMMA PromoteKeeps ==
    ASSUME IInv, NEW r \in runs, Promote(r)
    PROVE  IInv'
<1> DEFINE t == r.topic
<1>0. TypeOK /\ OneRun /\ FreshRuns /\ HeldIsAllowed /\ NothingMissed
    BY DEF IInv
<1>1. /\ r.snap # Unread /\ runs' = runs \ {r}
      /\ UNCHANGED <<clientVars, up, linked, srv, gate, subscribed, granted, deaf, feedVars, mishaps>>
    BY DEF Promote
<1>2. UNCHANGED <<leased, holders, sent, outbox, ws, timer, up, linked, srv, gate, subscribed, granted,
                  deaf, access, version, emits>>
    BY <1>1 DEF clientVars, feedVars
<1>3. r \in Run /\ t \in Topics /\ runs' \subseteq Run /\ r.snap \in 0..Unread /\ r.buf \in 0..Newest
    BY <1>0, <1>1 DEF TypeOK, Run
<1>4. Promotable' \subseteq Promotable /\ \A x \in Promotable' : x # r
    BY <1>1 DEF Promotable
<1>5. FreshRuns'
    BY <1>0, <1>1, <1>2 DEF FreshRuns
<1>6. Bounded'
    BY <1>2 DEF IInv, Bounded
<1>7. Reconciled' /\ OpenFirst'
    BY <1>1, <1>2, ClientSame
<1>8. CASE r.abandoned \/ ~IsActive(r)
    <2>1. live' = live /\ last' = last
        BY <1>8 DEF Promote
    <2>2. OneRun' /\ HeldIsAllowed' /\ NothingMissed'
        BY <1>0, <1>2, <1>4, <2>1 DEF OneRun, HeldIsAllowed, NothingMissed
    <2>3. TypeOK'
        BY <1>0, <1>2, <1>3, <2>1 DEF TypeOK
    <2> QED
        BY <1>5, <1>6, <1>7, <2>2, <2>3 DEF IInv
<1>9. CASE ~r.abandoned /\ IsActive(r)
    <2>1. /\ live' = live \union {t}
          /\ last' = [last EXCEPT ![t] = IF Shown(r) = 0 THEN @ ELSE Shown(r)]
        BY <1>9 DEF Promote
    <2>2. r \in Promotable /\ t \in subscribed
        BY <1>9 DEF IsActive, Promotable
    <2>3. last \in [Topics -> 0..Newest] /\ last[t] = 0 /\ version[t] \in 0..Newest
        BY <1>0, <1>3, <2>2, Bounds DEF TypeOK, OneRun
    <2>4. Shown(r) \in {0, version[t]}
        <3>1. /\ r.buf # 0 => r.buf = version[t]
              /\ r.buf = 0 /\ r.snap \notin {0, Unread} => r.snap = version[t]
            BY <1>0, <1>9 DEF FreshRuns
        <3> QED
            BY <1>1, <3>1 DEF Shown
    <2>5. last'[t] \in {0, version[t]} /\ \A u \in Topics : u # t => last'[u] = last[u]
        BY <1>3, <2>1, <2>3, <2>4
    <2>6. last' \in [Topics -> 0..Newest]
        BY <2>1, <2>3, <2>4
    <2>7. \A x \in Promotable' : x \in Promotable /\ x.topic # t /\ x.topic \in Topics
        BY <1>0, <1>4, <2>2 DEF OneRun, TypeOK, Run, Promotable
    <2>8. OneRun'
        BY <1>0, <1>2, <2>1, <2>2, <2>5, <2>7 DEF OneRun
    <2>9. HeldIsAllowed'
        BY <1>0, <1>2, <2>1, <2>2 DEF HeldIsAllowed
    <2>10. NothingMissed'
        <3>1. \A u \in live : u \in Topics
            BY <1>0 DEF TypeOK
        <3> QED
            BY <1>0, <1>2, <2>1, <2>5, <3>1 DEF NothingMissed
    <2>11. TypeOK'
        <3>1. live' \subseteq Topics
            BY <1>0, <1>3, <2>1 DEF TypeOK
        <3> QED
            BY <1>0, <1>2, <1>3, <2>6, <3>1 DEF TypeOK
    <2> QED
        BY <1>5, <1>6, <1>7, <2>8, <2>9, <2>10, <2>11 DEF IInv
<1> QED
    BY <1>8, <1>9

\* A promotion that cannot be delivered gives its topic back.
LEMMA PromoteFailsKeeps ==
    ASSUME IInv, NEW r \in runs, PromoteFails(r)
    PROVE  IInv'
<1>0. TypeOK /\ OneRun /\ FreshRuns /\ HeldIsAllowed /\ NothingMissed
    BY DEF IInv
<1>1. /\ ~r.abandoned /\ IsActive(r) /\ runs' = runs \ {r} /\ subscribed' = subscribed \ {r.topic}
      /\ UNCHANGED <<clientVars, up, linked, srv, gate, live, last, granted, deaf, feedVars, mishaps>>
    BY DEF PromoteFails
<1>2. UNCHANGED <<leased, holders, sent, outbox, ws, timer, up, linked, srv, gate, live, last, granted,
                  deaf, access, version, emits>>
    BY <1>1 DEF clientVars, feedVars
<1>3. r \in Promotable /\ Promotable' \subseteq Promotable
    BY <1>1 DEF IsActive, Promotable
<1>4. OneRun'
    BY <1>0, <1>1, <1>2, <1>3 DEF OneRun
<1>5. FreshRuns' /\ HeldIsAllowed' /\ NothingMissed'
    BY <1>0, <1>1, <1>2 DEF FreshRuns, HeldIsAllowed, NothingMissed
<1>6. Reconciled' /\ OpenFirst'
    BY <1>1, <1>2, ClientSame
<1>7. TypeOK' /\ Bounded'
    <2>1. runs' \subseteq Run /\ subscribed' \subseteq Topics
        BY <1>0, <1>1 DEF TypeOK
    <2> QED
        BY <1>0, <1>2, <2>1 DEF IInv, TypeOK, Bounded
<1> QED
    BY <1>4, <1>5, <1>6, <1>7 DEF IInv

\* A payload is emitted.
LEMMA EmitKeeps ==
    ASSUME IInv, NEW t \in Topics, Emit(t)
    PROVE  IInv'
<1> DEFINE n == version[t] + 1
<1>0. TypeOK /\ OneRun /\ FreshRuns /\ HeldIsAllowed /\ NothingMissed /\ Bounded
    BY DEF IInv
<1>1. /\ emits < MaxEmits /\ emits' = emits + 1 /\ version' = [version EXCEPT ![t] = n]
      /\ runs' = {IF r.topic = t /\ ~r.abandoned THEN [r EXCEPT !.buf = version'[t]] ELSE r : r \in runs}
      /\ last' = IF t \in live THEN [last EXCEPT ![t] = version'[t]] ELSE last
      /\ UNCHANGED <<clientVars, up, linked, srv, gate, subscribed, live, granted, deaf, access, mishaps>>
    BY DEF Emit
<1>2. /\ version \in [Topics -> 1..Newest] /\ last \in [Topics -> 0..Newest] /\ emits \in 0..MaxEmits
      /\ version[t] \in 1..Newest /\ version[t] <= emits + 1
    BY <1>0 DEF TypeOK, Bounded
<1>3. n \in 1..Newest /\ n \in 0..Newest /\ emits' \in 0..MaxEmits /\ n <= emits' + 1 /\ n # 0
    BY <1>1, <1>2, Bounds
<1> HIDE DEF n
<1>4. version' \in [Topics -> 1..Newest] /\ version'[t] = n /\ \A u \in Topics : u # t => version'[u] = version[u]
    BY <1>1, <1>2, <1>3
<1>5. /\ last' \in [Topics -> 0..Newest] /\ (t \in live => last'[t] = n)
      /\ \A u \in Topics : u # t \/ t \notin live => last'[u] = last[u]
    BY <1>1, <1>2, <1>3, <1>4
<1>6. UNCHANGED <<leased, holders, sent, outbox, ws, timer, up, linked, srv, gate, subscribed, live, granted,
                  deaf, access>>
    BY <1>1 DEF clientVars
<1> DEFINE Fed(r) == IF r.topic = t /\ ~r.abandoned THEN [r EXCEPT !.buf = n] ELSE r
<1>7. \A x \in runs' : \E r \in runs : x = Fed(r)
    BY <1>1, <1>4
<1>8. ASSUME NEW r \in runs
      PROVE  /\ Fed(r) \in Run /\ Fed(r).topic = r.topic /\ Fed(r).abandoned = r.abandoned
             /\ Fed(r).current = r.current /\ Fed(r).snap = r.snap
             /\ Fed(r).buf = IF r.topic = t /\ ~r.abandoned THEN n ELSE r.buf
             /\ r.topic \in Topics
    <2>1. r \in Run
        BY <1>0 DEF TypeOK
    <2> QED
        BY <1>3, <2>1 DEF Run
<1> HIDE DEF Fed
<1>9. OneRun'
    <2>1. \A x \in Promotable' : \E r \in Promotable : x = Fed(r) /\ x.topic = r.topic /\ x.topic \in Topics
        BY <1>7, <1>8 DEF Promotable
    <2>2. ASSUME NEW x \in Promotable' PROVE x.topic \notin live' /\ last'[x.topic] = 0
        <3>1. x.topic \in Topics /\ x.topic \notin live /\ last[x.topic] = 0
            BY <1>0, <2>1 DEF OneRun
        <3>2. x.topic # t \/ t \notin live
            BY <3>1
        <3> QED
            BY <1>5, <1>6, <3>1, <3>2
    <2>3. \A x, y \in Promotable' : x.topic = y.topic => x = y
        BY <1>0, <2>1 DEF OneRun
    <2> QED
        BY <1>0, <1>6, <2>2, <2>3 DEF OneRun
<1>10. FreshRuns'
    <2> SUFFICES ASSUME NEW x \in runs', ~x.abandoned
                 PROVE  /\ x.buf # 0 => x.buf = version'[x.topic]
                        /\ x.buf = 0 /\ x.snap \notin {0, Unread} => x.snap = version'[x.topic]
        BY DEF FreshRuns
    <2>1. PICK r \in runs : x = Fed(r)
        BY <1>7
    <2>2. CASE r.topic = t
        BY <1>3, <1>4, <1>8, <2>1, <2>2
    <2>3. CASE r.topic # t
        <3>1. /\ ~r.abandoned /\ x.topic = r.topic /\ x.buf = r.buf /\ x.snap = r.snap
              /\ version'[x.topic] = version[r.topic]
            BY <1>4, <1>8, <2>1, <2>3
        <3> QED
            BY <1>0, <3>1 DEF FreshRuns
    <2> QED
        BY <2>2, <2>3
<1>11. HeldIsAllowed' /\ NothingMissed'
    <2>1. HeldIsAllowed'
        BY <1>0, <1>6 DEF HeldIsAllowed
    <2>2. ASSUME NEW u \in live' PROVE last'[u] \in {0, version'[u]}
        <3>1. u \in live /\ u \in Topics
            BY <1>0, <1>6 DEF TypeOK
        <3>2. CASE u = t
            BY <1>4, <1>5, <3>1, <3>2
        <3>3. CASE u # t
            BY <1>0, <1>4, <1>5, <3>1, <3>3 DEF NothingMissed
        <3> QED
            BY <3>2, <3>3
    <2> QED
        BY <2>1, <2>2 DEF NothingMissed
<1>12. Reconciled' /\ OpenFirst'
    <2>1. runs = {} => runs' = {}
        BY <1>7
    <2> QED
        BY <1>1, <1>6, <2>1, ClientSame
<1>13. TypeOK' /\ Bounded'
    <2>1. runs' \subseteq Run
        BY <1>7, <1>8
    <2>2. \A u \in Topics : version'[u] <= emits' + 1
        <3>1. \A u \in Topics : version[u] \in 1..Newest /\ version[u] <= emits + 1
            BY <1>0 DEF TypeOK, Bounded
        <3> QED
            BY <1>1, <1>2, <1>3, <1>4, <3>1, Bounds
    <2> QED
        BY <1>0, <1>3, <1>4, <1>5, <1>6, <2>1, <2>2 DEF TypeOK, Bounded
<1> QED
    BY <1>9, <1>10, <1>11, <1>12, <1>13 DEF IInv

\* The session's rights change behind the connection's back.
LEMMA ChangeAccessKeeps ==
    ASSUME IInv, ChangeAccess
    PROVE  IInv'
<1>1. /\ access' \in Levels /\ UNCHANGED <<clientVars, up>>
      /\ UNCHANGED <<linked, srv, gate, subscribed, live, runs, last, granted, deaf, version, emits>>
    BY DEF ChangeAccess, serverVars, connVars
<1>2. UNCHANGED <<leased, holders, sent, outbox, ws, timer, up>>
    BY <1>1 DEF clientVars
<1>3. OneRun' /\ FreshRuns' /\ HeldIsAllowed' /\ NothingMissed' /\ \A t \in Topics : version'[t] <= emits' + 1
    BY <1>1, ServerSame
<1>4. Reconciled' /\ OpenFirst'
    BY <1>1, ClientSame
<1>5. TypeOK' /\ Bounded'
    BY <1>1, <1>2, <1>3 DEF IInv, TypeOK, Bounded
<1> QED
    BY <1>3, <1>4, <1>5 DEF IInv

-----------------------------------------------------------------------------
(* The theorems *)

\* The browser starts without a connection.
LEMMA InitHolds == Init => IInv
<1> SUFFICES ASSUME Init PROVE IInv
    OBVIOUS
<1>1. /\ outbox = <<>> /\ up = <<>> /\ Len(outbox) = 0 /\ Len(up) = 0
      /\ outbox \in Seq(Frame) /\ up \in Seq(Frame)
    BY DEF Init
<1>2. MaxHolders \in Nat /\ MaxFrames \in Nat /\ MaxEmits \in Nat
    BY TopicsAssumption
<1>3. holders \in [Topics -> 0..MaxHolders] /\ version \in [Topics -> 1..Newest] /\ last \in [Topics -> 0..Newest]
    BY <1>2, Bounds DEF Init
<1>4. TypeOK
    <2>1. Len(outbox) + Len(up) <= MaxFrames + 3 /\ emits \in 0..MaxEmits
        BY <1>1, <1>2 DEF Init
    <2>2. leased \in BOOLEAN /\ timer \in BOOLEAN /\ linked \in BOOLEAN /\ srv \in BOOLEAN
        BY DEF Init
    <2>3. /\ gate \in Levels \union {"asking", "failed"} /\ access \in Levels /\ granted \in Levels
          /\ ws \in {"none", "opening", "open"}
        BY DEF Init, Levels
    <2>4. sent = {} /\ subscribed = {} /\ live = {} /\ deaf = {} /\ runs = {}
        BY DEF Init
    <2> QED
        BY <1>1, <1>3, <2>1, <2>2, <2>3, <2>4 DEF TypeOK
<1>5. Bounded
    BY <1>1, <1>2 DEF Init, Bounded
<1>6. Reconciled /\ OpenFirst
    BY <1>1 DEF Init, Reconciled, OpenFirst, Settled
<1>7. OneRun /\ FreshRuns /\ HeldIsAllowed /\ NothingMissed
    BY DEF Init, OneRun, Promotable, FreshRuns, HeldIsAllowed, NothingMissed
<1> QED
    BY <1>4, <1>5, <1>6, <1>7 DEF IInv

\* Every step keeps the invariant.
LEMMA StepHolds == IInv /\ [Next]_vars => IInv'
<1> SUFFICES ASSUME IInv, [Next]_vars PROVE IInv'
    OBVIOUS
<1>1. ASSUME NEW t \in Topics, Subscribe(t) \/ Dispose(t) \/ Emit(t) PROVE IInv'
    BY <1>1, SubscribeKeeps, EmitKeeps
<1>2. CASE Lease \/ Reconnect
    BY <1>2, DialKeeps
<1>3. CASE Unlease \/ SocketCloses
    BY <1>3, ForgetKeeps
<1>4. CASE SocketOpens
    BY <1>4, SocketOpensKeeps
<1>5. CASE ServerStep
    <2>1. CASE ServerCloses
        BY <2>1, CloseKeeps DEF ServerCloses
    <2> QED
        BY <1>5, <2>1, AuthorizeKeeps, HandleOpenKeeps, HandleUnsubKeeps, HandleSubKeeps DEF ServerStep
<1>6. ASSUME NEW t \in Topics, PrimeStep(t) PROVE IInv'
    BY <1>6, SnapshotKeeps, PromoteKeeps DEF PrimeStep
<1>7. ASSUME NEW r \in runs, PromoteFails(r) PROVE IInv'
    BY <1>7, PromoteFailsKeeps
<1>8. CASE ChangeAccess
    BY <1>8, ChangeAccessKeeps
<1>9. CASE UNCHANGED vars
    <2>1. /\ UNCHANGED <<clientVars, up>>
          /\ UNCHANGED <<leased, holders, sent, outbox, ws, timer, linked, srv, gate, subscribed, live, runs,
                         last, granted, deaf, access, version, emits>>
        BY <1>9 DEF vars, clientVars, serverVars, connVars, feedVars
    <2>2. OneRun' /\ FreshRuns' /\ HeldIsAllowed' /\ NothingMissed' /\ \A t \in Topics : version'[t] <= emits' + 1
        BY <2>1, ServerSame
    <2>3. Reconciled' /\ OpenFirst'
        BY <2>1, ClientSame
    <2>4. TypeOK' /\ Bounded'
        BY <2>1, <2>2 DEF IInv, TypeOK, Bounded
    <2> QED
        BY <2>2, <2>3, <2>4 DEF IInv
<1> QED
    BY <1>1, <1>2, <1>3, <1>4, <1>5, <1>6, <1>7, <1>8, <1>9 DEF Next

\* The invariant holds in every reachable state.
LEMMA Inductive == Spec => []IInv
BY InitHolds, StepHolds, PTL DEF Spec

\* Both ends of the live socket keep their types; in particular #sync() and the
\* flush at the handshake never put more than two frames behind those that wait.
THEOREM TypeCorrect == Spec => []TypeOK
<1>1. IInv => TypeOK
    BY DEF IInv
<1> QED
    BY <1>1, Inductive, PTL

\* What the bus forgets with a connection was never written on the next one, so
\* the server is left with no topic that nobody wants.
THEOREM NoTopicIsStray == Spec => []NoStraySubscription
<1>1. IInv => NoStraySubscription
    <2> SUFFICES ASSUME IInv, ws = "open", up = <<>> PROVE subscribed \subseteq Held(holders)
        BY DEF NoStraySubscription
    <2>1. sent = Held(holders) /\ \A t \in subscribed : t \in sent \/ WillDrop(up, t)
        BY DEF IInv, Reconciled
    <2>2. \A t : ~WillDrop(up, t)
        BY DEF WillDrop
    <2> QED
        BY <2>1, <2>2
<1> QED
    BY <1>1, Inductive, PTL

\* sweepRevoked() leaves no way for a topic to reach the fan-out that the last
\* authorize() did not allow.
THEOREM FedOnlyWhatIsAllowed == Spec => []HeldIsAllowed
<1>1. IInv => HeldIsAllowed
    BY DEF IInv
<1> QED
    BY <1>1, Inductive, PTL

\* primeTopic() loses no payload between the snapshot and the promotion and puts
\* no older one on top.
THEOREM NoPayloadIsMissed == Spec => []NothingMissed
<1>1. IInv => NothingMissed
    BY DEF IInv
<1> QED
    BY <1>1, Inductive, PTL
=============================================================================
