----------------------------- MODULE BrokerPool -----------------------------
(***************************************************************************)
(* The MQTT broker pool (apps/server/src/devices/broker-pool.ts) and its   *)
(* holders, for one connection row: the pool is keyed by the row, and the  *)
(* rows share nothing.  A holder is any link acquired on the row: the push *)
(* tier's own (mqtt-tier.ts), the Home Assistant export's and the EVCC     *)
(* ingest's.  Every synchronous run of JavaScript between two awaits is    *)
(* one action; a re-dial is a coroutine that stops at `await discard`.     *)
(*                                                                         *)
(* Left out: the texts and times of the status, the length of the retry    *)
(* delay (time is not modelled, so `attempts` has nothing to decide), and  *)
(* the payloads that pass through.                                         *)
(***************************************************************************)
EXTENDS Naturals

CONSTANTS
    Holders,    \* links on the row
    Params,     \* broker address and credentials a row may carry
    Tier,       \* the push tier's own link, which subscribes to nothing
    Exports,    \* the links that declare a last will: Home Assistant exports
    Entries,    \* Entry objects the pool may create
    Clients,    \* client objects; one that is closed and unreferenced is reused
    MaxEdits,   \* re-dials in a behaviour
    None

\* What a CONNECT carries; a will is named after the export that declared it.
Packets == [params : Params, will : Exports \union {None}]

ASSUME NoneAssumption ==
    /\ None \notin Entries \union Clients \union Holders \union Params \union Packets
    /\ Tier \in Holders
    /\ Exports \subseteq Holders \ {Tier}
    /\ MaxEdits \in Nat

VARIABLES
    current,    \* entries.get(id), or None
    entry,      \* Entry objects
    client,     \* client objects
    redials,    \* redial() calls that wait in `await discard`
    edits,      \* re-dials so far
    held,       \* Holders -> the entry the link was acquired on, or None
    subscribed  \* links that registered a subscription

vars == <<current, entry, client, redials, edits, held, subscribed>>

Live == {"dialling", "up"}

EntryType ==
    [packet : Packets \union {None}, client : Clients \union {None},
     connected : BOOLEAN, retry : BOOLEAN, closing : BOOLEAN,
     holders : SUBSET Holders]

ClientType ==
    [phase : Live \union {"ending", "closed"}, of : Entries \union {None},
     sent : Packets \union {None}, subs : SUBSET Holders]

\* The will a link declares.
Will(h) == IF h \in Exports THEN h ELSE None

\* An Entry object that has not been created.
NoEntry ==
    [packet |-> None, client |-> None, connected |-> FALSE, retry |-> FALSE,
     closing |-> FALSE, holders |-> {}]

\* A client object nobody refers to.
NoClient == [phase |-> "closed", of |-> None, sent |-> None, subs |-> {}]

TypeOK ==
    /\ current \in Entries \union {None}
    /\ entry \in [Entries -> EntryType]
    /\ client \in [Clients -> ClientType]
    /\ redials \subseteq [id : 1..MaxEdits, of : Entries,
                          waits : Clients \union {None}]
    /\ edits \in 0..MaxEdits
    /\ held \in [Holders -> Entries \union {None}]
    /\ subscribed \subseteq Holders

Init ==
    /\ current = None
    /\ entry = [e \in Entries |-> NoEntry]
    /\ client = [c \in Clients |-> NoClient]
    /\ redials = {}
    /\ edits = 0
    /\ held = [h \in Holders |-> None]
    /\ subscribed = {}

Free ==
    {c \in Clients : /\ client[c].phase = "closed"
                     /\ \A e \in Entries : entry[e].client # c
                     /\ \A r \in redials : r.waits # c}

-----------------------------------------------------------------------------
\* A client no entry holds: what it carried no longer matters.
LetGo(c, phase) == [NoClient EXCEPT !.phase = phase, !.of = client[c].of]

\* dial(): a new client takes the entry's place for one, whatever client the
\* entry had.  ent is the entry as the caller leaves it.
Dial(e, ent) ==
    /\ Free # {}
    /\ LET c   == CHOOSE f \in Free : TRUE
           old == ent.client
       IN  /\ entry' = [entry EXCEPT ![e] = [ent EXCEPT !.client = c]]
           /\ client' =
                [d \in Clients |->
                   IF d = c THEN [phase |-> "dialling", of |-> e,
                                  sent |-> ent.packet, subs |-> {}]
                   ELSE IF d # old THEN client[d]
                   ELSE IF client[d].phase = "closed" THEN NoClient
                   ELSE LetGo(d, client[d].phase)]

\* discard() up to its await: the entry lets go of its client at once, and the
\* client's endAsync is under way.
EndClient(c) ==
    client' = IF c = None THEN client
              ELSE [client EXCEPT ![c] = LetGo(c, "ending")]

Discarded(ent) == [ent EXCEPT !.client = None, !.connected = FALSE]

\* Mutant: the client is let go only after it has ended.
RedialKeepsClient(e, ent) ==
    /\ edits < MaxEdits
    /\ edits' = edits + 1
    /\ redials' = redials \union {[id |-> edits + 1, of |-> e, waits |-> ent.client]}
    /\ EndClient(ent.client)
    /\ entry' = [entry EXCEPT ![e] = [ent EXCEPT !.closing = TRUE]]

\* redial() up to its await.  ent is the entry as the caller leaves it.
Redial(e, ent) ==
    /\ edits < MaxEdits
    /\ edits' = edits + 1
    /\ redials' = redials \union
                    {[id |-> edits + 1, of |-> e, waits |-> ent.client]}
    /\ EndClient(ent.client)
    /\ entry' = [entry EXCEPT ![e] = [Discarded(ent) EXCEPT !.closing = TRUE]]

\* Mutant: the entry stays marked as closing.
RedialStaysClosing(r) ==
    /\ r \in redials
    /\ r.waits # None => client[r.waits].phase = "closed"
    /\ redials' = redials \ {r}
    /\ IF current = r.of THEN Dial(r.of, entry[r.of]) ELSE UNCHANGED <<entry, client>>
    /\ UNCHANGED <<current, edits, held, subscribed>>

\* Mutant: the row is not looked up again after the await.
RedialUnchecked(r) ==
    /\ r \in redials
    /\ r.waits # None => client[r.waits].phase = "closed"
    /\ redials' = redials \ {r}
    /\ Dial(r.of, [entry[r.of] EXCEPT !.closing = FALSE])
    /\ UNCHANGED <<current, edits, held, subscribed>>

\* The rest of redial().
RedialResumes(r) ==
    LET e   == r.of
        ent == [entry[e] EXCEPT !.closing = FALSE]
    IN  /\ r \in redials
        /\ r.waits # None => client[r.waits].phase = "closed"
        /\ redials' = redials \ {r}
        /\ IF current = e
           THEN Dial(e, ent)
           ELSE /\ entry' = [entry EXCEPT ![e] = ent]
                /\ UNCHANGED client
        /\ UNCHANGED <<current, edits, held, subscribed>>

\* reopen(): a holder that declares no will keeps the one that is there, and
\* only a CONNECT packet that differs re-dials.
Reopen(e, ent, params, will) ==
    LET packet == [params |-> params,
                   will |-> IF will = None THEN ent.packet.will ELSE will]
    IN  IF packet = ent.packet
        THEN /\ entry' = [entry EXCEPT ![e] = ent]
             /\ UNCHANGED <<client, redials, edits>>
        ELSE Redial(e, [ent EXCEPT !.packet = packet])

\* acquire() on a row that no entry serves yet.
AcquireFirst(h, params) ==
    /\ held[h] = None
    /\ current = None
    /\ \E e \in Entries : entry[e] = NoEntry
    /\ LET e == CHOOSE fresh \in Entries : entry[fresh] = NoEntry
       IN  /\ current' = e
           /\ held' = [held EXCEPT ![h] = e]
           /\ Dial(e, [NoEntry EXCEPT
                         !.packet = [params |-> params, will |-> Will(h)],
                         !.holders = {h}])
    /\ UNCHANGED <<redials, edits, subscribed>>

\* acquire() on a row that is open: reopen(), and the link is one holder more.
AcquireOpen(h, params) ==
    /\ held[h] = None
    /\ current # None
    /\ Reopen(current, [entry[current] EXCEPT !.holders = @ \union {h}],
              params, Will(h))
    /\ held' = [held EXCEPT ![h] = current]
    /\ UNCHANGED <<current, subscribed>>

\* The tier's open() of a row it holds: the link's update(), on every pass over
\* the rows.
Update(params) ==
    /\ current # None
    /\ held[Tier] = current
    /\ Reopen(current, entry[current], params, None)
    /\ UNCHANGED <<current, held, subscribed>>

\* A link's subscribe(): registered now on a connection that is up, by the
\* connect handler otherwise.
Subscribe(h) ==
    /\ held[h] # None
    /\ h \notin subscribed \union {Tier}
    /\ subscribed' = subscribed \union {h}
    /\ LET ent == entry[held[h]]
       IN  client' = IF ent.connected /\ ent.client # None
                     THEN [client EXCEPT ![ent.client].subs = @ \union {h}]
                     ELSE client
    /\ UNCHANGED <<current, entry, redials, edits, held>>

\* closeEntry(): out of the map, the timer cancelled, the client discarded.
CloseEntry(e, ent) ==
    /\ current' = None
    /\ EndClient(ent.client)
    /\ entry' = [entry EXCEPT ![e] = [Discarded(ent) EXCEPT !.closing = TRUE,
                                                            !.retry = FALSE]]

\* A link's release().
Release(h) ==
    /\ held[h] # None
    /\ LET e   == held[h]
           ent == [entry[e] EXCEPT !.holders = @ \ {h}]
       IN  IF ent.holders = {} /\ current = e
           THEN CloseEntry(e, ent)
           ELSE /\ entry' = [entry EXCEPT ![e] = ent]
                /\ UNCHANGED <<current, client>>
    /\ held' = [held EXCEPT ![h] = None]
    /\ subscribed' = subscribed \ {h}
    /\ UNCHANGED <<redials, edits>>

\* The pool's close(), at shutdown: the links stay with their holders.
ClosePool ==
    /\ current # None
    /\ CloseEntry(current, entry[current])
    /\ UNCHANGED <<redials, edits, held, subscribed>>

-----------------------------------------------------------------------------
\* The retry timer of scheduleRetry().
RetryFires(e) ==
    LET ent == [entry[e] EXCEPT !.retry = FALSE]
    IN  /\ entry[e].retry
        /\ IF current = e
           THEN Dial(e, ent)
           ELSE /\ entry' = [entry EXCEPT ![e] = ent]
                /\ UNCHANGED client
        /\ UNCHANGED <<current, redials, edits, held, subscribed>>

\* Mutant: what was registered is not subscribed again.
ConnectForgets(c) ==
    LET e == client[c].of
    IN  /\ client[c].phase = "dialling"
        /\ client' = [client EXCEPT ![c].phase = "up"]
        /\ entry' = IF entry[e].client = c
                    THEN [entry EXCEPT ![e].connected = TRUE] ELSE entry
        /\ UNCHANGED <<current, redials, edits, held, subscribed>>

\* A client's "connect" event.
Connect(c) ==
    LET e == client[c].of
    IN  /\ client[c].phase = "dialling"
        /\ IF entry[e].client = c
           THEN /\ entry' = [entry EXCEPT ![e].connected = TRUE]
                /\ client' = [client EXCEPT ![c].phase = "up",
                                            ![c].subs = @ \union
                                  (entry[e].holders \intersect subscribed)]
           ELSE /\ client' = [client EXCEPT ![c].phase = "up"]
                /\ UNCHANGED entry
        /\ UNCHANGED <<current, redials, edits, held, subscribed>>

\* Mutant: only a connection that was up is retried, a refused dial is not.
LostUnlessRefused(c) ==
    LET e == client[c].of
    IN  /\ client[c].phase \in Live
        /\ client' = [client EXCEPT ![c].phase = "closed"]
        /\ entry' = IF entry[e].client # c \/ entry[e].closing
                      \/ client[c].phase = "dialling"
                    THEN entry
                    ELSE [entry EXCEPT ![e].connected = FALSE, ![e].retry = TRUE]
        /\ UNCHANGED <<current, redials, edits, held, subscribed>>

\* A client's "close" event: a refused dial, or a connection that is lost.
Lost(c) ==
    LET e == client[c].of
    IN  /\ client[c].phase \in Live
        /\ IF entry[e].client = c
           THEN /\ client' = [client EXCEPT ![c].phase = "closed"]
                /\ entry' = IF entry[e].closing THEN entry
                            ELSE [entry EXCEPT ![e].connected = FALSE,
                                               ![e].retry = TRUE]
           ELSE /\ client' = [client EXCEPT ![c] = NoClient]
                /\ UNCHANGED entry
        /\ UNCHANGED <<current, redials, edits, held, subscribed>>

\* endAsync() resolves; the client's own "close" event is ignored by then.
EndDone(c) ==
    /\ client[c].phase = "ending"
    /\ client' = [client EXCEPT ![c] = NoClient]
    /\ UNCHANGED <<current, entry, redials, edits, held, subscribed>>

-----------------------------------------------------------------------------
\* What the holders and the settings pages call.
HolderStep ==
    \/ \E h \in Holders, p \in Params : AcquireFirst(h, p) \/ AcquireOpen(h, p)
    \/ \E p \in Params : Update(p)
    \/ \E h \in Holders : Subscribe(h) \/ Release(h)
    \/ ClosePool

Next ==
    \/ HolderStep
    \/ \E r \in redials : RedialResumes(r)
    \/ \E e \in Entries : RetryFires(e)
    \/ \E c \in Clients : Connect(c) \/ Lost(c) \/ EndDone(c)

\* The row's client connects.
RowConnects ==
    /\ current # None
    /\ entry[current].client # None
    /\ Connect(entry[current].client)

\* The runtime runs the timers and resumes the coroutines; a broker that is
\* dialled again and again accepts once.  Holders owe nothing.
Fairness ==
    /\ WF_vars(\E r \in redials : RedialResumes(r))
    /\ WF_vars(\E e \in Entries : RetryFires(e))
    /\ WF_vars(\E c \in Clients : EndDone(c))
    /\ SF_vars(RowConnects)

Spec == Init /\ [][Next]_vars /\ Fairness

-----------------------------------------------------------------------------
\* The client an entry holds was dialled with the packet the entry has now: an
\* edit never leaves the row on the old broker, with the old credentials or
\* without the export's last will, in whatever order edits, the retry timer and
\* the endings of older clients run.
DialledAsSaved ==
    \A e \in Entries :
      entry[e].client # None => client[entry[e].client].sent = entry[e].packet

\* On a row's client that is up, every holder that registered a subscription is
\* subscribed: one that joined before the handshake, one that joined after it,
\* and every one that was carried over a re-dial or a reconnect.
SubscriptionsTravel ==
    \A e \in Entries :
      LET c == entry[e].client
      IN  c # None /\ client[c].phase = "up"
            => entry[e].holders \intersect subscribed \subseteq client[c].subs

\* A row that is held is never stranded: its client is being dialled or up, or a
\* retry is armed, or a re-dial is on its way.  The close event that `closing`
\* makes the handler ignore is always one a re-dial answers.
NeverStranded ==
    current # None =>
      \/ /\ entry[current].client # None
         /\ client[entry[current].client].phase \in Live
      \/ entry[current].retry
      \/ \E r \in redials : r.of = current

\* Nothing dials for an entry that is out of the map: a re-dial or a retry that
\* outlives the last release, or the pool, ends without a client.
DialsOnlyWhatIsHeld ==
    [][\A c \in Clients :
         client[c].phase # "dialling" /\ client'[c].phase = "dialling"
           => client'[c].of = current']_vars

\* A held row comes (back) up: whatever was lost, refused or edited, its client
\* is connected again or the row is released.
ComesUp ==
    current # None ~>
      \/ current = None
      \/ entry[current].client # None /\ client[entry[current].client].phase = "up"
=============================================================================
