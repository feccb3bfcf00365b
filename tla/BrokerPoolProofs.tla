-------------------------- MODULE BrokerPoolProofs --------------------------
(***************************************************************************)
(* Proofs about BrokerPool for any sets of links, broker addresses,        *)
(* entries and clients, and any number of re-dials.                        *)
(***************************************************************************)
EXTENDS BrokerPool, TLAPS

\* The client an entry holds was dialled for that entry and is not being ended,
\* so no two entries share one; a client whose events still count has an entry.
Owned ==
    /\ \A e \in Entries : entry[e].client # None =>
         client[entry[e].client].of = e /\ client[entry[e].client].phase # "ending"
    /\ \A c \in Clients : client[c].phase \in Live => client[c].of \in Entries

\* The entry in the map has been given a CONNECT packet.
CurrentKnown == current # None => entry[current].packet # None

\* A link and its entry agree on who holds what, and only a held link has a subscription.
Holding ==
    /\ \A e \in Entries, h \in Holders : h \in entry[e].holders <=> held[h] = e
    /\ \A h \in subscribed : held[h] # None

\* An entry knows that its client is up.
UpIsConnected ==
    \A e \in Entries :
      entry[e].client # None /\ client[entry[e].client].phase = "up" => entry[e].connected

\* The entry in the map is marked as closing only while a re-dial of it is under way.
ClosingIsRedialled ==
    current # None /\ entry[current].closing => \E r \in redials : r.of = current

(***************************************************************************)
(* The inductive invariant.  The handlers of a client compare it with the  *)
(* entry's, so what they do to the entry is right because no client is     *)
(* shared; the close event is ignored under closing, which is right        *)
(* because a re-dial follows.                                              *)
(***************************************************************************)
Support == TypeOK /\ Owned /\ CurrentKnown /\ Holding /\ UpIsConnected /\ ClosingIsRedialled
IInv == Support /\ DialledAsSaved /\ SubscriptionsTravel /\ NeverStranded

\* What is said of an entry and its client.
Links == Owned /\ UpIsConnected /\ DialledAsSaved /\ SubscriptionsTravel

-----------------------------------------------------------------------------
(* What the steps do to an entry and its client *)

\* The records the model starts from and updates have their types.
LEMMA Typed ==
    /\ NoEntry \in EntryType /\ NoClient \in ClientType
    /\ \A ph \in Live \union {"ending", "closed"}, e \in Entries \union {None} :
         [NoClient EXCEPT !.phase = ph, !.of = e] \in ClientType
    /\ \A params \in Params, h \in Holders : [params |-> params, will |-> Will(h)] \in Packets
<1>1. NoEntry \in EntryType
    BY DEF NoEntry, EntryType
<1>2. NoClient \in ClientType
    BY DEF NoClient, ClientType
<1>3. \A ph \in Live \union {"ending", "closed"}, e \in Entries \union {None} :
         [NoClient EXCEPT !.phase = ph, !.of = e] \in ClientType
    BY <1>2 DEF ClientType
<1>4. \A params \in Params, h \in Holders : [params |-> params, will |-> Will(h)] \in Packets
    BY DEF Will, Packets
<1> QED
    BY <1>1, <1>2, <1>3, <1>4

\* No packet is the absent one.
LEMMA NoPacket == ASSUME NEW packet \in Packets PROVE packet # None
BY NoneAssumption

\* dial() gives the entry a client no entry had, and touches no other entry's.
LEMMA DialEffect ==
    ASSUME Support, NEW e \in Entries, NEW ent \in EntryType,
           ent.client = entry[e].client, Dial(e, ent)
    PROVE  \E c \in Clients :
             /\ entry' = [entry EXCEPT ![e] = [ent EXCEPT !.client = c]]
             /\ client' \in [Clients -> ClientType]
             /\ client'[c] = [phase |-> "dialling", of |-> e, sent |-> ent.packet, subs |-> {}]
             /\ \A x \in Entries : entry[x].client # c
             /\ \A d \in Clients : d # c /\ d # entry[e].client => client'[d] = client[d]
             /\ \A d \in Clients : d # c => \/ client'[d].phase = "closed"
                                            \/ /\ client'[d].phase = client[d].phase
                                               /\ client'[d].of = client[d].of
<1> DEFINE c == CHOOSE f \in Free : TRUE
           new == [phase |-> "dialling", of |-> e, sent |-> ent.packet, subs |-> {}]
<1>1. c \in Free
    <2>1. PICK f \in Free : TRUE
        BY DEF Dial
    <2> QED
        BY <2>1
<1>2. c \in Clients /\ \A x \in Entries : entry[x].client # c
    BY <1>1 DEF Free
<1>3. /\ entry' = [entry EXCEPT ![e] = [ent EXCEPT !.client = c]]
      /\ client' = [d \in Clients |->
                      IF d = c THEN new
                      ELSE IF d # ent.client THEN client[d]
                      ELSE IF client[d].phase = "closed" THEN NoClient
                      ELSE LetGo(d, client[d].phase)]
    BY DEF Dial
<1> HIDE DEF c
<1>4. new \in ClientType
    BY DEF ClientType, EntryType, Live
<1> HIDE DEF new
<1>5. client \in [Clients -> ClientType]
    BY DEF Support, TypeOK
<1>6. \A d \in Clients : LetGo(d, client[d].phase) \in ClientType
    <2> TAKE d \in Clients
    <2>1. client[d].phase \in Live \union {"ending", "closed"} /\ client[d].of \in Entries \union {None}
        BY <1>5 DEF ClientType
    <2> QED
        BY <2>1, Typed DEF LetGo
<1>7. client' \in [Clients -> ClientType]
    BY <1>3, <1>4, <1>5, <1>6, Typed
<1>8. client'[c] = new
    BY <1>2, <1>3
<1>9. \A d \in Clients : d # c /\ d # entry[e].client => client'[d] = client[d]
    BY <1>3
<1>10. \A d \in Clients : /\ LetGo(d, client[d].phase).phase = client[d].phase
                          /\ LetGo(d, client[d].phase).of = client[d].of
                          /\ NoClient.phase = "closed"
    BY DEF LetGo, NoClient
<1>11. \A d \in Clients : d # c => \/ client'[d].phase = "closed"
                                   \/ /\ client'[d].phase = client[d].phase
                                      /\ client'[d].of = client[d].of
    BY <1>3, <1>10
<1> QED
    BY <1>2, <1>3, <1>7, <1>8, <1>9, <1>11 DEF new

\* After dial() the entry's client carries the entry's packet.
LEMMA Dialled ==
    ASSUME Support, Links, NEW e \in Entries, NEW ent \in EntryType,
           ent.client = entry[e].client, Dial(e, ent), subscribed' = subscribed
    PROVE  /\ Links' /\ entry' \in [Entries -> EntryType] /\ client' \in [Clients -> ClientType]
           /\ \A x \in Entries : x # e => entry'[x] = entry[x]
           /\ entry'[e].packet = ent.packet /\ entry'[e].holders = ent.holders
           /\ entry'[e].closing = ent.closing
           /\ entry'[e].client # None /\ client'[entry'[e].client].phase = "dialling"
<1>1. PICK c \in Clients :
             /\ entry' = [entry EXCEPT ![e] = [ent EXCEPT !.client = c]]
             /\ client' \in [Clients -> ClientType]
             /\ client'[c] = [phase |-> "dialling", of |-> e, sent |-> ent.packet, subs |-> {}]
             /\ \A x \in Entries : entry[x].client # c
             /\ \A d \in Clients : d # c /\ d # entry[e].client => client'[d] = client[d]
             /\ \A d \in Clients : d # c => \/ client'[d].phase = "closed"
                                            \/ /\ client'[d].phase = client[d].phase
                                               /\ client'[d].of = client[d].of
    BY DialEffect
<1>2. entry \in [Entries -> EntryType] /\ c # None
    BY NoneAssumption DEF Support, TypeOK
<1>3. [ent EXCEPT !.client = c] \in EntryType
    BY DEF EntryType
<1>4. /\ entry' \in [Entries -> EntryType]
      /\ entry'[e].packet = ent.packet /\ entry'[e].holders = ent.holders
      /\ entry'[e].closing = ent.closing /\ entry'[e].client = c
    <2>1. entry'[e] = [ent EXCEPT !.client = c] /\ entry' \in [Entries -> EntryType]
        BY <1>1, <1>2, <1>3
    <2> QED
        BY <2>1 DEF EntryType
<1>5. \A x \in Entries : x # e => entry'[x] = entry[x]
    BY <1>1, <1>2
<1>6. client'[c].phase = "dialling" /\ client'[c].of = e /\ client'[c].sent = ent.packet
    BY <1>1
<1>7. \A x \in Entries : x # e /\ entry[x].client # None =>
        /\ entry[x].client \in Clients
        /\ client'[entry[x].client] = client[entry[x].client]
    <2> SUFFICES ASSUME NEW x \in Entries, x # e, entry[x].client # None
                 PROVE  /\ entry[x].client \in Clients
                        /\ client'[entry[x].client] = client[entry[x].client]
        OBVIOUS
    <2>1. entry[x].client \in Clients
        BY <1>2 DEF EntryType
    <2>2. entry[x].client # entry[e].client
        BY DEF Links, Owned
    <2> QED
        BY <1>1, <2>1, <2>2
<1>8. Owned'
    <2>1. \A x \in Entries : entry'[x].client # None =>
            client'[entry'[x].client].of = x /\ client'[entry'[x].client].phase # "ending"
        BY <1>4, <1>5, <1>6, <1>7 DEF Links, Owned
    <2>2. \A d \in Clients : client'[d].phase \in Live => client'[d].of \in Entries
        BY <1>1, <1>6 DEF Links, Owned, Live
    <2> QED
        BY <2>1, <2>2 DEF Owned
<1>9. UpIsConnected'
    BY <1>4, <1>5, <1>6, <1>7 DEF Links, UpIsConnected
<1>10. DialledAsSaved'
    BY <1>4, <1>5, <1>6, <1>7 DEF Links, DialledAsSaved
<1>11. SubscriptionsTravel'
    BY <1>4, <1>5, <1>6, <1>7 DEF Links, SubscriptionsTravel
<1> QED
    BY <1>1, <1>2, <1>4, <1>5, <1>6, <1>8, <1>9, <1>10, <1>11 DEF Links

\* An entry that lets go of its client leaves the others as they were.
LEMMA Ended ==
    ASSUME Support, Links, NEW e \in Entries, NEW ent \in EntryType, ent.client = None,
           entry' = [entry EXCEPT ![e] = ent], EndClient(entry[e].client),
           subscribed' \subseteq subscribed
    PROVE  Links' /\ client' \in [Clients -> ClientType]
<1>1. entry \in [Entries -> EntryType] /\ client \in [Clients -> ClientType]
    BY DEF Support, TypeOK
<1> DEFINE c == entry[e].client
<1>2. c \in Clients \union {None}
    BY <1>1 DEF EntryType
<1>3. entry'[e].client = None /\ \A x \in Entries : x # e => entry'[x] = entry[x]
    BY <1>1
<1>4. \A d \in Clients : d # c => client'[d] = client[d]
    BY <1>1, <1>2 DEF EndClient
<1>5. c # None => client'[c] = LetGo(c, "ending")
    BY <1>1, <1>2 DEF EndClient
<1>6. c # None => LetGo(c, "ending") \in ClientType /\ LetGo(c, "ending").phase = "ending"
    <2> SUFFICES ASSUME c # None PROVE LetGo(c, "ending") \in ClientType /\ LetGo(c, "ending").phase = "ending"
        OBVIOUS
    <2>1. client[c].of \in Entries \union {None}
        BY <1>1, <1>2 DEF ClientType
    <2> QED
        BY <2>1, Typed DEF LetGo, NoClient
<1>7. client' \in [Clients -> ClientType]
    BY <1>1, <1>2, <1>6 DEF EndClient
<1>8. \A x \in Entries : x # e /\ entry[x].client # None =>
        entry[x].client \in Clients /\ entry[x].client # c
    <2>1. \A x \in Entries : entry[x].client # None => entry[x].client \in Clients
        BY <1>1 DEF EntryType
    <2> QED
        BY <2>1 DEF Links, Owned
<1> HIDE DEF c
<1>9. \A x \in Entries : x # e /\ entry[x].client # None =>
        client'[entry[x].client] = client[entry[x].client]
    BY <1>4, <1>8
<1>10. Owned'
    <2>1. \A x \in Entries : entry'[x].client # None =>
            client'[entry'[x].client].of = x /\ client'[entry'[x].client].phase # "ending"
        BY <1>3, <1>9 DEF Links, Owned
    <2>2. \A d \in Clients : client'[d].phase \in Live => client'[d].of \in Entries
        <3>1. \A d \in Clients : d = c => c # None
            BY NoneAssumption
        <3> QED
            BY <1>4, <1>5, <1>6, <3>1 DEF Links, Owned, Live
    <2> QED
        BY <2>1, <2>2 DEF Owned
<1>11. UpIsConnected'
    BY <1>3, <1>9 DEF Links, UpIsConnected
<1>12. DialledAsSaved'
    BY <1>3, <1>9 DEF Links, DialledAsSaved
<1>13. SubscriptionsTravel'
    BY <1>3, <1>9 DEF Links, SubscriptionsTravel
<1> QED
    BY <1>7, <1>10, <1>11, <1>12, <1>13 DEF Links

\* An entry may change its timer, its marks and the links without subscriptions.
LEMMA Untouched ==
    ASSUME Support, Links, NEW e \in Entries, NEW ent \in EntryType,
           ent.client = entry[e].client, ent.packet = entry[e].packet,
           ent.connected = entry[e].connected,
           entry' = [entry EXCEPT ![e] = ent], client' = client, subscribed' \subseteq subscribed,
           ent.holders \intersect subscribed \subseteq entry[e].holders
    PROVE  Links'
<1>1. entry \in [Entries -> EntryType]
    BY DEF Support, TypeOK
<1>2. entry'[e] = ent /\ \A x \in Entries : x # e => entry'[x] = entry[x]
    BY <1>1
<1>3. \A x \in Entries : /\ entry'[x].client = entry[x].client
                         /\ entry'[x].packet = entry[x].packet
                         /\ entry'[x].connected = entry[x].connected
                         /\ entry'[x].holders \intersect subscribed' \subseteq entry[x].holders \intersect subscribed
    BY <1>2
<1> QED
    BY <1>3 DEF Links, Owned, UpIsConnected, DialledAsSaved, SubscriptionsTravel

-----------------------------------------------------------------------------
(* The steps *)

\* acquire() on a row that no entry serves.
LEMMA AcquireFirstKeeps ==
    ASSUME IInv, NEW h \in Holders, NEW params \in Params, AcquireFirst(h, params)
    PROVE  IInv'
<1> DEFINE e == CHOOSE fresh \in Entries : entry[fresh] = NoEntry
           packet == [params |-> params, will |-> Will(h)]
           ent == [NoEntry EXCEPT !.packet = packet, !.holders = {h}]
<1>0. Support /\ Links /\ TypeOK /\ Holding
    BY DEF IInv, Links, Support
<1>1. e \in Entries /\ entry[e] = NoEntry
    <2>1. PICK x \in Entries : entry[x] = NoEntry
        BY DEF AcquireFirst
    <2> QED
        BY <2>1
<1>2. /\ held[h] = None /\ current = None /\ current' = e /\ held' = [held EXCEPT ![h] = e]
      /\ Dial(e, ent) /\ redials' = redials /\ edits' = edits /\ subscribed' = subscribed
    BY DEF AcquireFirst
<1> HIDE DEF e
<1>3. packet \in Packets /\ packet # None
    <2>1. packet \in Packets
        BY Typed
    <2>2. packet # None
        BY <2>1, NoPacket
    <2> QED
        BY <2>1, <2>2
<1> HIDE DEF packet
<1>4. /\ ent \in EntryType /\ ent.client = None /\ ent.packet = packet
      /\ ent.holders = {h} /\ ent.closing = FALSE /\ NoEntry.client = None /\ NoEntry.holders = {}
    BY <1>3 DEF NoEntry, EntryType
<1> HIDE DEF ent
<1>5. /\ Links' /\ entry' \in [Entries -> EntryType] /\ client' \in [Clients -> ClientType]
      /\ \A x \in Entries : x # e => entry'[x] = entry[x]
      /\ entry'[e].packet = ent.packet /\ entry'[e].holders = ent.holders
      /\ entry'[e].closing = ent.closing
      /\ entry'[e].client # None /\ client'[entry'[e].client].phase = "dialling"
    BY <1>0, <1>1, <1>2, <1>4, Dialled
<1>6. TypeOK'
    BY <1>0, <1>1, <1>2, <1>5 DEF TypeOK
<1>7. Holding'
    BY <1>0, <1>1, <1>2, <1>4, <1>5, NoneAssumption DEF TypeOK, Holding
<1>8. CurrentKnown' /\ ClosingIsRedialled' /\ NeverStranded'
    BY <1>1, <1>2, <1>3, <1>4, <1>5 DEF CurrentKnown, ClosingIsRedialled, NeverStranded, Live
<1> QED
    BY <1>5, <1>6, <1>7, <1>8 DEF IInv, Support, Links

\* The other half of redial() and the retry timer: the entry in the map is dialled, any other only
\* loses its mark.
LEMMA TimerKeeps ==
    ASSUME IInv, NEW e \in Entries, NEW ent \in EntryType,
           ent.client = entry[e].client, ent.packet = entry[e].packet,
           ent.connected = entry[e].connected, ent.holders = entry[e].holders,
           current = e /\ ent.closing => \E r \in redials' : r.of = e,
           redials' \subseteq redials, \A r \in redials : r.of # e => r \in redials',
           IF current = e THEN Dial(e, ent)
                          ELSE entry' = [entry EXCEPT ![e] = ent] /\ UNCHANGED client,
           UNCHANGED <<current, edits, held, subscribed>>
    PROVE  IInv'
<1>0. Support /\ Links /\ TypeOK /\ Holding
    BY DEF IInv, Links, Support
<1>1. CASE current = e
    <2>1. /\ Links' /\ entry' \in [Entries -> EntryType] /\ client' \in [Clients -> ClientType]
          /\ \A x \in Entries : x # e => entry'[x] = entry[x]
          /\ entry'[e].packet = ent.packet /\ entry'[e].holders = ent.holders
          /\ entry'[e].closing = ent.closing
          /\ entry'[e].client # None /\ client'[entry'[e].client].phase = "dialling"
        BY <1>0, <1>1, Dialled
    <2>2. TypeOK'
        BY <1>0, <2>1 DEF TypeOK
    <2>3. Holding'
        BY <1>0, <2>1 DEF Holding
    <2>4. CurrentKnown' /\ ClosingIsRedialled' /\ NeverStranded'
        BY <1>1, <2>1, NoneAssumption
        DEF IInv, Support, CurrentKnown, ClosingIsRedialled, NeverStranded, Live
    <2> QED
        BY <2>1, <2>2, <2>3, <2>4 DEF IInv, Support, Links
<1>2. CASE current # e
    <2>1. entry' = [entry EXCEPT ![e] = ent] /\ client' = client
        BY <1>2
    <2>2. Links'
        BY <1>0, <2>1, Untouched
    <2>3. TypeOK'
        BY <1>0, <2>1 DEF TypeOK
    <2>4. entry'[e] = ent /\ \A x \in Entries : x # e => entry'[x] = entry[x]
        BY <1>0, <2>1 DEF TypeOK
    <2>5. Holding'
        BY <1>0, <2>4 DEF Holding
    <2>6. CurrentKnown' /\ ClosingIsRedialled' /\ NeverStranded'
        BY <1>0, <1>2, <2>1, <2>4
        DEF TypeOK, IInv, Support, CurrentKnown, ClosingIsRedialled, NeverStranded
    <2> QED
        BY <2>2, <2>3, <2>5, <2>6 DEF IInv, Support, Links
<1> QED
    BY <1>1, <1>2

\* The rest of redial() and the timer of scheduleRetry().
LEMMA TimersKeep ==
    ASSUME IInv, \/ \E r \in redials : RedialResumes(r)
                 \/ \E e \in Entries : RetryFires(e)
    PROVE  IInv'
<1>0. TypeOK
    BY DEF IInv, Support
<1>1. ASSUME NEW r \in redials, RedialResumes(r) PROVE IInv'
    <2> DEFINE e == r.of
               ent == [entry[e] EXCEPT !.closing = FALSE]
    <2>1. e \in Entries
        BY <1>0 DEF TypeOK
    <2>2. ent \in EntryType /\ ent.client = entry[e].client /\ ent.packet = entry[e].packet
          /\ ent.connected = entry[e].connected /\ ent.holders = entry[e].holders
          /\ ent.closing = FALSE
        BY <1>0, <2>1 DEF TypeOK, EntryType
    <2>3. /\ redials' = redials \ {r}
          /\ IF current = e THEN Dial(e, ent)
                            ELSE entry' = [entry EXCEPT ![e] = ent] /\ UNCHANGED client
          /\ UNCHANGED <<current, edits, held, subscribed>>
        BY <1>1 DEF RedialResumes
    <2> HIDE DEF ent
    <2> QED
        BY <2>1, <2>2, <2>3, TimerKeeps
<1>2. ASSUME NEW e \in Entries, RetryFires(e) PROVE IInv'
    <2> DEFINE ent == [entry[e] EXCEPT !.retry = FALSE]
    <2>2. ent \in EntryType /\ ent.client = entry[e].client /\ ent.packet = entry[e].packet
          /\ ent.connected = entry[e].connected /\ ent.holders = entry[e].holders
          /\ ent.closing = entry[e].closing
        BY <1>0 DEF TypeOK, EntryType
    <2>3. /\ redials' = redials
          /\ IF current = e THEN Dial(e, ent)
                            ELSE entry' = [entry EXCEPT ![e] = ent] /\ UNCHANGED client
          /\ UNCHANGED <<current, edits, held, subscribed>>
        BY <1>2 DEF RetryFires
    <2>4. current = e /\ ent.closing => \E r \in redials' : r.of = e
        BY <2>2, <2>3, NoneAssumption DEF IInv, Support, ClosingIsRedialled
    <2> HIDE DEF ent
    <2> QED
        BY <2>2, <2>3, <2>4, TimerKeeps
<1> QED
    BY <1>1, <1>2

\* reopen(), for a link that joins or one that edits the row.
LEMMA ReopenKeeps ==
    ASSUME IInv, current # None, NEW ent \in EntryType,
           ent.client = entry[current].client, ent.packet = entry[current].packet,
           ent.connected = entry[current].connected, ent.closing = entry[current].closing,
           ent.retry = entry[current].retry,
           ent.holders \intersect subscribed \subseteq entry[current].holders,
           NEW params \in Params, NEW will \in Exports \union {None},
           Reopen(current, ent, params, will), UNCHANGED <<current, subscribed>>,
           held' \in [Holders -> Entries \union {None}],
           \A h \in Holders : h \in ent.holders <=> held'[h] = current,
           \A h \in Holders : held'[h] # current => held'[h] = held[h],
           \A h \in Holders : held'[h] = current => held[h] \in {None, current}
    PROVE  IInv'
<1> DEFINE e == current
           packet == [params |-> params, will |-> IF will = None THEN ent.packet.will ELSE will]
<1>0. Support /\ Links /\ TypeOK /\ Holding /\ e \in Entries
    BY DEF IInv, Links, Support, TypeOK
<1>1. ent.packet \in Packets
    BY DEF EntryType, IInv, Support, CurrentKnown
<1>2. packet \in Packets /\ packet # None
    <2>1. packet \in Packets
        BY <1>1 DEF Packets
    <2> QED
        BY <2>1, NoPacket
<1>3. CASE packet = ent.packet
    <2>1. /\ entry' = [entry EXCEPT ![e] = ent] /\ client' = client /\ redials' = redials
          /\ edits' = edits
        BY <1>3 DEF Reopen
    <2>2. Links'
        BY <1>0, <2>1, Untouched
    <2>3. TypeOK'
        BY <1>0, <2>1 DEF TypeOK
    <2>4. entry'[e] = ent /\ \A x \in Entries : x # e => entry'[x] = entry[x]
        BY <1>0, <2>1 DEF TypeOK
    <2>5. Holding'
        BY <1>0, <2>4, NoneAssumption DEF TypeOK, Holding
    <2>6. CurrentKnown' /\ ClosingIsRedialled' /\ NeverStranded'
        BY <1>0, <2>1, <2>4
        DEF IInv, Support, CurrentKnown, ClosingIsRedialled, NeverStranded
    <2> QED
        BY <2>2, <2>3, <2>5, <2>6 DEF IInv, Support, Links
<1>4. CASE packet # ent.packet
    <2> DEFINE new == [ent EXCEPT !.packet = packet]
               shut == [Discarded(new) EXCEPT !.closing = TRUE]
               r == [id |-> edits + 1, of |-> e, waits |-> new.client]
    <2>1. new \in EntryType /\ new.client = ent.client
        BY <1>2 DEF EntryType
    <2>2. /\ edits < MaxEdits /\ edits' = edits + 1 /\ redials' = redials \union {r}
          /\ EndClient(new.client) /\ entry' = [entry EXCEPT ![e] = shut]
        BY <1>4 DEF Reopen, Redial
    <2>3. /\ shut \in EntryType /\ shut.client = None /\ shut.packet = packet
          /\ shut.holders = ent.holders /\ shut.connected = FALSE
        BY <1>2 DEF EntryType, Discarded
    <2>4. r \in [id : 1..MaxEdits, of : Entries, waits : Clients \union {None}] /\ r.of = e
          /\ edits' \in 0..MaxEdits
        BY <1>0, <2>1, <2>2, NoneAssumption DEF TypeOK, EntryType
    <2> HIDE DEF new, shut, r, packet
    <2>5. Links' /\ client' \in [Clients -> ClientType]
        BY <1>0, <2>1, <2>2, <2>3, Ended
    <2>6. TypeOK'
        BY <1>0, <2>2, <2>3, <2>4, <2>5 DEF TypeOK
    <2>7. entry'[e] = shut /\ \A x \in Entries : x # e => entry'[x] = entry[x]
        BY <1>0, <2>2 DEF TypeOK
    <2>8. Holding'
        BY <1>0, <2>3, <2>7, NoneAssumption DEF TypeOK, Holding
    <2>9. CurrentKnown' /\ ClosingIsRedialled' /\ NeverStranded'
        BY <1>2, <2>2, <2>3, <2>4, <2>7 DEF CurrentKnown, ClosingIsRedialled, NeverStranded
    <2> QED
        BY <2>5, <2>6, <2>8, <2>9 DEF IInv, Support, Links
<1> QED
    BY <1>3, <1>4

\* acquire() on a row that is open, and the tier's update().
LEMMA JoinsKeep ==
    ASSUME IInv, \/ \E h \in Holders, params \in Params : AcquireOpen(h, params)
                 \/ \E params \in Params : Update(params)
    PROVE  IInv'
<1>0. TypeOK /\ Holding
    BY DEF IInv, Support
<1>1. ASSUME NEW h \in Holders, NEW params \in Params, AcquireOpen(h, params) PROVE IInv'
    <2> DEFINE ent == [entry[current] EXCEPT !.holders = @ \union {h}]
    <2>1. /\ held[h] = None /\ current # None /\ Reopen(current, ent, params, Will(h))
          /\ held' = [held EXCEPT ![h] = current] /\ UNCHANGED <<current, subscribed>>
        BY <1>1 DEF AcquireOpen
    <2>2. current \in Entries /\ Will(h) \in Exports \union {None}
        BY <1>0, <2>1 DEF TypeOK, Will
    <2>3. /\ ent \in EntryType /\ ent.client = entry[current].client
          /\ ent.packet = entry[current].packet /\ ent.connected = entry[current].connected
          /\ ent.closing = entry[current].closing /\ ent.retry = entry[current].retry
          /\ ent.holders = entry[current].holders \union {h}
        BY <1>0, <2>2 DEF TypeOK, EntryType
    <2> HIDE DEF ent
    <2>4. ent.holders \intersect subscribed \subseteq entry[current].holders
        BY <1>0, <2>1, <2>3 DEF Holding
    <2>5. /\ held' \in [Holders -> Entries \union {None}]
          /\ \A x \in Holders : x \in ent.holders <=> held'[x] = current
          /\ \A x \in Holders : held'[x] # current => held'[x] = held[x]
          /\ \A x \in Holders : held'[x] = current => held[x] \in {None, current}
        BY <1>0, <2>1, <2>2, <2>3 DEF TypeOK, Holding
    <2> QED
        BY <2>1, <2>2, <2>3, <2>4, <2>5, ReopenKeeps
<1>2. ASSUME NEW params \in Params, Update(params) PROVE IInv'
    <2>1. /\ current # None /\ Reopen(current, entry[current], params, None)
          /\ held' = held /\ UNCHANGED <<current, subscribed>>
        BY <1>2 DEF Update
    <2>2. current \in Entries /\ entry[current] \in EntryType
        BY <1>0, <2>1 DEF TypeOK
    <2>3. /\ held' \in [Holders -> Entries \union {None}]
          /\ \A x \in Holders : x \in entry[current].holders <=> held'[x] = current
        BY <1>0, <2>1, <2>2 DEF TypeOK, Holding
    <2> QED
        BY <2>1, <2>2, <2>3, ReopenKeeps
<1> QED
    BY <1>1, <1>2

\* A subscription is sent at once when the entry is connected, and then its client is the one up.
LEMMA SubscribeKeeps ==
    ASSUME IInv, NEW h \in Holders, Subscribe(h)
    PROVE  IInv'
<1> DEFINE x == held[h]
           ent == entry[x]
<1>0. TypeOK /\ Holding /\ Owned /\ Links
    BY DEF IInv, Support, Links
<1>1. /\ x # None /\ subscribed' = subscribed \union {h}
      /\ client' = IF ent.connected /\ ent.client # None
                   THEN [client EXCEPT ![ent.client].subs = @ \union {h}] ELSE client
      /\ UNCHANGED <<current, entry, redials, edits, held>>
    BY DEF Subscribe
<1>2. x \in Entries /\ entry \in [Entries -> EntryType] /\ client \in [Clients -> ClientType]
    BY <1>0, <1>1 DEF TypeOK
<1> HIDE DEF x
<1>3. ent \in EntryType /\ ent.client \in Clients \union {None}
    BY <1>2 DEF EntryType
<1> HIDE DEF ent
<1>4. \A c \in Clients : client[c] \in ClientType
    BY <1>2
<1>5. ASSUME ent.client # None, ent.connected
      PROVE  client' = [client EXCEPT ![ent.client] =
                          [client[ent.client] EXCEPT !.subs = client[ent.client].subs \union {h}]]
    BY <1>1, <1>5
<1>6. client' \in [Clients -> ClientType]
    <2>1. \A r \in ClientType : [r EXCEPT !.subs = r.subs \union {h}] \in ClientType
        BY DEF ClientType
    <2>2. CASE ent.client # None /\ ent.connected
        BY <1>2, <1>3, <1>5, <2>1, <2>2
    <2> QED
        BY <1>1, <1>2, <2>2
<1>7. \A c \in Clients : /\ client'[c].phase = client[c].phase /\ client'[c].of = client[c].of
                         /\ client'[c].sent = client[c].sent
                         /\ client[c].subs \subseteq client'[c].subs
    <2>1. \A r \in ClientType : LET q == [r EXCEPT !.subs = r.subs \union {h}]
                                IN  q.phase = r.phase /\ q.of = r.of /\ q.sent = r.sent
                                    /\ r.subs \subseteq q.subs
        BY DEF ClientType
    <2>2. CASE ent.client # None /\ ent.connected
        BY <1>2, <1>3, <1>5, <2>1, <2>2
    <2> QED
        BY <1>1, <1>2, <2>2
<1>8. ent.client # None /\ ent.connected => h \in client'[ent.client].subs
    <2>1. \A r \in ClientType : h \in [r EXCEPT !.subs = r.subs \union {h}].subs
        BY DEF ClientType
    <2> QED
        BY <1>2, <1>3, <1>5, <2>1
<1>9. \A e \in Entries : entry[e].client # None => entry[e].client \in Clients
    BY <1>2 DEF EntryType
<1>10. TypeOK'
    BY <1>0, <1>1, <1>6 DEF TypeOK
<1>11. Owned' /\ UpIsConnected' /\ DialledAsSaved'
    BY <1>0, <1>1, <1>7, <1>9 DEF Links, Owned, UpIsConnected, DialledAsSaved
<1>12. SubscriptionsTravel'
    <2> SUFFICES ASSUME NEW e \in Entries, entry[e].client # None,
                        client'[entry[e].client].phase = "up",
                        NEW k \in entry[e].holders \intersect subscribed'
                 PROVE  k \in client'[entry[e].client].subs
        BY <1>1 DEF SubscriptionsTravel
    <2>1. entry[e].client \in Clients /\ client[entry[e].client].phase = "up"
        BY <1>7, <1>9
    <2>2. CASE k \in subscribed
        BY <1>0, <1>7, <2>1, <2>2 DEF Links, SubscriptionsTravel
    <2>3. CASE k = h
        <3>1. held[h] = e
            BY <1>0, <2>3 DEF Holding
        <3>2. e = x /\ entry[e].connected
            BY <1>0, <2>1, <3>1 DEF x, Links, UpIsConnected
        <3> QED
            BY <1>8, <2>3, <3>2 DEF ent
    <2> QED
        BY <1>1, <2>2, <2>3
<1>13. Holding'
    BY <1>0, <1>1 DEF Holding, x
<1>14. CurrentKnown' /\ ClosingIsRedialled'
    BY <1>1 DEF IInv, Support, CurrentKnown, ClosingIsRedialled
<1>15. NeverStranded'
    BY <1>0, <1>1, <1>7, <1>9 DEF TypeOK, IInv, NeverStranded
<1> QED
    BY <1>10, <1>11, <1>12, <1>13, <1>14, <1>15 DEF IInv, Support

\* closeEntry() leaves the map empty.
LEMMA CloseKeeps ==
    ASSUME IInv, current # None, NEW ent \in EntryType, ent.client = entry[current].client,
           CloseEntry(current, ent), UNCHANGED <<redials, edits>>, subscribed' \subseteq subscribed,
           held' \in [Holders -> Entries \union {None}],
           \A h \in Holders : h \in ent.holders <=> held'[h] = current,
           \A h \in Holders, x \in Entries : x # current => (held'[h] = x <=> held[h] = x),
           \A h \in subscribed' : held'[h] # None
    PROVE  IInv'
<1> DEFINE e == current
           shut == [Discarded(ent) EXCEPT !.closing = TRUE, !.retry = FALSE]
<1>0. Support /\ Links /\ TypeOK /\ Holding /\ e \in Entries
    BY DEF IInv, Links, Support, TypeOK
<1>1. /\ current' = None /\ EndClient(ent.client) /\ entry' = [entry EXCEPT ![e] = shut]
    BY DEF CloseEntry
<1>2. shut \in EntryType /\ shut.client = None /\ shut.holders = ent.holders
    BY DEF EntryType, Discarded
<1> HIDE DEF shut
<1>3. Links' /\ client' \in [Clients -> ClientType]
    BY <1>0, <1>1, <1>2, Ended
<1>4. TypeOK'
    BY <1>0, <1>1, <1>2, <1>3 DEF TypeOK
<1>5. entry'[e] = shut /\ \A x \in Entries : x # e => entry'[x] = entry[x]
    BY <1>0, <1>1 DEF TypeOK
<1>6. Holding'
    BY <1>0, <1>2, <1>5 DEF Holding
<1>7. CurrentKnown' /\ ClosingIsRedialled' /\ NeverStranded'
    BY <1>1 DEF CurrentKnown, ClosingIsRedialled, NeverStranded
<1> QED
    BY <1>3, <1>4, <1>6, <1>7 DEF IInv, Support, Links

\* A link's release() and the pool's close().
LEMMA LeavesKeep ==
    ASSUME IInv, (\E h \in Holders : Release(h)) \/ ClosePool
    PROVE  IInv'
<1>0. Support /\ Links /\ TypeOK /\ Holding
    BY DEF IInv, Links, Support
<1>1. ASSUME NEW h \in Holders, Release(h) PROVE IInv'
    <2> DEFINE e == held[h]
               ent == [entry[e] EXCEPT !.holders = @ \ {h}]
    <2>1. /\ e # None /\ held' = [held EXCEPT ![h] = None] /\ subscribed' = subscribed \ {h}
          /\ UNCHANGED <<redials, edits>>
          /\ IF ent.holders = {} /\ current = e
             THEN CloseEntry(e, ent)
             ELSE entry' = [entry EXCEPT ![e] = ent] /\ UNCHANGED <<current, client>>
        BY <1>1 DEF Release
    <2>2. e \in Entries
        BY <1>0, <2>1 DEF TypeOK
    <2>3. /\ ent \in EntryType /\ ent.client = entry[e].client /\ ent.packet = entry[e].packet
          /\ ent.connected = entry[e].connected /\ ent.holders = entry[e].holders \ {h}
          /\ ent.closing = entry[e].closing /\ ent.retry = entry[e].retry
        BY <1>0, <2>2 DEF TypeOK, EntryType
    <2>4. held' \in [Holders -> Entries \union {None}]
        BY <1>0, <2>1 DEF TypeOK
    <2>5. held'[h] = None /\ \A k \in Holders : k # h => held'[k] = held[k]
        BY <1>0, <2>1 DEF TypeOK
    <2> HIDE DEF ent
    <2>6. /\ \A k \in Holders : k \in ent.holders <=> held'[k] = e
          /\ \A k \in Holders, x \in Entries : x # e => (held'[k] = x <=> held[k] = x)
          /\ \A k \in subscribed' : held'[k] # None
        BY <1>0, <2>1, <2>2, <2>3, <2>5, NoneAssumption DEF TypeOK, Holding
    <2>7. CASE ent.holders = {} /\ current = e
        BY <2>1, <2>2, <2>3, <2>4, <2>6, <2>7, CloseKeeps
    <2>8. CASE ~(ent.holders = {} /\ current = e)
        <3>1. entry' = [entry EXCEPT ![e] = ent] /\ current' = current /\ client' = client
            BY <2>1, <2>8
        <3>2. Links'
            BY <1>0, <2>1, <2>2, <2>3, <3>1, Untouched
        <3>3. TypeOK'
            BY <1>0, <2>1, <2>3, <2>4, <3>1 DEF TypeOK
        <3>4. entry'[e] = ent /\ \A x \in Entries : x # e => entry'[x] = entry[x]
            BY <1>0, <2>2, <3>1 DEF TypeOK
        <3>5. Holding'
            BY <1>0, <2>2, <2>6, <3>4 DEF Holding
        <3>6. \A x \in Entries : /\ entry'[x].client = entry[x].client
                                 /\ entry'[x].packet = entry[x].packet
                                 /\ entry'[x].closing = entry[x].closing
                                 /\ entry'[x].retry = entry[x].retry
            BY <2>3, <3>4
        <3>7. CurrentKnown' /\ ClosingIsRedialled' /\ NeverStranded'
            BY <1>0, <2>1, <3>1, <3>6
            DEF TypeOK, IInv, Support, CurrentKnown, ClosingIsRedialled, NeverStranded
        <3> QED
            BY <3>2, <3>3, <3>5, <3>7 DEF IInv, Support, Links
    <2> QED
        BY <2>7, <2>8
<1>2. ASSUME ClosePool PROVE IInv'
    <2>1. /\ current # None /\ CloseEntry(current, entry[current])
          /\ UNCHANGED <<redials, edits, held, subscribed>>
        BY <1>2 DEF ClosePool
    <2>2. current \in Entries /\ entry[current] \in EntryType
          /\ held' \in [Holders -> Entries \union {None}]
        BY <1>0, <2>1 DEF TypeOK
    <2>3. \A k \in Holders : k \in entry[current].holders <=> held'[k] = current
        BY <1>0, <2>1, <2>2 DEF Holding
    <2>4. \A k \in subscribed' : held'[k] # None
        BY <1>0, <2>1 DEF Holding
    <2> QED
        BY <2>1, <2>2, <2>3, <2>4, CloseKeeps
<1> QED
    BY <1>1, <1>2

\* A client's "connect" event: it subscribes what the entry's links registered before.
LEMMA ConnectKeeps ==
    ASSUME IInv, NEW c \in Clients, Connect(c)
    PROVE  IInv'
<1> DEFINE e == client[c].of
<1>0. TypeOK /\ Holding /\ Owned /\ Links
    BY DEF IInv, Support, Links
<1>1. /\ client[c].phase = "dialling" /\ UNCHANGED <<current, redials, edits, held, subscribed>>
      /\ IF entry[e].client = c
         THEN /\ entry' = [entry EXCEPT ![e].connected = TRUE]
              /\ client' = [client EXCEPT ![c].phase = "up",
                                          ![c].subs = @ \union (entry[e].holders \intersect subscribed)]
         ELSE client' = [client EXCEPT ![c].phase = "up"] /\ UNCHANGED entry
    BY DEF Connect
<1>2. e \in Entries /\ entry \in [Entries -> EntryType] /\ client \in [Clients -> ClientType]
      /\ None \notin Clients
    BY <1>0, <1>1, NoneAssumption DEF TypeOK, Owned, Live
<1>3. \A x \in Entries : entry[x].client # None => entry[x].client \in Clients
    BY <1>2 DEF EntryType
<1>4. /\ entry' \in [Entries -> EntryType]
      /\ \A x \in Entries : /\ entry'[x].client = entry[x].client
                            /\ entry'[x].packet = entry[x].packet
                            /\ entry'[x].holders = entry[x].holders
                            /\ entry'[x].closing = entry[x].closing
                            /\ entry'[x].retry = entry[x].retry
                            /\ entry[x].connected => entry'[x].connected
                            /\ entry[x].client = c => entry'[x].connected
    <2> DEFINE ent == [entry[e] EXCEPT !.connected = TRUE]
    <2>1. /\ ent \in EntryType /\ ent.client = entry[e].client /\ ent.packet = entry[e].packet
          /\ ent.holders = entry[e].holders /\ ent.closing = entry[e].closing
          /\ ent.retry = entry[e].retry /\ ent.connected
        BY <1>2 DEF EntryType
    <2>2. entry' = [entry EXCEPT ![e] = ent] \/ (entry' = entry /\ entry[e].client # c)
        BY <1>1
    <2> HIDE DEF ent
    <2>3. \A x \in Entries : entry[x].client = c => x = e
        BY <1>0, <1>2 DEF Owned
    <2>4. CASE entry' = [entry EXCEPT ![e] = ent]
        <3>1. entry'[e] = ent /\ \A x \in Entries : x # e => entry'[x] = entry[x]
            BY <1>2, <2>4
        <3>2. entry' \in [Entries -> EntryType]
            BY <1>2, <2>1, <2>4
        <3> QED
            BY <2>1, <2>3, <3>1, <3>2
    <2> QED
        BY <1>2, <2>2, <2>3, <2>4
<1>5. /\ client' \in [Clients -> ClientType]
      /\ \A d \in Clients : d # c => client'[d] = client[d]
      /\ client'[c].phase = "up" /\ client'[c].of = e /\ client'[c].sent = client[c].sent
      /\ entry[e].client = c => entry[e].holders \intersect subscribed \subseteq client'[c].subs
    <2> DEFINE new == IF entry[e].client = c
                      THEN [client[c] EXCEPT !.phase = "up",
                              !.subs = client[c].subs \union (entry[e].holders \intersect subscribed)]
                      ELSE [client[c] EXCEPT !.phase = "up"]
    <2>1. client[c] \in ClientType /\ subscribed \subseteq Holders
        BY <1>0, <1>2 DEF TypeOK
    <2>2. client[c].subs \union (entry[e].holders \intersect subscribed) \in SUBSET Holders
        BY <2>1 DEF ClientType
    <2>3. \A r \in ClientType, S \in SUBSET Holders :
            LET q == [r EXCEPT !.phase = "up", !.subs = S]
                p == [r EXCEPT !.phase = "up"]
            IN  /\ q \in ClientType /\ q.phase = "up" /\ q.of = r.of /\ q.sent = r.sent /\ q.subs = S
                /\ p \in ClientType /\ p.phase = "up" /\ p.of = r.of /\ p.sent = r.sent
        BY DEF ClientType, Live
    <2>4. /\ new \in ClientType /\ new.phase = "up" /\ new.of = e /\ new.sent = client[c].sent
          /\ entry[e].client = c => entry[e].holders \intersect subscribed \subseteq new.subs
        BY <2>1, <2>2, <2>3
    <2>5. client' = [client EXCEPT ![c] = new]
        BY <1>1, <1>2
    <2> HIDE DEF new
    <2> QED
        BY <1>2, <2>4, <2>5
<1> HIDE DEF e
<1>6. TypeOK'
    BY <1>0, <1>1, <1>4, <1>5 DEF TypeOK
<1>7. Owned'
    <2>1. \A d \in Clients : client'[d].phase \in Live => client'[d].of \in Entries
        BY <1>0, <1>2, <1>5 DEF Owned
    <2>2. \A x \in Entries : entry'[x].client # None =>
            client'[entry'[x].client].of = x /\ client'[entry'[x].client].phase # "ending"
        BY <1>0, <1>3, <1>4, <1>5 DEF Owned, e
    <2> QED
        BY <2>1, <2>2 DEF Owned
<1>8. UpIsConnected' /\ DialledAsSaved'
    <2>1. \A x \in Entries : entry'[x].client # None /\ client'[entry'[x].client].phase = "up"
            => entry'[x].connected
        BY <1>0, <1>3, <1>4, <1>5 DEF Links, UpIsConnected
    <2>2. DialledAsSaved'
        BY <1>0, <1>3, <1>4, <1>5 DEF Links, DialledAsSaved
    <2> QED
        BY <2>1, <2>2 DEF UpIsConnected
<1>9. SubscriptionsTravel'
    <2> SUFFICES ASSUME NEW x \in Entries, entry'[x].client # None,
                        client'[entry'[x].client].phase = "up"
                 PROVE  entry'[x].holders \intersect subscribed' \subseteq client'[entry'[x].client].subs
        BY DEF SubscriptionsTravel
    <2>1. CASE entry[x].client = c
        <3>1. x = e
            BY <1>0, <1>2, <2>1 DEF Owned, e
        <3> QED
            BY <1>1, <1>4, <1>5, <2>1, <3>1
    <2>2. CASE entry[x].client # c
        <3>1. client'[entry[x].client] = client[entry[x].client]
            BY <1>3, <1>4, <1>5, <2>2
        <3> QED
            BY <1>0, <1>1, <1>4, <3>1 DEF Links, SubscriptionsTravel
    <2> QED
        BY <2>1, <2>2
<1>10. Holding'
    BY <1>0, <1>1, <1>4 DEF Holding
<1>11. CurrentKnown' /\ ClosingIsRedialled'
    BY <1>0, <1>1, <1>4 DEF TypeOK, IInv, Support, CurrentKnown, ClosingIsRedialled
<1>12. NeverStranded'
    BY <1>0, <1>1, <1>3, <1>4, <1>5 DEF TypeOK, IInv, NeverStranded, Live
<1> QED
    BY <1>6, <1>7, <1>8, <1>9, <1>10, <1>11, <1>12 DEF IInv, Support

\* A client that is neither being ended for a re-dial nor held by an entry is forgotten without trace.
LEMMA ForgetKeeps ==
    ASSUME IInv, NEW c \in Clients, \A x \in Entries : entry[x].client # c,
           client' = [client EXCEPT ![c] = NoClient],
           UNCHANGED <<current, entry, redials, edits, held, subscribed>>
    PROVE  IInv'
<1>0. TypeOK /\ Holding /\ Owned /\ Links
    BY DEF IInv, Support, Links
<1>1. entry \in [Entries -> EntryType] /\ client \in [Clients -> ClientType]
    BY <1>0 DEF TypeOK
<1>2. \A x \in Entries : entry[x].client # None =>
        entry[x].client \in Clients /\ client'[entry[x].client] = client[entry[x].client]
    BY <1>1 DEF EntryType
<1>3. client'[c] = NoClient /\ NoClient.phase \notin Live
      /\ \A d \in Clients : d # c => client'[d] = client[d]
    BY <1>1 DEF NoClient, Live
<1>4. TypeOK'
    BY <1>0, <1>1, Typed DEF TypeOK
<1>5. Owned'
    BY <1>0, <1>2, <1>3 DEF Owned
<1>6. UpIsConnected' /\ DialledAsSaved' /\ SubscriptionsTravel'
    BY <1>0, <1>2 DEF Links, UpIsConnected, DialledAsSaved, SubscriptionsTravel
<1>7. Holding' /\ CurrentKnown' /\ ClosingIsRedialled'
    BY <1>0 DEF Holding, IInv, Support, CurrentKnown, ClosingIsRedialled
<1>8. NeverStranded'
    BY <1>0, <1>2 DEF TypeOK, IInv, NeverStranded
<1> QED
    BY <1>4, <1>5, <1>6, <1>7, <1>8 DEF IInv, Support

\* A client's "close" event: the entry arms a retry, or a re-dial is under way already.
LEMMA LostKeeps ==
    ASSUME IInv, NEW c \in Clients, Lost(c)
    PROVE  IInv'
<1> DEFINE e == client[c].of
<1>0. TypeOK /\ Holding /\ Owned /\ Links
    BY DEF IInv, Support, Links
<1>1. /\ client[c].phase \in Live /\ UNCHANGED <<current, redials, edits, held, subscribed>>
      /\ IF entry[e].client = c
         THEN /\ client' = [client EXCEPT ![c].phase = "closed"]
              /\ entry' = IF entry[e].closing THEN entry
                          ELSE [entry EXCEPT ![e].connected = FALSE, ![e].retry = TRUE]
         ELSE client' = [client EXCEPT ![c] = NoClient] /\ UNCHANGED entry
    BY DEF Lost
<1>2. e \in Entries /\ entry \in [Entries -> EntryType] /\ client \in [Clients -> ClientType]
      /\ None \notin Clients
    BY <1>0, <1>1, NoneAssumption DEF TypeOK, Owned
<1>3. CASE entry[e].client # c
    <2>1. \A x \in Entries : entry[x].client # c
        BY <1>0, <1>2, <1>3 DEF Owned
    <2> QED
        BY <1>1, <1>3, <2>1, ForgetKeeps
<1>4. CASE entry[e].client = c
    <2>1. \A x \in Entries : entry[x].client # None => entry[x].client \in Clients
        BY <1>2 DEF EntryType
    <2>2. /\ entry' \in [Entries -> EntryType]
          /\ \A x \in Entries : /\ entry'[x].client = entry[x].client
                                /\ entry'[x].packet = entry[x].packet
                                /\ entry'[x].holders = entry[x].holders
                                /\ entry'[x].closing = entry[x].closing
                                /\ entry[x].retry => entry'[x].retry
                                /\ x # e => entry'[x] = entry[x]
          /\ entry[e].closing \/ entry'[e].retry
        <3> DEFINE ent == [entry[e] EXCEPT !.connected = FALSE, !.retry = TRUE]
        <3>1. /\ ent \in EntryType /\ ent.client = entry[e].client /\ ent.packet = entry[e].packet
              /\ ent.holders = entry[e].holders /\ ent.closing = entry[e].closing /\ ent.retry
            BY <1>2 DEF EntryType
        <3>2. (entry[e].closing /\ entry' = entry) \/ entry' = [entry EXCEPT ![e] = ent]
            BY <1>1, <1>2, <1>4
        <3> HIDE DEF ent
        <3>3. CASE entry' = [entry EXCEPT ![e] = ent]
            <4>1. entry'[e] = ent /\ \A x \in Entries : x # e => entry'[x] = entry[x]
                BY <1>2, <3>3
            <4>2. entry' \in [Entries -> EntryType]
                BY <1>2, <3>1, <3>3
            <4> QED
                BY <3>1, <4>1, <4>2
        <3>4. CASE entry[e].closing /\ entry' = entry
            BY <1>2, <3>4
        <3> QED
            BY <3>2, <3>3, <3>4
    <2>3. /\ client' \in [Clients -> ClientType]
          /\ \A d \in Clients : d # c => client'[d] = client[d]
          /\ client'[c].phase = "closed" /\ client'[c].of = e /\ client'[c].sent = client[c].sent
        <3> DEFINE new == [client[c] EXCEPT !.phase = "closed"]
        <3>1. new \in ClientType /\ new.phase = "closed" /\ new.of = e /\ new.sent = client[c].sent
            BY <1>2 DEF ClientType
        <3>2. client' = [client EXCEPT ![c] = new]
            BY <1>1, <1>4
        <3> HIDE DEF new
        <3> QED
            BY <1>2, <3>1, <3>2
    <2> HIDE DEF e
    <2>4. \A x \in Entries : x # e => entry[x].client # c
        BY <1>0, <1>2 DEF Owned, e
    <2>5. TypeOK'
        BY <1>0, <1>1, <2>2, <2>3 DEF TypeOK
    <2>6. Owned'
        <3>1. \A d \in Clients : client'[d].phase \in Live => client'[d].of \in Entries
            BY <1>0, <1>2, <2>3 DEF Owned
        <3>2. \A x \in Entries : entry'[x].client # None =>
                client'[entry'[x].client].of = x /\ client'[entry'[x].client].phase # "ending"
            BY <1>0, <1>4, <2>1, <2>2, <2>3, <2>4 DEF Owned
        <3> QED
            BY <3>1, <3>2 DEF Owned
    <2>7. UpIsConnected' /\ DialledAsSaved' /\ SubscriptionsTravel'
        <3>1. \A x \in Entries : entry'[x].client # None /\ client'[entry'[x].client].phase = "up"
                => x # e /\ client'[entry'[x].client] = client[entry[x].client]
            BY <1>4, <2>1, <2>2, <2>3, <2>4
        <3>2. DialledAsSaved'
            BY <1>0, <1>4, <2>1, <2>2, <2>3, <2>4 DEF Links, DialledAsSaved
        <3> QED
            BY <1>0, <1>1, <2>2, <3>1, <3>2 DEF Links, UpIsConnected, SubscriptionsTravel
    <2>8. Holding'
        BY <1>0, <1>1, <2>2 DEF Holding
    <2>9. CurrentKnown' /\ ClosingIsRedialled'
        BY <1>0, <1>1, <2>2 DEF TypeOK, IInv, Support, CurrentKnown, ClosingIsRedialled
    <2>10. NeverStranded'
        <3>1. CASE current = e
            BY <1>1, <1>2, <2>2, <3>1, NoneAssumption
            DEF IInv, Support, ClosingIsRedialled, NeverStranded
        <3>2. CASE current # e
            BY <1>0, <1>1, <2>1, <2>2, <2>3, <2>4, <3>2 DEF TypeOK, IInv, NeverStranded
        <3> QED
            BY <3>1, <3>2
    <2> QED
        BY <2>5, <2>6, <2>7, <2>8, <2>9, <2>10 DEF IInv, Support
<1> QED
    BY <1>3, <1>4

\* The invariant holds of an empty pool and every step keeps it.
LEMMA Inductive == Spec => []IInv
<1>1. Init => IInv
    <2> SUFFICES ASSUME Init PROVE IInv
        OBVIOUS
    <2>1. NoEntry.client = None /\ NoEntry.holders = {} /\ NoClient.phase \notin Live
        BY DEF NoEntry, NoClient, Live
    <2>2. TypeOK
        <3>1. entry \in [Entries -> EntryType] /\ client \in [Clients -> ClientType]
            BY Typed DEF Init
        <3>2. held \in [Holders -> Entries \union {None}] /\ edits \in 0..MaxEdits
            BY NoneAssumption DEF Init
        <3> QED
            BY <3>1, <3>2 DEF Init, TypeOK
    <2>3. Owned /\ UpIsConnected /\ DialledAsSaved /\ SubscriptionsTravel
        BY <2>1 DEF Init, Owned, UpIsConnected, DialledAsSaved, SubscriptionsTravel
    <2>4. Holding
        BY <2>1, NoneAssumption DEF Init, Holding
    <2>5. CurrentKnown /\ ClosingIsRedialled /\ NeverStranded
        BY DEF Init, CurrentKnown, ClosingIsRedialled, NeverStranded
    <2> QED
        BY <2>2, <2>3, <2>4, <2>5 DEF IInv, Support
<1>2. IInv /\ [Next]_vars => IInv'
    <2> SUFFICES ASSUME IInv, [Next]_vars PROVE IInv'
        OBVIOUS
    <2>1. ASSUME NEW c \in Clients, EndDone(c) PROVE IInv'
        <3>1. \A x \in Entries : entry[x].client # c
            BY <2>1, NoneAssumption DEF EndDone, IInv, Support, Owned
        <3> QED
            BY <2>1, <3>1, ForgetKeeps DEF EndDone
    <2>2. CASE UNCHANGED vars
        BY <2>2 DEF vars, IInv, Support, TypeOK, Owned, CurrentKnown, Holding, UpIsConnected,
           ClosingIsRedialled, DialledAsSaved, SubscriptionsTravel, NeverStranded
    <2> QED
        BY <2>1, <2>2, AcquireFirstKeeps, JoinsKeep, SubscribeKeeps, LeavesKeep, TimersKeep,
           ConnectKeeps, LostKeeps DEF Next, HolderStep
<1> QED
    BY <1>1, <1>2, PTL DEF Spec

\* Entries, clients and pending re-dials keep their types.
THEOREM TypeCorrect == Spec => []TypeOK
BY Inductive, PTL DEF IInv, Support

(***************************************************************************)
(* The client of an entry carries the packet the entry was last given by   *)
(* acquire, update and redial: no order of edits, timers and endings       *)
(* leaves a row on its old broker.                                         *)
(***************************************************************************)
THEOREM RowsAreDialledAsSaved == Spec => []DialledAsSaved
BY Inductive, PTL DEF IInv

(***************************************************************************)
(* A client that is up has the subscription of every link that registered  *)
(* one: the connect handler and subscribe() leave no window between them.  *)
(***************************************************************************)
THEOREM SubscriptionsAreCarried == Spec => []SubscriptionsTravel
BY Inductive, PTL DEF IInv

(***************************************************************************)
(* The row in the map has a live client, an armed retry or a re-dial under *)
(* way: the close events handleClose ignores are answered by redial.       *)
(***************************************************************************)
THEOREM RowsAreNeverStranded == Spec => []NeverStranded
BY Inductive, PTL DEF IInv

(***************************************************************************)
(* dial() is reached only for the entry in the map: redial and the retry   *)
(* timer look it up again after their wait.                                *)
(***************************************************************************)
THEOREM OnlyTheMapIsDialled == Spec => DialsOnlyWhatIsHeld
<1> DEFINE Kept == \A c \in Clients :
              client[c].phase # "dialling" /\ client'[c].phase = "dialling"
                => client'[c].of = current'
<1>1. IInv /\ [Next]_vars => [Kept]_vars
    <2> SUFFICES ASSUME IInv, Next PROVE Kept
        BY DEF vars
    <2>0. /\ Support /\ TypeOK /\ entry \in [Entries -> EntryType]
          /\ client \in [Clients -> ClientType] /\ None \notin Clients
        BY NoneAssumption DEF IInv, Support, TypeOK
    <2>1. ASSUME NEW e \in Entries, NEW ent \in EntryType, ent.client = entry[e].client,
                 Dial(e, ent), current' = e
          PROVE  Kept
        <3>1. PICK c \in Clients :
                 /\ client'[c] = [phase |-> "dialling", of |-> e, sent |-> ent.packet, subs |-> {}]
                 /\ \A d \in Clients : d # c => client'[d].phase \in {"closed", client[d].phase}
            BY <2>0, <2>1, DialEffect
        <3> QED
            BY <2>1, <3>1
    <2>2. ASSUME NEW c \in Clients \union {None}, EndClient(c) PROVE Kept
        <3>1. LetGo(c, "ending").phase = "ending"
            BY DEF LetGo, NoClient
        <3>2. \A d \in Clients : client'[d] = client[d] \/ client'[d] = LetGo(c, "ending")
            BY <2>0, <2>2 DEF EndClient
        <3> QED
            BY <3>1, <3>2
    <2>3. ASSUME client' = client PROVE Kept
        BY <2>3
    <2>4. ASSUME NEW e \in Entries, NEW ent \in EntryType, NEW params, NEW will,
                 ent.client = entry[e].client, Reopen(e, ent, params, will)
          PROVE  Kept
        <3> DEFINE new == [ent EXCEPT !.packet =
                             [params |-> params, will |-> IF will = None THEN ent.packet.will ELSE will]]
        <3>1. client' = client \/ EndClient(new.client)
            BY <2>4 DEF Reopen, Redial
        <3>2. new.client = ent.client /\ ent.client \in Clients \union {None}
            BY DEF EntryType
        <3> QED
            BY <2>2, <2>3, <3>1, <3>2
    <2>5. ASSUME NEW h \in Holders, NEW params \in Params, AcquireFirst(h, params) PROVE Kept
        <3> DEFINE e == CHOOSE fresh \in Entries : entry[fresh] = NoEntry
                   ent == [NoEntry EXCEPT !.packet = [params |-> params, will |-> Will(h)],
                                          !.holders = {h}]
        <3>1. e \in Entries /\ entry[e] = NoEntry
            <4>1. PICK x \in Entries : entry[x] = NoEntry
                BY <2>5 DEF AcquireFirst
            <4> QED
                BY <4>1
        <3>2. current' = e /\ Dial(e, ent)
            BY <2>5 DEF AcquireFirst
        <3> HIDE DEF e
        <3>3. ent \in EntryType /\ ent.client = None /\ NoEntry.client = None
            <4>1. [params |-> params, will |-> Will(h)] \in Packets
                BY Typed
            <4> QED
                BY <4>1 DEF NoEntry, EntryType
        <3> HIDE DEF ent
        <3> QED
            BY <2>1, <3>1, <3>2, <3>3
    <2>6. ASSUME NEW h \in Holders, NEW params \in Params, AcquireOpen(h, params) PROVE Kept
        <3> DEFINE ent == [entry[current] EXCEPT !.holders = @ \union {h}]
        <3>1. current \in Entries /\ Reopen(current, ent, params, Will(h))
            BY <2>0, <2>6 DEF AcquireOpen, TypeOK
        <3>2. ent \in EntryType /\ ent.client = entry[current].client
            BY <2>0, <3>1 DEF EntryType
        <3> HIDE DEF ent
        <3> QED
            BY <2>4, <3>1, <3>2
    <2>7. ASSUME NEW params \in Params, Update(params) PROVE Kept
        <3>1. current \in Entries /\ Reopen(current, entry[current], params, None)
            BY <2>0, <2>7 DEF Update, TypeOK
        <3> QED
            BY <2>0, <2>4, <3>1
    <2>8. ASSUME NEW h \in Holders, Subscribe(h) PROVE Kept
        <3> DEFINE c == entry[held[h]].client
        <3>1. client' = client \/ (c # None /\ client' = [client EXCEPT ![c].subs = @ \union {h}])
            BY <2>8 DEF Subscribe
        <3>2. held[h] \in Entries
            BY <2>0, <2>8 DEF Subscribe, TypeOK
        <3>3. c \in Clients \union {None}
            BY <2>0, <3>2 DEF EntryType
        <3> HIDE DEF c
        <3>4. \A d \in Clients : client'[d].phase = client[d].phase
            BY <2>0, <3>1, <3>3 DEF ClientType
        <3> QED
            BY <3>4
    <2>9. ASSUME NEW h \in Holders, Release(h) PROVE Kept
        <3> DEFINE ent == [entry[held[h]] EXCEPT !.holders = @ \ {h}]
        <3>1. client' = client \/ EndClient(ent.client)
            BY <2>9 DEF Release, CloseEntry
        <3>2. held[h] \in Entries
            BY <2>0, <2>9 DEF Release, TypeOK
        <3>3. ent.client \in Clients \union {None}
            BY <2>0, <3>2 DEF EntryType
        <3> QED
            BY <2>2, <2>3, <3>1, <3>3
    <2>10. ASSUME ClosePool PROVE Kept
        <3>1. EndClient(entry[current].client) /\ current \in Entries
            BY <2>0, <2>10 DEF ClosePool, CloseEntry, TypeOK
        <3>2. entry[current].client \in Clients \union {None}
            BY <2>0, <3>1 DEF EntryType
        <3> QED
            BY <2>2, <3>1, <3>2
    <2>11. ASSUME NEW r \in redials, RedialResumes(r) PROVE Kept
        <3> DEFINE ent == [entry[r.of] EXCEPT !.closing = FALSE]
        <3>1. client' = client \/ (current' = r.of /\ Dial(r.of, ent))
            BY <2>11 DEF RedialResumes
        <3>2. r.of \in Entries
            BY <2>0 DEF TypeOK
        <3>3. ent \in EntryType /\ ent.client = entry[r.of].client
            BY <2>0, <3>2 DEF EntryType
        <3> HIDE DEF ent
        <3> QED
            BY <2>1, <2>3, <3>1, <3>2, <3>3
    <2>12. ASSUME NEW e \in Entries, RetryFires(e) PROVE Kept
        <3> DEFINE ent == [entry[e] EXCEPT !.retry = FALSE]
        <3>1. client' = client \/ (current' = e /\ Dial(e, ent))
            BY <2>12 DEF RetryFires
        <3>2. ent \in EntryType /\ ent.client = entry[e].client
            BY <2>0 DEF EntryType
        <3> HIDE DEF ent
        <3> QED
            BY <2>1, <2>3, <3>1, <3>2
    <2>13. ASSUME NEW c \in Clients, Connect(c) \/ Lost(c) \/ EndDone(c) PROVE Kept
        <3>1. NoClient.phase = "closed"
            BY DEF NoClient
        <3>2. \A d \in Clients : d # c => client'[d] = client[d]
            BY <2>0, <2>13 DEF Connect, Lost, EndDone
        <3>3. client'[c].phase # "dialling"
            <4>1. CASE Connect(c)
                <5>1. client'[c].phase = "up"
                    BY <2>0, <4>1 DEF Connect, ClientType
                <5> QED
                    BY <5>1
            <4>2. CASE Lost(c) \/ EndDone(c)
                <5>1. client'[c].phase = "closed"
                    BY <2>0, <3>1, <4>2 DEF Lost, EndDone, ClientType
                <5> QED
                    BY <5>1
            <4> QED
                BY <2>13, <4>1, <4>2
        <3> QED
            BY <3>2, <3>3
    <2> HIDE DEF Kept
    <2> QED
        BY <2>5, <2>6, <2>7, <2>8, <2>9, <2>10, <2>11, <2>12, <2>13 DEF Next, HolderStep
<1> QED
    BY <1>1, Inductive, PTL DEF Spec, DialsOnlyWhatIsHeld
=============================================================================
