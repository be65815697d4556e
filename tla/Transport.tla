----------------------------- MODULE Transport -----------------------------
(***************************************************************************)
(* The transport of every node (transport/src/transport.cpp): frames over  *)
(* links that several nodes share, a table of the nodes heard with the     *)
(* link and address each is reached by, sequence numbers that drop a       *)
(* repeated frame, keepalives that carry the sender's boot id, relaying    *)
(* between links, and expiry.                                              *)
(*                                                                         *)
(* Nodes share nothing but the frames they queue for each other, so a call *)
(* of poll() is not interleaved with another's: polling holds the node in  *)
(* it.  Time is counted in keepalive periods.                              *)
(* The links keep the order of frames; within a budget of disturbances a   *)
(* frame is lost, doubled or late, and nodes crash and boot.               *)
(***************************************************************************)
EXTENDS Integers, FiniteSets, Sequences, SequencesExt

CONSTANTS Phases,                  \* the nodes, in the order of their keepalive timers
          Links,                   \* the links, in the order nodes add them
          Attached,                \* [link -> the nodes on it]
          Broadcast,               \* BROADCAST_NODE
          MaxNodes, MaxHops,       \* MAX_NODES, MAX_HOPS
          Expiry,                  \* NODE_EXPIRY_US, in keepalive periods
          SeqCount,                \* sequence numbers are 0 .. SeqCount - 1 (2^16)
          Senders,                 \* the nodes whose application sends
          Unsteady,                \* the nodes that may crash
          MaxEvents                \* sends, crashes and disturbances together

Peers == Range(Phases)

ASSUME TransportAssumption ==
    /\ Phases \in Seq(Peers) /\ Links \in Seq(Range(Links)) \ {<<>>}
    /\ Attached \in [Range(Links) -> SUBSET Peers]
    /\ Broadcast \notin Peers /\ Senders \cup Unsteady \subseteq Peers
    /\ {MaxNodes, MaxHops, Expiry, MaxEvents} \subseteq Nat
    /\ SeqCount \in Nat \ {0}

VARIABLES
    table,         \* [node -> [node -> Transport::Node]]
    bootId,        \* [node -> m_bootId, 0 while it is off]
    bcastSeq,      \* [node -> m_broadcastSeq]
    polling,       \* the node inside poll(), or Nobody
    due,           \* nodes whose keepalive of this period is still to be sent
    queue,         \* [node -> [link -> frames waiting in AbsLink::receive()]]
    delivered,     \* history: <<node, payload>> handed to the application
    repeated,      \* history: a payload was handed over twice
    events         \* how many sends, crashes and disturbances there were

vars == <<table, bootId, bcastSeq, polling, due, queue, delivered, repeated, events>>

Unheard == -1
Nobody == Broadcast
NoNode == [known |-> FALSE, link |-> Links[1], via |-> Broadcast, age |-> 0, txSeq |-> 0,
           unicast |-> Unheard, broadcast |-> Unheard, boot |-> 0]
NewNode == [NoNode EXCEPT !.known = TRUE]

Alive == {n \in Peers : bootId[n] # 0}
KnownIn(t) == {m \in Peers : t[m].known}
LinksOf(n) == {l \in Range(Links) : n \in Attached[l]}
NextSeq(seq) == (seq + 1) % SeqCount

(* A send, a crash or a disturbance, of which there are MaxEvents. *)
Event == /\ polling = Nobody /\ events < MaxEvents
         /\ events' = events + 1

-----------------------------------------------------------------------------
(* AbsLink::send() and broadcast(): what leaves a node, one frame on a link *)
(* at most, and how it is queued at its receivers.                          *)
Leaves(n, l, to, f) == [by |-> n, on |-> l, to |-> to, frame |-> f]

Everywhere(n, links, f) == {Leaves(n, l, Broadcast, f) : l \in links}

Transmit(q, out) ==
    [m \in Peers |-> [l \in Range(Links) |->
        LET mine == {o \in out : /\ o.on = l /\ m \in Attached[l] \ {o.by}
                                 /\ o.to \in {m, Broadcast} /\ m \in Alive}
            sent == CHOOSE o \in mine : TRUE
        IN IF mine = {} THEN q[m][l] ELSE Append(q[m][l], [sent.frame EXCEPT !.by = sent.by])]]

Frame(n, d, seq, keepalive, payload) ==
    [by |-> n, src |-> n, dst |-> d, seq |-> seq, hops |-> 0,
     keepalive |-> keepalive, boot |-> bootId[n], payload |-> payload]

(* send(): a payload to a node of the table, or to everybody. *)
SendUnicast(n, d) ==
    /\ n \in Alive \cap Senders /\ d \in KnownIn(table[n]) /\ Event
    /\ LET t == table[n][d]
       IN queue' = Transmit(queue, {Leaves(n, t.link, t.via, Frame(n, d, t.txSeq, FALSE, events + 1))})
    /\ table' = [table EXCEPT ![n][d].txSeq = NextSeq(@)]
    /\ UNCHANGED <<bootId, bcastSeq, polling, due, delivered, repeated>>

SendBroadcast(n) ==
    /\ n \in Alive \cap Senders /\ Event
    /\ queue' = Transmit(queue, Everywhere(n, LinksOf(n), Frame(n, Broadcast, bcastSeq[n], FALSE, events + 1)))
    /\ bcastSeq' = [bcastSeq EXCEPT ![n] = NextSeq(@)]
    /\ UNCHANGED <<table, bootId, polling, due, delivered, repeated>>

-----------------------------------------------------------------------------
(* track(): the two streams of a sender; a frame that is only relayed is    *)
(* numbered in neither.                                                     *)
Stream(n, f) == IF f.dst = n THEN "unicast" ELSE IF f.dst = Broadcast THEN "broadcast" ELSE "none"

\* Mutant: a repeated frame is not recognised.
MutDuplicate(n, t, f) == FALSE

Duplicate(n, t, f) == Stream(n, f) # "none" /\ t[Stream(n, f)] = f.seq

Track(n, t, f) ==
    CASE Stream(n, f) = "unicast" -> [t EXCEPT !.unicast = f.seq]
      [] Stream(n, f) = "broadcast" -> [t EXCEPT !.broadcast = f.seq]
      [] OTHER -> t

(* learn() before the duplicate check, and after it. *)
Heard(t) == [(IF t.known THEN t ELSE NewNode) EXCEPT !.age = 0]

Learn(n, t, l, f) == [Track(n, Heard(t), f) EXCEPT !.link = l, !.via = f.by]

Full(t, f) == ~t[f.src].known /\ Cardinality(KnownIn(t)) >= MaxNodes

(* onBootId(): another incarnation of a node in the table starts over. *)

OnBootId(n, t, f) ==
    IF t.boot = 0 THEN [t EXCEPT !.boot = f.boot]
    ELSE IF t.boot = f.boot THEN t
    ELSE Track(n, [NewNode EXCEPT !.link = t.link, !.via = t.via, !.boot = f.boot], f)

(* The keepalive that answers a newcomer. *)
Welcome(n, t, f) == Leaves(n, t.link, t.via, Frame(n, f.src, t.txSeq, TRUE, 0))

(* relay() *)

\* Mutant: a frame is forwarded onto the link it came from too.
MutRelay(n, t, l, f) ==
    IF f.dst = n \/ f.hops >= MaxHops THEN {}
    ELSE IF f.dst = Broadcast THEN Everywhere(n, LinksOf(n), [f EXCEPT !.hops = @ + 1])
    ELSE IF ~t[f.dst].known THEN {}
    ELSE {Leaves(n, t[f.dst].link, t[f.dst].via, [f EXCEPT !.hops = @ + 1])}

Relay(n, t, l, f) ==
    IF f.dst = n \/ f.hops >= MaxHops THEN {}
    ELSE IF f.dst = Broadcast THEN Everywhere(n, LinksOf(n) \ {l}, [f EXCEPT !.hops = @ + 1])
    ELSE IF ~t[f.dst].known \/ t[f.dst].link = l THEN {}
    ELSE {Leaves(n, t[f.dst].link, t[f.dst].via, [f EXCEPT !.hops = @ + 1])}

(* deliver(): data addressed to this node or to everybody. *)
Delivers(n, f) == ~f.keepalive /\ f.dst \in {n, Broadcast}

(* onFrame(), for the frame poll() takes from the first link that has one: *)
(* dropped by a full table or as a duplicate ...                            *)
Idle(n) == \A l \in Range(Links) : queue[n][l] = <<>>
FirstWaiting(n, i) == queue[n][Links[i]] # <<>> /\ \A j \in 1 .. i - 1 : queue[n][Links[j]] = <<>>

DropFrame(n, i) ==
    LET l == Links[i]
        f == Head(queue[n][l])
    IN /\ n \in Alive /\ polling \in {n, Nobody} /\ FirstWaiting(n, i)
       /\ polling' = n
       /\ Full(table[n], f) \/ Duplicate(n, Heard(table[n][f.src]), f)
       /\ table' = [table EXCEPT ![n][f.src] = IF Full(table[n], f) THEN @ ELSE Heard(@)]
       /\ queue' = [queue EXCEPT ![n][l] = Tail(@)]
       /\ UNCHANGED <<bootId, bcastSeq, due, delivered, repeated, events>>

(* ... or learnt, answered if its sender is new, delivered and relayed. *)
OnFrame(n, i) ==
    LET l == Links[i]
        f == Head(queue[n][l])
        old == table[n][f.src]
        isNew == ~old.known
        learnt == Learn(n, old, l, f)
        booted == IF f.keepalive THEN OnBootId(n, learnt, f) ELSE learnt
        got == IF Delivers(n, f) THEN {<<n, f.payload>>} ELSE {}
    IN /\ n \in Alive /\ polling \in {n, Nobody} /\ FirstWaiting(n, i)
       /\ ~Full(table[n], f) /\ ~Duplicate(n, Heard(old), f)
       /\ polling' = n
       /\ table' = [table EXCEPT ![n][f.src] = IF isNew THEN [booted EXCEPT !.txSeq = NextSeq(@)] ELSE booted]
       /\ queue' = Transmit([queue EXCEPT ![n][l] = Tail(@)],
                            (IF isNew THEN {Welcome(n, booted, f)} ELSE {}) \cup Relay(n, table[n], l, f))
       /\ delivered' = delivered \cup got
       /\ repeated' = (repeated \/ got \cap delivered # {})
       /\ UNCHANGED <<bootId, bcastSeq, due, events>>

(* expire() *)
Expired(t) == [m \in Peers |-> IF t[m].known /\ t[m].age >= Expiry THEN NoNode ELSE t[m]]

(* The end of poll() while no keepalive is due. *)
EndPoll(n) ==
    /\ polling = n /\ Idle(n)
    /\ polling' = Nobody
    /\ table' = [table EXCEPT ![n] = Expired(@)]
    /\ UNCHANGED <<bootId, bcastSeq, due, queue, delivered, repeated, events>>

(* Nodes poll far more often than they send keepalives: frames still on     *)
(* their way then are late, which is a disturbance.                         *)
OnTime == IF \A n \in Peers : Idle(n) THEN UNCHANGED events ELSE Event

(* The poll() that finds the keepalive due: the timers keep their phases. *)
FirstDue == LET d == SelectSeq(Phases, LAMBDA m : m \in due) IN IF d = <<>> THEN Nobody ELSE d[1]

\* Mutant: the keepalive takes the number of the next broadcast without using it.
MutKeepalive(n) ==
    /\ polling = Nobody /\ n = FirstDue /\ Idle(n)
    /\ OnTime
    /\ table' = [table EXCEPT ![n] = Expired(@)]
    /\ due' = due \ {n}
    /\ queue' = Transmit(queue, Everywhere(n, LinksOf(n), Frame(n, Broadcast, bcastSeq[n], TRUE, 0)))
    /\ UNCHANGED <<bootId, bcastSeq, polling, delivered, repeated>>

Keepalive(n) ==
    /\ polling = Nobody /\ n = FirstDue /\ Idle(n)
    /\ OnTime
    /\ table' = [table EXCEPT ![n] = Expired(@)]
    /\ due' = due \ {n}
    /\ queue' = Transmit(queue, Everywhere(n, LinksOf(n), Frame(n, Broadcast, bcastSeq[n], TRUE, 0)))
    /\ bcastSeq' = [bcastSeq EXCEPT ![n] = NextSeq(@)]
    /\ UNCHANGED <<bootId, polling, delivered, repeated>>

-----------------------------------------------------------------------------
(* The last frame of a link is lost, or doubled by the medium. *)
Lose(n, l) ==
    /\ queue[n][l] # <<>>
    /\ Event
    /\ queue' = [queue EXCEPT ![n][l] = Front(@)]
    /\ UNCHANGED <<table, bootId, bcastSeq, polling, due, delivered, repeated>>

Double(n, l) ==
    /\ queue[n][l] # <<>>
    /\ Event
    /\ queue' = [queue EXCEPT ![n][l] = Append(@, Last(@))]
    /\ UNCHANGED <<table, bootId, bcastSeq, polling, due, delivered, repeated>>

(* A keepalive period passes: every node has sent its own. *)
Period ==
    /\ polling = Nobody /\ due = {}
    /\ OnTime
    /\ due' = Alive
    /\ table' = [n \in Peers |-> [m \in Peers |->
                    IF table[n][m].known /\ table[n][m].age < Expiry
                    THEN [table[n][m] EXCEPT !.age = @ + 1] ELSE table[n][m]]]
    /\ UNCHANGED <<bootId, bcastSeq, polling, queue, delivered, repeated>>

(* Power goes and comes back: the transport starts empty, with a boot id    *)
(* never used before.                                                       *)
Crash(n) ==
    /\ n \in Alive \cap Unsteady /\ Event
    /\ bootId' = [bootId EXCEPT ![n] = 0]
    /\ table' = [table EXCEPT ![n] = [m \in Peers |-> NoNode]]
    /\ queue' = [queue EXCEPT ![n] = [l \in Range(Links) |-> <<>>]]
    /\ due' = due \ {n}
    /\ UNCHANGED <<bcastSeq, polling, delivered, repeated>>

Boot(n) ==
    /\ n \notin Alive /\ polling = Nobody
    /\ bootId' = [bootId EXCEPT ![n] = events + 1]
    /\ bcastSeq' = [bcastSeq EXCEPT ![n] = 0]
    /\ due' = due \cup {n}
    /\ UNCHANGED <<table, polling, queue, delivered, repeated, events>>

Init ==
    /\ table = [n \in Peers |-> [m \in Peers |-> NoNode]]
    /\ bootId = [n \in Peers |-> 1]
    /\ bcastSeq = [n \in Peers |-> 0]
    /\ polling = Nobody /\ due = Peers
    /\ queue = [n \in Peers |-> [l \in Range(Links) |-> <<>>]]
    /\ delivered = {} /\ repeated = FALSE /\ events = 0

Poll(n) == \/ \E i \in DOMAIN Links : DropFrame(n, i) \/ OnFrame(n, i)
           \/ EndPoll(n) \/ Keepalive(n)

Next == \/ Period
        \/ \E n \in Peers : Poll(n) \/ SendBroadcast(n) \/ Boot(n) \/ Crash(n)
        \/ \E n, d \in Peers : SendUnicast(n, d)
        \/ \E n \in Peers : \E l \in Range(Links) : Lose(n, l) \/ Double(n, l)

Spec == Init /\ [][Next]_vars

(* Every node that runs polls for ever, and time passes. *)
FairSpec == Spec /\ WF_vars(Period) /\ \A n \in Peers : WF_vars(Poll(n))

-----------------------------------------------------------------------------
TypeOK ==
    /\ \A n, m \in Peers :
          /\ table[n][m].age \in 0 .. Expiry
          /\ {table[n][m].unicast, table[n][m].broadcast} \subseteq Unheard .. SeqCount - 1
          /\ table[n][m].txSeq \in 0 .. SeqCount - 1 /\ table[n][m].boot \in 0 .. MaxEvents + 1
    /\ bootId \in [Peers -> 0 .. MaxEvents + 1] /\ bcastSeq \in [Peers -> 0 .. SeqCount - 1]
    /\ due \subseteq Alive /\ repeated \in BOOLEAN

\* The nodes beyond l, seen from n: those on it, and those they reach over
\* other links.
Closed(n, l, S) ==
    /\ Attached[l] \ {n} \subseteq S
    /\ \A k \in Range(Links) \ {l} : Attached[k] \cap S # {} => Attached[k] \subseteq S
Beyond(n, l) == {m \in Peers : \A S \in SUBSET Peers : Closed(n, l, S) => m \in S}

\* The links form no loop: a serial line joins a drone to its one bridge, and
\* all others share the network.
ASSUME NoLoop == \A n \in Peers : \A l \in LinksOf(n) : n \notin Beyond(n, l)

\* Every route of a table leads towards its node, by that node itself on a
\* shared link or by a relay, whatever was relayed, lost or restarted (learn(),
\* relay()); no frame is ever offered to its own sender, and the table and the
\* hop count keep within their limits.
RoutesLead ==
    /\ TypeOK
    /\ \A n \in Peers :
          /\ Cardinality(KnownIn(table[n])) <= MaxNodes
          /\ \A m \in KnownIn(table[n]) :
                LET t == table[n][m]
                IN /\ n # m /\ n \in Attached[t.link] /\ m \in Beyond(n, t.link)
                   /\ t.via = (IF m \in Attached[t.link] THEN m ELSE t.via) /\ t.via # n
          /\ \A l \in Range(Links) : \A i \in DOMAIN queue[n][l] :
                queue[n][l][i].hops <= MaxHops /\ queue[n][l][i].src # n

\* A payload is handed to the application of a node at most once, whatever is
\* relayed, doubled by the medium or numbered again by a restarted sender
\* (track(), onBootId()).
DeliveredOnce == ~repeated

\* The nodes that run and that frames from n reach through nodes that run.
Reachable(n) ==
    LET Step(S) == S \cup UNION {Attached[l] \cap Alive : l \in {k \in Range(Links) : Attached[k] \cap S # {}}}
    IN Step(Step({n})) \ {n}

\* Whatever was lost, doubled or restarted, once nodes and links have settled
\* every node that runs knows exactly the others it can reach, each in its
\* present incarnation (onBootId(), expire(), the keepalives and their relay).
PresenceConverges ==
    <>[](\A n \in Alive : /\ KnownIn(table[n]) = Reachable(n)
                          /\ \A m \in Reachable(n) : table[n][m].boot = bootId[m])

-----------------------------------------------------------------------------
(* The inductive invariant (Network_proof).                                *)

SeqNumbers == 0 .. SeqCount - 1
Boots == 0 .. MaxEvents + 1

PeerEntries == [known : BOOLEAN, link : Range(Links), via : Peers \cup {Broadcast}, age : 0 .. Expiry,
                txSeq : SeqNumbers, unicast : SeqNumbers \cup {Unheard},
                broadcast : SeqNumbers \cup {Unheard}, boot : Boots]

Frames == [by : Peers, src : Peers, dst : Peers \cup {Broadcast}, seq : SeqNumbers, hops : 0 .. MaxHops,
           keepalive : BOOLEAN, boot : Boots, payload : 0 .. MaxEvents]

TransportTypeOK ==
    /\ table \in [Peers -> [Peers -> PeerEntries]]
    /\ bootId \in [Peers -> Boots] /\ bcastSeq \in [Peers -> SeqNumbers]
    /\ polling \in Peers \cup {Nobody} /\ due \subseteq Alive
    /\ queue \in [Peers -> [Range(Links) -> Seq(Frames)]]
    /\ repeated \in BOOLEAN /\ events \in 0 .. MaxEvents

\* A frame comes over a link from a neighbour, from where its sender is.
ComesFrom(n, l, f) ==
    /\ n \in Attached[l] /\ f.by \in Attached[l] \ {n} /\ f.src \in Beyond(n, l)
    /\ f.src \in Attached[l] => f.by = f.src

FramesComeFrom(q) ==
    \A n \in Peers : \A l \in Range(Links) : \A f \in Range(q[n][l]) : ComesFrom(n, l, f)

RouteLeads(n, m, t) ==
    t.known => /\ n \in Attached[t.link] /\ m \in Beyond(n, t.link)
               /\ t.via \in Attached[t.link] \ {n} /\ (m \in Attached[t.link] => t.via = m)

TablesFit == \A n \in Peers : Cardinality(KnownIn(table[n])) <= MaxNodes

RoutesInv == /\ TransportTypeOK /\ FramesComeFrom(queue) /\ TablesFit
             /\ \A n, m \in Peers : RouteLeads(n, m, table[n][m])

-----------------------------------------------------------------------------
(* The inductive invariant of DeliveredOnce: where copies of a payload are. *)

\* Keepalives carry no payload, and a payload is sent once.
InFlight == UNION {UNION {Range(queue[n][l]) : l \in Range(Links)} : n \in Peers}
Alike(f, g) == f.payload # 0 /\ f.payload = g.payload => f.src = g.src /\ f.dst = g.dst /\ f.seq = g.seq
PayloadsAreNumbered ==
    /\ \A f \in InFlight : f.payload <= events /\ (f.keepalive <=> f.payload = 0)
    /\ \A f, g \in InFlight : Alike(f, g)
    /\ delivered \subseteq Peers \X (1 .. events)

Has(q, p) == \E i \in DOMAIN q : q[i].payload = p

\* The copies of p in a queue come before all else, or next to each other.
Leading(q, p) == \A i \in DOMAIN q : q[i].payload = p => \A j \in 1 .. i : q[j].payload = p
Together(q) ==
    \A i, j, k \in DOMAIN q :
        i < j /\ j < k /\ q[i].payload # 0 /\ q[i].payload = q[k].payload => q[j].payload = q[i].payload

CopiesAreTogether == \A n \in Peers : \A l \in Range(Links) : Together(queue[n][l])

\* A copy of what was handed over is next in its queue, and will be recognised.
CopiesAreKnown ==
    \A n \in Peers : \A l \in Range(Links) : \A f \in Range(queue[n][l]) :
        <<n, f.payload>> \in delivered =>
            /\ Leading(queue[n][l], f.payload)
            /\ table[n][f.src].known /\ Duplicate(n, table[n][f.src], f)

\* Nothing of payload p has come to x, or nothing but to the end of one queue.
NotAt(x, p) == <<x, p>> \notin delivered /\ \A l \in Range(Links) : ~Has(queue[x][l], p)
JustAt(x, l, p) == /\ <<x, p>> \notin delivered /\ queue[x][l] # <<>> /\ Last(queue[x][l]).payload = p
                   /\ \A k \in Range(Links) \ {l} : ~Has(queue[x][k], p)

\* Of a payload that waits at a node nothing is further on, but the copies that
\* the node is relaying from its first queue.
Relaying(n, l, p) ==
    /\ polling = n /\ Leading(queue[n][l], p)
    /\ \E i \in DOMAIN Links : Links[i] = l /\ FirstWaiting(n, i)
NothingIsAhead ==
    \A n \in Peers : \A l \in LinksOf(n) : \A p \in 1 .. events : Has(queue[n][l], p) =>
        \A k \in LinksOf(n) \ {l} : \A x \in Beyond(n, k) :
            NotAt(x, p) \/ (Relaying(n, l, p) /\ x \in Attached[k] /\ JustAt(x, k, p))

CopiesInv == /\ PayloadsAreNumbered /\ CopiesAreTogether /\ CopiesAreKnown /\ NothingIsAhead
             /\ DeliveredOnce
TransportInv == RoutesInv /\ CopiesInv
=============================================================================
