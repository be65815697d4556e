----------------------------- MODULE Messenger -----------------------------
(***************************************************************************)
(* The messenger of every node (messaging/src/messenger.cpp): numbered     *)
(* requests that are kept, resent and given up on, acknowledgements, and   *)
(* the presence events of the transport.  On top of it the one service     *)
(* that every node has, discovery (discovery/src): a hub keeps a directory *)
(* of the nodes its transport knows and asks each who it is.               *)
(*                                                                         *)
(* The network loses, delays and reorders; a retry is what duplicates.  A  *)
(* retry timer may fire at any time.  Nodes leave, come back and reboot.   *)
(* A message carries, for the properties only, the boot of the node whose  *)
(* request it belongs to (epoch).                                          *)
(***************************************************************************)
EXTENDS Naturals, FiniteSets

CONSTANTS Hub, Peers,
          Slots,                  \* 1 .. n: the pending table of a messenger
          Retries,                \* RequestPolicy::retries, the first send included
          MaxId,                  \* bound on requests of one boot
          MaxEvents,              \* bound on presence changes and reboots
          NetMax                  \* bound on messages in flight

ASSUME MessengerAssumption ==
    /\ Hub \notin Peers
    /\ Slots \subseteq Nat
    /\ Retries \in Nat \ {0} /\ MaxId \in Nat
    /\ MaxEvents \in Nat /\ NetMax \in Nat

VARIABLES
    knows,      \* [node -> nodes its transport holds]
    pending,    \* [node -> [slot -> PendingRequest]]
    lastId,     \* [node -> m_nextId]
    boot,       \* [node -> number of its current boot]
    net,        \* messages in flight
    directory,  \* [peer -> DirectoryEntry] at the hub
    listed,     \* what the directory's listeners were told: [peer -> announce or 0]
    got,        \* history: <<node, id>> of the pending requests that were delivered
    abandoned,  \* history: peers whose answer to the hub was given up on
    events

vars == <<knows, pending, lastId, boot, net, directory, listed, got, abandoned, events>>
link == <<knows, boot, events>>

Nodes == {Hub} \cup Peers

Free == [used |-> FALSE, dst |-> Hub, id |-> 0, body |-> "none", sends |-> 0]
Entry(d, i, b) == [used |-> TRUE, dst |-> d, id |-> i, body |-> b, sends |-> 1]

Absent == [state |-> "ABSENT", requests |-> 0, announce |-> 0]
Fresh == [state |-> "PENDING", requests |-> 0, announce |-> 0]

Message(n, e) == [src |-> n, dst |-> e.dst, body |-> e.body, id |-> e.id, epoch |-> boot[n],
                  announce |-> IF e.body = "announce" THEN boot[n] ELSE 0]
AckOf(m) == [src |-> m.dst, dst |-> m.src, body |-> "ack", id |-> m.id, epoch |-> m.epoch,
             announce |-> 0]

-----------------------------------------------------------------------------
(* Transport::send(): the frame leaves, is refused, or is lost on the way. *)
Put(rest, m) == IF Cardinality(rest) < NetMax THEN {rest, rest \cup {m}} ELSE {rest}

FreeSlots(n) == {s \in Slots : ~pending[n][s].used}
FirstFree(n) == CHOOSE s \in FreeSlots(n) : \A t \in FreeSlots(n) : s <= t

CanRequest(n, d) == d \in knows[n] /\ FreeSlots(n) # {} /\ lastId[n] < MaxId

(* request(): a first send that is refused is kept, for the retry. *)
Request(n, d, body, rest) ==
    LET e == Entry(d, lastId[n] + 1, body)
    IN /\ CanRequest(n, d)
       /\ pending' = [pending EXCEPT ![n][FirstFree(n)] = e]
       /\ lastId' = [lastId EXCEPT ![n] = e.id]
       /\ net' \in Put(rest, Message(n, e))

Refused(n, d, rest) == /\ ~CanRequest(n, d)
                       /\ net' = rest
                       /\ UNCHANGED <<pending, lastId>>

(* The answer of p to the hub is no longer on its way. *)
Abandons(n, bodies) == IF n # Hub /\ "announce" \in bodies THEN {n} ELSE {}

\* Mutant: the last send is forgotten about without telling the owner.
MutOnRequestFailed(n, e) == directory

(* DiscoveryDirectory::onRequestFailed() *)
OnRequestFailed(n, e) ==
    IF n = Hub /\ directory[e.dst].state = "PENDING"
    THEN [directory EXCEPT ![e.dst].state = "MUTE"] ELSE directory

(* tick(), for one entry whose period has passed. *)
Resend(n, s) ==
    LET e == pending[n][s]
    IN /\ e.used /\ e.sends < Retries
       /\ pending' = [pending EXCEPT ![n][s].sends = @ + 1]
       /\ net' \in Put(net, Message(n, e))
       /\ UNCHANGED <<link, lastId, directory, listed, got, abandoned>>

GiveUp(n, s) ==
    LET e == pending[n][s]
    IN /\ e.used /\ e.sends >= Retries
       /\ pending' = [pending EXCEPT ![n][s] = Free]
       /\ directory' = OnRequestFailed(n, e)
       /\ abandoned' = abandoned \cup Abandons(n, {e.body})
       /\ got' = got \ {<<n, e.id>>}
       /\ UNCHANGED <<link, lastId, net, listed>>

-----------------------------------------------------------------------------
(* onAck() *)

\* Mutant: any request to the node that acknowledges is taken for the one.
MutMatches(m) == {s \in Slots : pending[m.dst][s].used /\ pending[m.dst][s].dst = m.src}

Matches(m) == {s \in Slots : LET e == pending[m.dst][s]
                            IN e.used /\ e.dst = m.src /\ e.id = m.id}


ReceiveAck(m) ==
    /\ m.body = "ack"
    /\ net' = net \ {m}
    /\ IF Matches(m) = {} THEN UNCHANGED <<pending, got, abandoned>>
       ELSE LET s == CHOOSE x \in Matches(m) : \A y \in Matches(m) : x <= y
                e == pending[m.dst][s]
            IN /\ pending' = [pending EXCEPT ![m.dst][s] = Free]
               /\ got' = got \ {<<m.dst, e.id>>}
               /\ abandoned' = IF m.epoch = boot[m.dst] THEN abandoned
                               ELSE abandoned \cup (Peers \cap {m.dst, m.src})
    /\ UNCHANGED <<link, lastId, directory, listed>>

(* onPayload(): acknowledged before it is handled. *)
Arrives(m) ==
    /\ got' = IF m.epoch = boot[m.src] /\ \E s \in Slots : /\ pending[m.src][s].used
                                                          /\ pending[m.src][s].id = m.id
              THEN got \cup {<<m.src, m.id>>} ELSE got
    /\ UNCHANGED link

(* Discovery::onMessage(): the answer is a request of its own. *)
ReceiveIdentity(m) ==
    /\ m.body = "identity"
    /\ Arrives(m)
    /\ \E rest \in Put(net \ {m}, AckOf(m)) :
          \/ /\ Request(m.dst, m.src, "announce", rest)
             /\ UNCHANGED abandoned
          \/ /\ Refused(m.dst, m.src, rest)
             /\ abandoned' = abandoned \cup {m.dst}
    /\ UNCHANGED <<directory, listed>>

(* DiscoveryDirectory::onMessage() *)

\* Mutant: a node that was given up on stays so.
MutLearns(m) ==
    /\ directory' = [directory EXCEPT ![m.src].state = IF @ = "MUTE" THEN "MUTE" ELSE "KNOWN",
                                      ![m.src].announce = m.announce]
    /\ listed' = [listed EXCEPT ![m.src] = m.announce]

Learns(m) ==
    /\ directory' = [directory EXCEPT ![m.src].state = "KNOWN",
                                      ![m.src].announce = m.announce]
    /\ listed' = [listed EXCEPT ![m.src] = m.announce]

ReceiveAnnounce(m) ==
    /\ m.body = "announce"
    /\ Arrives(m)
    /\ net' \in Put(net \ {m}, AckOf(m))
    /\ Learns(m)
    /\ UNCHANGED <<pending, lastId, abandoned>>

(* A frame is delivered by a node that holds its sender: it has just learnt *)
(* it from this frame at the latest.                                        *)
Receive(m) == /\ m.src \in knows[m.dst]
              /\ ReceiveAck(m) \/ ReceiveIdentity(m) \/ ReceiveAnnounce(m)

(* DiscoveryDirectory::tick(), ask(): a refused request is asked again.     *)
AskIdentity(p) ==
    /\ directory[p].state = "PENDING" /\ directory[p].requests = 0
    /\ Request(Hub, p, "identity", net)
    /\ directory' = [directory EXCEPT ![p].requests = 1]
    /\ abandoned' = abandoned \ {p}
    /\ UNCHANGED <<link, listed, got>>

-----------------------------------------------------------------------------
(* Presence, as the transport reports it. *)

\* Mutant: what is pending on the node that left stays.
MutCleared(n, d) == pending[n]

Cleared(n, d) ==
    [s \in Slots |-> IF pending[n][s].used /\ pending[n][s].dst = d THEN Free ELSE pending[n][s]]

ClearedBodies(n, d) == {pending[n][s].body : s \in {t \in Slots : /\ pending[n][t].used
                                                                  /\ pending[n][t].dst = d}}

Change == /\ events < MaxEvents
          /\ events' = events + 1

(* Messenger::onNodeUp(), DiscoveryDirectory::onNodeUp() *)
NodeUp(n, d) ==
    /\ Change
    /\ d \notin knows[n]
    /\ knows' = [knows EXCEPT ![n] = @ \cup {d}]
    /\ directory' = IF n = Hub THEN [directory EXCEPT ![d] = Fresh] ELSE directory
    /\ UNCHANGED <<pending, lastId, boot, net, listed, got, abandoned>>

(* onNodeDown(): the requests fail, then the entry and its listing go. *)
Forgets(n, d) ==
    /\ pending' = [pending EXCEPT ![n] = Cleared(n, d)]
    /\ listed' = IF n = Hub THEN [listed EXCEPT ![d] = 0] ELSE listed
    /\ abandoned' = abandoned \cup Abandons(n, ClearedBodies(n, d))
    /\ got' = {g \in got : g[1] = n => \E s \in Slots : pending'[n][s].used /\ pending'[n][s].id = g[2]}
    /\ UNCHANGED <<lastId, boot, net>>

NodeDown(n, d) ==
    /\ Change
    /\ d \in knows[n]
    /\ knows' = [knows EXCEPT ![n] = @ \ {d}]
    /\ directory' = IF n = Hub THEN [directory EXCEPT ![d] = Absent] ELSE directory
    /\ Forgets(n, d)

(* A node that rebooted while it was held leaves and comes back at once. *)
NodeRestarted(n, d) ==
    /\ Change
    /\ d \in knows[n]
    /\ directory' = IF n = Hub THEN [directory EXCEPT ![d] = Fresh] ELSE directory
    /\ Forgets(n, d)
    /\ UNCHANGED knows

(* A node loses power: the messenger, the directory and its listeners start *)
(* over.                                                                    *)
Reboot(n) ==
    /\ Change
    /\ boot' = [boot EXCEPT ![n] = @ + 1]
    /\ knows' = [knows EXCEPT ![n] = {}]
    /\ pending' = [pending EXCEPT ![n] = [s \in Slots |-> Free]]
    /\ lastId' = [lastId EXCEPT ![n] = 0]
    /\ IF n = Hub
       THEN /\ directory' = [p \in Peers |-> Absent]
            /\ listed' = [p \in Peers |-> 0]
            /\ UNCHANGED abandoned
       ELSE /\ abandoned' = abandoned \cup {n}
            /\ UNCHANGED <<directory, listed>>
    /\ got' = {g \in got : g[1] # n}
    /\ UNCHANGED net

-----------------------------------------------------------------------------
Init ==
    /\ knows = [n \in Nodes |-> {}]
    /\ pending = [n \in Nodes |-> [s \in Slots |-> Free]]
    /\ lastId = [n \in Nodes |-> 0]
    /\ boot = [n \in Nodes |-> 1]
    /\ net = {}
    /\ directory = [p \in Peers |-> Absent] /\ listed = [p \in Peers |-> 0]
    /\ got = {} /\ abandoned = {} /\ events = 0

Tick(n) == \E s \in Slots : Resend(n, s) \/ GiveUp(n, s)

Presence == \/ \E n \in Nodes, d \in Nodes : /\ n # d /\ Hub \in {n, d}
                                             /\ \/ NodeUp(n, d)
                                                \/ NodeDown(n, d)
                                                \/ NodeRestarted(n, d)
            \/ \E n \in Nodes : Reboot(n)

Next == \/ \E n \in Nodes : Tick(n)
        \/ \E p \in Peers : AskIdentity(p)
        \/ \E m \in net : Receive(m)
        \/ Presence

Spec == Init /\ [][Next]_vars

(* The main loop of every node calls poll() and tick() for ever. *)
FairSpec == /\ Spec
            /\ \A n \in Nodes : \A s \in Slots : WF_vars(Resend(n, s) \/ GiveUp(n, s))
            /\ \A p \in Peers : WF_vars(AskIdentity(p))

-----------------------------------------------------------------------------
Boots == 1 .. MaxEvents + 1
Entries == [used : BOOLEAN, dst : Nodes, id : 0 .. MaxId,
            body : {"none", "identity", "announce"}, sends : 0 .. Retries]
DirectoryEntries == [state : {"ABSENT", "PENDING", "KNOWN", "MUTE"}, requests : {0, 1},
                     announce : Boots \cup {0}]
Messages == [src : Nodes, dst : Nodes, body : {"identity", "announce", "ack"},
             id : 1 .. MaxId, epoch : Boots, announce : Boots \cup {0}]

TypeOK ==
    /\ knows \in [Nodes -> SUBSET Nodes]
    /\ pending \in [Nodes -> [Slots -> Entries]]
    /\ lastId \in [Nodes -> 0 .. MaxId] /\ boot \in [Nodes -> Boots]
    /\ directory \in [Peers -> DirectoryEntries]
    /\ listed \in [Peers -> Boots \cup {0}]
    /\ abandoned \subseteq Peers

Used(n) == {s \in Slots : pending[n][s].used}

PendingIsSound ==
    \A n \in Nodes : \A s \in Used(n) :
        /\ pending[n][s].dst \in knows[n]
        /\ pending[n][s].id \in 1 .. lastId[n]
        /\ \A t \in Used(n) : pending[n][t].id = pending[n][s].id => s = t

\* A node that was asked and has not answered is being asked still, or owes its
\* answer and retries it, or has given up on it.
PendingIsWatched ==
    \A p \in Peers : directory[p].state = "PENDING" /\ directory[p].requests = 1 =>
        \/ \E s \in Used(Hub) : pending[Hub][s].dst = p
        \/ \E s \in Used(p) : pending[p][s].dst = Hub /\ pending[p][s].body = "announce"
        \/ p \in abandoned

\* "Nothing addressed to a node that left can still arrive" (messenger.cpp:219):
\* no request waits on a node the transport has dropped, no two requests of a
\* node share an id, so that an acknowledgement names one of them, and no
\* pending node is left without anybody who still acts on it.
MessengerInv == TypeOK /\ PendingIsSound /\ PendingIsWatched

\* An acknowledgement completes a request that reached its destination; only
\* one left over from an earlier boot, whose numbers start again at 1, may
\* complete another.
AckMeansDelivered ==
    [][\A n \in Nodes : \A s \in Used(n) :
          ~pending'[n][s].used /\ (\E m \in net \ net' : m.body = "ack" /\ m.dst = n
                                                      /\ m.epoch = boot[n])
              => <<n, pending[n][s].id>> \in got]_vars

\* What the directory's listeners were told is what it holds: a node is listed
\* exactly while it is KNOWN, under the announce of the entry, and there is an
\* entry exactly for the nodes of the transport.
DirectoryIsTold ==
    \A p \in Peers :
        /\ directory[p].state # "ABSENT" <=> p \in knows[Hub]
        /\ listed[p] = IF directory[p].state = "KNOWN" THEN directory[p].announce ELSE 0

\* Every node the hub holds ends up described or MUTE, unless its answer was
\* given up on.
EveryoneSettles ==
    \A p \in Peers : directory[p].state = "PENDING" ~>
                        (directory[p].state # "PENDING" \/ p \in abandoned)

-----------------------------------------------------------------------------
(* The inductive invariant (Messenger_proof).                              *)

\* A reboot is one of the events.
BootsAreEvents == events \in 0 .. MaxEvents /\ \A n \in Nodes : boot[n] <= events + 1

\* The hub asks the peers who they are, and the peers answer the hub.
PendingRoles ==
    \A n \in Nodes : \A s \in Used(n) :
        LET e == pending[n][s]
        IN IF n = Hub THEN e.dst \in Peers /\ e.body = "identity"
                      ELSE e.dst = Hub /\ e.body = "announce"

\* The node a message answers to, or came from, and the node at the other end.
Owner(m) == IF m.body = "ack" THEN m.dst ELSE m.src
Far(m) == IF m.body = "ack" THEN m.src ELSE m.dst

\* A message of the current boot of its owner bears a number that was given
\* out; when that request is pending, it is the request to the far end, and it
\* arrived if the message acknowledges it.
Sound(m) ==
    /\ m \in Messages
    /\ IF Owner(m) = Hub THEN Far(m) \in Peers /\ m.body # "announce"
                         ELSE Far(m) = Hub /\ m.body # "identity"
    /\ m.epoch <= boot[Owner(m)]
    /\ m.epoch = boot[Owner(m)] =>
           /\ m.id <= lastId[Owner(m)]
           /\ \A s \in Used(Owner(m)) : pending[Owner(m)][s].id = m.id =>
                 /\ pending[Owner(m)][s].dst = Far(m)
                 /\ m.body = "ack" => <<Owner(m), m.id>> \in got

NetIsSound == \A m \in net : Sound(m)

GotIsPending == \A g \in got : \E n \in Nodes : \E s \in Used(n) : g = <<n, pending[n][s].id>>

\* PendingIsWatched, on what has not arrived yet: a question that reached its
\* node, or an answer that reached the hub, is nobody's reason to wait.
AnswerIsAwaited ==
    \A p \in Peers : directory[p].state = "PENDING" /\ directory[p].requests = 1 =>
        \/ \E s \in Used(Hub) : /\ pending[Hub][s].dst = p
                                /\ <<Hub, pending[Hub][s].id>> \notin got
        \/ \E s \in Used(p) : <<p, pending[p][s].id>> \notin got
        \/ p \in abandoned

NetworkInv ==
    /\ TypeOK /\ BootsAreEvents
    /\ PendingIsSound /\ PendingRoles
    /\ NetIsSound /\ GotIsPending
    /\ AnswerIsAwaited
    /\ DirectoryIsTold
=============================================================================
