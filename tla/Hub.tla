-------------------------------- MODULE Hub --------------------------------
(***************************************************************************)
(* The hub: the connection threads of the websocket endpoint (WsBridge),   *)
(* the poll loop (HubApp::run) and the gateways the loop drives for the    *)
(* clients: who follows the samples of a node (TelemetryGateway), who      *)
(* watches the wire (TransportGateway), who pilots a node (PilotGateway),  *)
(* which node the update session is against (applyOtaCommand), and what    *)
(* each client has been told.                                              *)
(*                                                                         *)
(* A connection id is never used twice.  The consumers are modelled by     *)
(* what the gateways see of them (Services has their side of the wire).  A *)
(* node's tables are pulled page by page and numbered by the boot they     *)
(* were pulled from: its "measures" go to a client that connects only      *)
(* whole and are pulled once; its "modules" (the log modules, and the      *)
(* tuning parameters, which are served alike) go as far as they were       *)
(* pulled, and a client may have them pulled again.                        *)
(***************************************************************************)
EXTENDS Integers, Sequences, FiniteSets

CONSTANTS Clients,      \* connections
          Nodes,        \* nodes the transport may know
          NoOne,        \* neither a client nor a node
          Pages,        \* pages of a node's table
          PilotWindow,  \* RC_PILOT_WINDOW_US, in loop turns
          MaxInbound,   \* MAX_INBOUND
          MaxTurns,     \* turns of the loop
          Uses          \* what the clients of an execution send to which nodes, the
                        \* tables pulled, and how many messages and node events it has

Commands == {"follow", "unfollow", "watch", "unwatch", "refresh", "pilot",
             "start", "status", "abort"}
Tables == {"measures", "modules"}

ASSUME HubAssumption ==
    /\ NoOne \notin Clients \cup Nodes
    /\ PilotWindow \in Nat /\ MaxInbound \in Nat \ {0} /\ Pages \in Nat \ {0}
    /\ \A use \in Uses :
           /\ use.commands \subseteq Commands /\ use.tables \subseteq Tables
           /\ use.nodes \subseteq Nodes /\ use.sends \in Nat /\ use.events \in Nat
    /\ MaxTurns \in Nat

VARIABLES
    uses,       \* what the clients of this execution use
    conn,       \* external: each connection is "new", "open" or "gone"
    inbound, connected, closed, \* the queues of WsBridge
    stage,      \* where the poll loop is
    batch,      \* the messages drainInbound() took
    turns,      \* turns of the loop: its clock
    node,       \* the consumers' entries: up, tables pulled, what is subscribed to
    marks,      \* TelemetryGateway: clients following each node
    watchers, wanted, views, \* TransportGateway: clients, setWanted(), nodes with samples
    seats,      \* PilotGateway: who pilots each node, and since when
    ota,        \* the update session: its target, busy, whose status it holds
    dirty,      \* m_nodesDirty
    told,       \* history: what each client was last told
    piloted,    \* history: the last input forwarded to each node
    late,       \* history: clients served after their close was drained
    sends, nodeEvents

wsVars == <<uses, conn, inbound, connected, closed>>
gatewayVars == <<node, marks, watchers, wanted, views, seats, ota, dirty, told, piloted>>
hubVars == <<wsVars, stage, batch, turns, gatewayVars, late, sends, nodeEvents>>

NoSeat == [client |-> NoOne, at |-> 0]
\* A subscription: what the node said last, whether the consumer waits for the
\* answer to its last request, the answers that may still come.
NoSubscription == [subscribed |-> FALSE, request |-> FALSE, asked |-> {}]
NoNodeEntry == [up |-> FALSE, boot |-> 0, walk |-> [t \in Tables |-> 0],
                stream |-> NoSubscription, reports |-> NoSubscription]
NoTable == [boot |-> 0, pages |-> 0]
NothingTold == [tables |-> [n \in Nodes |-> [t \in Tables |-> NoTable]], nodes |-> {}]

HubInit ==
    /\ uses \in Uses
    /\ conn = [c \in Clients |-> "new"]
    /\ inbound = << >> /\ connected = {} /\ closed = {}
    /\ stage = "poll" /\ batch = << >> /\ turns = 0
    /\ node = [n \in Nodes |-> NoNodeEntry]
    /\ marks = [n \in Nodes |-> {}]
    /\ watchers = {} /\ wanted = FALSE /\ views = {}
    /\ seats = [n \in Nodes |-> NoSeat]
    /\ ota = [target |-> NoOne, busy |-> FALSE, asked |-> {}, board |-> NoOne]
    /\ dirty = FALSE
    /\ told = [c \in Clients |-> NothingTold]
    /\ piloted = [n \in Nodes |-> NoSeat]
    /\ late = {}
    /\ sends = 0 /\ nodeEvents = 0

UpNodes == {n \in Nodes : node[n].up}
Open == {c \in Clients : conn[c] = "open"}

-----------------------------------------------------------------------------
(* The connection threads: setOnClientMessageCallback(). *)
ClientOpens(c) ==
    /\ conn[c] = "new"
    /\ conn' = [conn EXCEPT ![c] = "open"]
    /\ connected' = connected \cup {c}
    /\ UNCHANGED <<uses, inbound, closed, stage, batch, turns, gatewayVars, late, sends,
                   nodeEvents>>

ClientCloses(c) ==
    /\ conn[c] = "open"
    /\ conn' = [conn EXCEPT ![c] = "gone"]
    /\ closed' = closed \cup {c}
    /\ UNCHANGED <<uses, inbound, connected, stage, batch, turns, gatewayVars, late, sends,
                   nodeEvents>>

(* A message past MAX_INBOUND is not queued. *)
ClientSends(c, op, n) ==
    /\ conn[c] = "open" /\ sends < uses.sends
    /\ sends' = sends + 1
    /\ inbound' = IF Len(inbound) < MaxInbound
                  THEN Append(inbound, [client |-> c, op |-> op, node |-> n]) ELSE inbound
    /\ UNCHANGED <<uses, conn, connected, closed, stage, batch, turns, gatewayVars, late,
                   nodeEvents>>

-----------------------------------------------------------------------------
(* The poll loop.  m_messenger.poll(): what the nodes do. *)

(* broadcast() of one node's table.                                        *)
TellTable(n, t, table) ==
    told' = [c \in Clients |-> IF c \in Open THEN [told[c] EXCEPT !.tables[n][t] = table]
                                             ELSE told[c]]

NodeEvent == stage = "poll" /\ nodeEvents < uses.events /\ nodeEvents' = nodeEvents + 1

(* What a node's table holds: the pages of this boot that were pulled.     *)
Held(n, t) == IF node[n].walk[t] = 0 THEN NoTable
              ELSE [boot |-> node[n].boot, pages |-> node[n].walk[t]]
Whole(n, t) == node[n].up /\ node[n].walk[t] = Pages

(* request(): refused when the pending table is full.  The consumer then   *)
(* waits for nothing, and the gateways do not look.                        *)
Ask(subscription, on, taken) ==
    [subscription EXCEPT !.request = taken,
                         !.asked = IF taken THEN subscription.asked \cup {on}
                                            ELSE subscription.asked]

(* A node appears and says what it is: the consumers open their entries,   *)
(* and ask for its reports while they are wanted.                          *)
NodeAppears(n) == \E taken \in BOOLEAN :
    /\ NodeEvent /\ ~node[n].up
    /\ node' = [node EXCEPT ![n] =
                   [NoNodeEntry EXCEPT !.up = TRUE, !.boot = node[n].boot + 1,
                                       !.reports = IF wanted THEN Ask(NoSubscription, TRUE, taken)
                                                             ELSE NoSubscription]]
    /\ dirty' = TRUE
    /\ UNCHANGED <<wsVars, stage, batch, turns, marks, watchers, wanted, views, seats, ota,
                   told, piloted, late, sends>>

(* onPage(): a table is published when its last page is in.  A walk that   *)
(* was abandoned is one whose next page does not come.                     *)
PageArrives(n, t) ==
    /\ NodeEvent /\ node[n].up /\ node[n].walk[t] < Pages
    /\ node' = [node EXCEPT ![n] =
                   [node[n] EXCEPT !.walk = [node[n].walk EXCEPT ![t] = node[n].walk[t] + 1]]]
    /\ IF node[n].walk[t] + 1 = Pages
       THEN TellTable(n, t, [boot |-> node[n].boot, pages |-> Pages])
       ELSE UNCHANGED told
    /\ UNCHANGED <<wsVars, stage, batch, turns, marks, watchers, wanted, views, seats, ota,
                   dirty, piloted, late, sends>>

(* The gateways' onForgotten(): the marks and the window of the node go,   *)
(* and its tables are published empty.                                     *)
ForgetMarks(n) == [marks EXCEPT ![n] = {}]

\* Mutant: the clients are not told that the tables are gone.
MutForgetTable(n) == told' = told

ForgetTable(n) ==
    told' = [c \in Clients |->
                IF c \in Open THEN [told[c] EXCEPT !.tables[n] = [t \in Tables |-> NoTable]]
                              ELSE told[c]]

NodeLeaves(n) ==
    /\ NodeEvent /\ node[n].up
    /\ node' = [node EXCEPT ![n] = [NoNodeEntry EXCEPT !.boot = node[n].boot]]
    /\ marks' = ForgetMarks(n)
    /\ ForgetTable(n)
    /\ views' = views \ {n}
    /\ dirty' = TRUE
    /\ UNCHANGED <<wsVars, stage, batch, turns, watchers, wanted, seats, ota, piloted, late,
                   sends>>

(* The node says what it holds of a subscription: the consumer waits no    *)
(* longer, whichever of its requests this answers.                         *)
AnswerOf(subscription, on) ==
    [subscribed |-> on, request |-> FALSE, asked |-> subscription.asked \ {on}]

SubscriptionAnswered(n) == \E on \in BOOLEAN :
    /\ stage = "poll"
    /\ \/ /\ on \in node[n].stream.asked
          /\ node' = [node EXCEPT ![n] =
                         [node[n] EXCEPT !.stream = AnswerOf(node[n].stream, on)]]
       \/ /\ on \in node[n].reports.asked
          /\ node' = [node EXCEPT ![n] =
                         [node[n] EXCEPT !.reports = AnswerOf(node[n].reports, on)]]
    /\ UNCHANGED <<wsVars, stage, batch, turns, marks, watchers, wanted, views, seats, ota,
                   dirty, told, piloted, late, sends, nodeEvents>>

(* onRequestFailed(): the request was never acknowledged.  The node may    *)
(* have taken it all the same, and say so later.                           *)
SubscriptionGivenUp(n) ==
    /\ stage = "poll"
    /\ \/ /\ node[n].stream.request
          /\ node' = [node EXCEPT ![n] =
                         [node[n] EXCEPT !.stream = [node[n].stream EXCEPT !.request = FALSE]]]
       \/ /\ node[n].reports.request
          /\ node' = [node EXCEPT ![n] =
                         [node[n] EXCEPT !.reports = [node[n].reports EXCEPT !.request = FALSE]]]
    /\ UNCHANGED <<wsVars, stage, batch, turns, marks, watchers, wanted, views, seats, ota,
                   dirty, told, piloted, late, sends, nodeEvents>>

(* onReport(): asked for, or already on its way when it was given back.    *)
ReportArrives(n) ==
    /\ NodeEvent /\ n \notin views
    /\ node[n].reports.subscribed \/ TRUE \in node[n].reports.asked
    /\ views' = views \cup {n}
    /\ UNCHANGED <<wsVars, stage, batch, turns, node, marks, watchers, wanted, seats, ota,
                   dirty, told, piloted, late, sends>>

(* OtaReader::onMessage(): a status, whichever node it came from.          *)
StatusArrives(n) ==
    /\ stage = "poll" /\ n \in ota.asked
    /\ ota' = [ota EXCEPT !.asked = @ \ {n}, !.board = n]
    /\ UNCHANGED <<wsVars, stage, batch, turns, node, marks, watchers, wanted, views, seats,
                   dirty, told, piloted, late, sends, nodeEvents>>

(* The update session ends (OtaSession). *)
UpdateEnds ==
    /\ stage = "poll" /\ ota.busy
    /\ ota' = [ota EXCEPT !.busy = FALSE]
    /\ UNCHANGED <<wsVars, stage, batch, turns, node, marks, watchers, wanted, views, seats,
                   dirty, told, piloted, late, sends, nodeEvents>>

-----------------------------------------------------------------------------
(* handleClientMessages() *)
DrainInbound ==
    /\ stage = "poll" /\ turns < MaxTurns
    /\ turns' = turns + 1
    /\ batch' = inbound /\ inbound' = << >>
    /\ stage' = "clients"
    /\ UNCHANGED <<uses, conn, connected, closed, gatewayVars, late, sends, nodeEvents>>

(* TelemetryGateway::mark(): the stream is asked for with the first client *)
(* that wants it and given back with the last, and the answer of           *)
(* subscribe() is not looked at.                                           *)
Mark(c, n, on, taken) ==
    LET clients == IF on THEN marks[n] \cup {c} ELSE marks[n] \ {c}
    IN /\ marks' = [marks EXCEPT ![n] = clients]
       /\ node' = IF (marks[n] # {}) = (clients # {}) THEN node
                  ELSE [node EXCEPT ![n] =
                          [node[n] EXCEPT !.stream = Ask(node[n].stream, clients # {}, taken)]]

ApplyTelemetry(m) == \E taken \in BOOLEAN :
    /\ m.op \in {"follow", "unfollow"}
    /\ IF node[m.node].up THEN Mark(m.client, m.node, m.op = "follow", taken)
                          ELSE UNCHANGED <<marks, node>>
    /\ UNCHANGED <<watchers, wanted, views, seats, ota, piloted>>

(* TransportConsumerBase::setWanted(): every node is asked, and only those *)
(* that said they report are asked to stop.                                *)
SetWanted(entries, on, taken) ==
    [n \in Nodes |->
        IF on = wanted \/ ~entries[n].up \/ (~on /\ ~entries[n].reports.subscribed) THEN entries[n]
        ELSE [entries[n] EXCEPT !.reports = Ask(entries[n].reports, on, n \in taken)]]

(* TransportGateway::mark(): the reports are given back with the last      *)
(* watcher, and the windows of the other nodes with them.                  *)
Watch(clients) ==
    /\ watchers' = clients
    /\ wanted' = IF (watchers # {}) = (clients # {}) THEN wanted ELSE clients # {}
    /\ views' = IF watchers # {} /\ clients = {} THEN {} ELSE views

ApplyTransport(m) == \E taken \in SUBSET Nodes :
    /\ m.op \in {"watch", "unwatch"}
    /\ Watch(IF m.op = "watch" THEN watchers \cup {m.client} ELSE watchers \ {m.client})
    /\ node' = SetWanted(node, wanted', taken)
    /\ UNCHANGED <<marks, seats, ota, piloted>>

(* refresh(): the table is pulled again from its first page, and the       *)
(* clients keep what they were told.                                       *)
ApplyRefresh(m) ==
    /\ m.op = "refresh"
    /\ node' = IF ~node[m.node].up THEN node
               ELSE [node EXCEPT ![m.node] =
                       [node[m.node] EXCEPT
                           !.walk = [node[m.node].walk EXCEPT !["modules"] = 0]]]
    /\ UNCHANGED <<marks, watchers, wanted, views, seats, ota, piloted>>

(* PilotGateway: tick() frees the seats nobody has fed for the window.     *)
Seated == [n \in Nodes |-> IF seats[n].client # NoOne /\ turns - seats[n].at > PilotWindow
                           THEN NoSeat ELSE seats[n]]

\* Mutant: an input takes the seat and does not feed it.
MutTakeSeat(c, n) == IF Seated[n].client = c THEN Seated[n] ELSE [client |-> c, at |-> turns]

TakeSeat(c, n) == [client |-> c, at |-> turns]

ApplyPilot(m) ==
    /\ m.op = "pilot"
    /\ LET flies == Seated[m.node].client \in {NoOne, m.client} /\ node[m.node].up
       IN /\ seats' = IF flies THEN [Seated EXCEPT ![m.node] = TakeSeat(m.client, m.node)]
                               ELSE Seated
          /\ piloted' = IF flies THEN [piloted EXCEPT ![m.node] =
                                          [client |-> m.client, at |-> turns]] ELSE piloted
    /\ UNCHANGED <<marks, node, watchers, wanted, views, ota>>

(* applyOtaCommand(): a session against one node refuses the others; an    *)
(* abort works whatever the target is.  A start also asks for the status.  *)
ApplyOta(m) ==
    /\ m.op \in {"start", "status", "abort"}
    /\ ota' = IF m.op = "abort" THEN [ota EXCEPT !.busy = FALSE]
              ELSE IF ota.busy /\ m.node # ota.target THEN ota
              ELSE [ota EXCEPT !.target = m.node,
                               !.busy = @ \/ (m.op = "start" /\ node[m.node].up),
                               !.asked = IF node[m.node].up /\ ~ota.busy THEN @ \cup {m.node}
                                                                         ELSE @]
    /\ UNCHANGED <<marks, node, watchers, wanted, views, seats, piloted>>

(* applyClientMessage(): the messages of the batch, oldest first.          *)
ApplyClientMessage ==
    /\ stage = "clients" /\ batch # << >>
    /\ LET m == Head(batch)
       IN /\ \/ ApplyTelemetry(m) \/ ApplyTransport(m) \/ ApplyRefresh(m)
             \/ ApplyPilot(m) \/ ApplyOta(m)
          /\ late' = IF conn[m.client] = "gone" /\ m.client \notin closed
                     THEN late \cup {m.client} ELSE late
    /\ batch' = Tail(batch)
    /\ UNCHANGED <<wsVars, stage, turns, dirty, told, sends, nodeEvents>>

-----------------------------------------------------------------------------
(* housekeeping(): the seats, then onClientClosed() of the three gateways  *)
(* for each client that closed.                                            *)

\* Mutant: the marks go only with the last client.
MutMarksWithout(gone) == [n \in Nodes |-> IF marks[n] \subseteq gone THEN {} ELSE marks[n]]

MarksWithout(gone) == [n \in Nodes |-> marks[n] \ gone]

StreamsWithout(gone, taken) ==
    [n \in Nodes |->
        IF marks[n] # {} /\ marks[n] \subseteq gone
        THEN [node[n] EXCEPT !.stream = Ask(node[n].stream, FALSE, n \in taken)] ELSE node[n]]

PilotClosed(gone) ==
    seats' = [n \in Nodes |-> IF Seated[n].client \in gone THEN NoSeat ELSE Seated[n]]

DrainClosed == \E streams, reports \in SUBSET Nodes :
    /\ stage = "clients" /\ batch = << >>
    /\ marks' = MarksWithout(closed)
    /\ PilotClosed(closed)
    /\ Watch(watchers \ closed)
    /\ node' = SetWanted(StreamsWithout(closed, streams), wanted', reports)
    /\ closed' = {}
    /\ stage' = "connected"
    /\ UNCHANGED <<uses, conn, inbound, connected, batch, turns, ota, dirty, told, piloted, late,
                   sends, nodeEvents>>

(* snapshot() of the clients that connected, to each of them alone: the    *)
(* tables, then the node table.                                            *)
SnapshotOf(c, n, t) ==
    IF ~node[n].up \/ (t = "measures" /\ ~Whole(n, t)) THEN told[c].tables[n][t] ELSE Held(n, t)

Snapshot(c) == [tables |-> [n \in Nodes |-> [t \in Tables |-> SnapshotOf(c, n, t)]],
                nodes |-> UpNodes]

DrainConnected ==
    /\ stage = "connected"
    /\ told' = [c \in Clients |-> IF c \in connected \cap Open THEN Snapshot(c) ELSE told[c]]
    /\ connected' = {}
    /\ stage' = "publish"
    /\ UNCHANGED <<uses, conn, inbound, closed, batch, turns, node, marks, watchers, wanted, views,
                   seats, ota, dirty, piloted, late, sends, nodeEvents>>

(* The node table, when it changed or once a second.                       *)
Publish == \E due \in BOOLEAN :
    /\ stage = "publish"
    /\ told' = IF dirty \/ due
               THEN [c \in Clients |-> IF c \in Open THEN [told[c] EXCEPT !.nodes = UpNodes]
                                                     ELSE told[c]]
               ELSE told
    /\ dirty' = FALSE
    /\ stage' = "poll"
    /\ UNCHANGED <<wsVars, batch, turns, node, marks, watchers, wanted, views, seats, ota,
                   piloted, late, sends, nodeEvents>>

HubNext ==
    \/ \E c \in Clients : ClientOpens(c) \/ ClientCloses(c)
    \/ \E c \in Clients, op \in uses.commands, n \in uses.nodes : ClientSends(c, op, n)
    \/ \E n \in uses.nodes : \/ NodeAppears(n) \/ NodeLeaves(n) \/ ReportArrives(n)
                             \/ SubscriptionAnswered(n) \/ SubscriptionGivenUp(n)
                             \/ StatusArrives(n)
                             \/ \E t \in uses.tables : PageArrives(n, t)
    \/ UpdateEnds
    \/ DrainInbound \/ ApplyClientMessage \/ DrainClosed \/ DrainConnected \/ Publish

HubSpec == HubInit /\ [][HubNext]_hubVars

-----------------------------------------------------------------------------
\* What a client may be told of a node's table: nothing, or what was pulled
\* of this boot; and of the measures nothing or all.
CurrentView(n, t, view) ==
    /\ view.pages # 0 => node[n].up /\ view.boot = node[n].boot
    /\ t = "measures" => view.pages \in {0, Pages}

(* A client that had its snapshot is told nothing of an earlier boot or of *)
(* a node that left; it has been told of every table the hub holds whole,  *)
(* and of the node table unless it is about to be published; and it never  *)
(* holds part of a measure table (hub_app.cpp, snapshot and housekeeping;  *)
(* the gateways' onTable, onForgotten and onClientConnected).              *)
ViewsAgree ==
    \A c \in Open \ connected :
        /\ \A n \in Nodes, t \in Tables :
               /\ CurrentView(n, t, told[c].tables[n][t])
               /\ Whole(n, t) => told[c].tables[n][t].pages = Pages
        /\ dirty \/ told[c].nodes = UpNodes

(* Nothing of a client outlives it: once its close is drained, no stream   *)
(* is held for it, it watches nothing and pilots nothing - unless one of   *)
(* its messages is served after that (hub_app.cpp, housekeeping; the       *)
(* gateways' onClientClosed).                                              *)
NothingOutlivesClient ==
    \A c \in Clients : conn[c] = "gone" /\ c \notin closed \cup late =>
        /\ c \notin watchers
        /\ \A n \in Nodes : c \notin marks[n] /\ seats[n].client # c

(* A node changes pilots only after the one it had fell silent for the     *)
(* window or went away (gateway_pilot.cpp).                                *)
OnePilot ==
    [][\A n \in Nodes :
           LET before == piloted[n] after == piloted'[n]
           IN (before.client # NoOne /\ after.client # before.client) =>
                  (after.at - before.at > PilotWindow \/ conn[before.client] = "gone")]_hubVars

(* A tab that went away does not leave a node streaming to nobody: a       *)
(* stream that is held is held for a client that is there, or whose close  *)
(* is still to be drained (gateway_telemetry.cpp, onClientClosed).         *)
StreamHasAudience ==
    \A n \in UpNodes : node[n].stream.subscribed /\ marks[n] # {} =>
                           marks[n] \cap (Open \cup closed) # {}

(* The stream is held while at least one client wants it, and given back   *)
(* when the last one clears, once the consumer waits for no answer         *)
(* (gateway_telemetry.cpp, mark).                                          *)
StreamIsHeld ==
    \A n \in UpNodes : ~node[n].stream.request =>
                           (node[n].stream.subscribed <=> marks[n] # {})

(* A tab that went away does not leave the nodes reporting to nobody, once *)
(* the consumer waits for no answer (gateway_transport.cpp,                *)
(* onClientClosed).                                                        *)
ReportsAreGivenBack ==
    \A n \in UpNodes : ~wanted /\ ~node[n].reports.request => ~node[n].reports.subscribed

(* What a client holds of a table is the whole of it (hub README, gateway  *)
(* to client: whole to a client that connects).                            *)
TablesAreToldWhole ==
    \A c \in Open, n \in Nodes, t \in Tables : told[c].tables[n][t].pages \in {0, Pages}

(* Nothing stale is published to a client that connects after the reports  *)
(* were given back (gateway_transport.hpp, forgetRemote).                  *)
ViewsAreWatched == views # {} => wanted

(* The status the update panel shows is the target's (gateway_codec.cpp,   *)
(* otaStateOf pairs the two).                                              *)
BoardIsTarget == ota.busy /\ ota.board # NoOne => ota.board = ota.target

-----------------------------------------------------------------------------
(* The inductive invariant of the hub (Network_proof).                     *)
ClientMessages == [client : Clients, op : Commands, node : Nodes]
SeatType == [client : Clients \cup {NoOne}, at : Nat]

Subscriptions == [subscribed : BOOLEAN, request : BOOLEAN, asked : SUBSET BOOLEAN]
NodeEntries == [up : BOOLEAN, boot : Nat, walk : [Tables -> 0..Pages],
                stream : Subscriptions, reports : Subscriptions]
Views == [boot : Nat, pages : 0..Pages]
ToldType == [tables : [Nodes -> [Tables -> Views]], nodes : SUBSET Nodes]
OtaType == [target : Nodes \cup {NoOne}, busy : BOOLEAN, asked : SUBSET Nodes,
            board : Nodes \cup {NoOne}]

LoopTypeOK ==
    /\ uses \in Uses /\ conn \in [Clients -> {"new", "open", "gone"}]
    /\ inbound \in Seq(ClientMessages) /\ batch \in Seq(ClientMessages)
    /\ connected \subseteq Clients /\ closed \subseteq Clients
    /\ stage \in {"poll", "clients", "connected", "publish"} /\ turns \in Nat
    /\ late \subseteq Clients /\ sends \in Nat /\ nodeEvents \in Nat

GatewayTypeOK ==
    /\ node \in [Nodes -> NodeEntries] /\ marks \in [Nodes -> SUBSET Clients]
    /\ watchers \subseteq Clients /\ wanted \in BOOLEAN /\ views \subseteq Nodes
    /\ seats \in [Nodes -> SeatType] /\ piloted \in [Nodes -> SeatType]
    /\ ota \in OtaType /\ dirty \in BOOLEAN
    /\ told \in [Clients -> ToldType]

HubTypeOK == LoopTypeOK /\ GatewayTypeOK

\* A connection is queued as closed only when it is gone, and as connected
\* when it has been open.
QueuesAreTrue ==
    /\ \A c \in closed : conn[c] = "gone"
    /\ \A c \in connected : conn[c] # "new"

\* Nobody follows a node that is not there, and the reports are wanted while
\* somebody watches the wire.
MarksAreLive ==
    /\ \A n \in Nodes : ~node[n].up => marks[n] = {}
    /\ wanted <=> watchers # {}

\* What a client was told before its snapshot does not outlive the snapshot.
NothingStaleIsTold ==
    /\ \A c \in Clients : conn[c] = "new" => told[c] = NothingTold
    /\ \A c \in Open, n \in Nodes, t \in Tables : CurrentView(n, t, told[c].tables[n][t])

\* The last input forwarded to a node is the one that holds its seat, unless
\* its client is out of time or gone.
SeatIsLastInput ==
    \A n \in Nodes : piloted[n].client # NoOne =>
        \/ seats[n] = piloted[n]
        \/ turns - piloted[n].at > PilotWindow
        \/ conn[piloted[n].client] = "gone"

HubInv ==
    /\ HubTypeOK
    /\ QueuesAreTrue
    /\ MarksAreLive
    /\ NothingStaleIsTold
    /\ ViewsAgree
    /\ NothingOutlivesClient
    /\ SeatIsLastInput
=============================================================================
