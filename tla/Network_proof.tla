--------------------------- MODULE Network_proof ---------------------------
(***************************************************************************)
(* HubInv is an invariant of the hub, for any clients, nodes, commands,    *)
(* pilot window, queue bound, length of the tables and number of turns;    *)
(* with it, every client was told what the hub holds, nothing of a client  *)
(* outlives it but what is served late, and a node never changes pilots    *)
(* under a live one.                                                       *)
(*                                                                         *)
(* TransportInv is an invariant of the transport, for any nodes on any     *)
(* links that form no loop, any table size, hop limit, range of sequence   *)
(* numbers and number of disturbances; with it, routes lead to their nodes *)
(* and a payload is handed over once.                                      *)
(***************************************************************************)
EXTENDS Hub, Transport, FiniteSetTheorems, TLAPS

-----------------------------------------------------------------------------
(* The hub.                                                                *)

LEMMA HubInitInv == HubInit => HubInv
  <1> SUFFICES ASSUME HubInit PROVE HubInv
      OBVIOUS
  <1> USE DEF HubInit
  <1>1. LoopTypeOK
      BY DEF LoopTypeOK
  <1>2. NothingTold \in ToldType
      BY HubAssumption DEF NothingTold, ToldType, NoTable, Views
  <1>3. NoNodeEntry \in NodeEntries
      BY HubAssumption DEF NoNodeEntry, NodeEntries, NoSubscription, Subscriptions
  <1>4. seats \in [Nodes -> SeatType] /\ piloted \in [Nodes -> SeatType]
      BY DEF NoSeat, SeatType
  <1>5. HubTypeOK
      BY <1>1, <1>2, <1>3, <1>4 DEF HubTypeOK, GatewayTypeOK, OtaType
  <1>6. QueuesAreTrue /\ SeatIsLastInput
      BY DEF QueuesAreTrue, SeatIsLastInput, NoSeat
  <1>7. MarksAreLive
      BY DEF MarksAreLive, NoNodeEntry
  <1>8. NothingStaleIsTold /\ ViewsAgree /\ NothingOutlivesClient
      BY DEF NothingStaleIsTold, ViewsAgree, NothingOutlivesClient, Open
  <1> QED
      BY <1>5, <1>6, <1>7, <1>8 DEF HubInv

-----------------------------------------------------------------------------
(* Entries.                                                                *)

\* What the views of the clients depend on.
SameTables(after, before) ==
    /\ after.up = before.up /\ after.boot = before.boot
    /\ \A t \in Tables : after.walk[t] \in {before.walk[t], 0}

LEMMA AskIsSubscription ==
    ASSUME NEW s \in Subscriptions, NEW on \in BOOLEAN, NEW taken \in BOOLEAN
    PROVE  Ask(s, on, taken) \in Subscriptions
  BY DEF Ask, Subscriptions

LEMMA EntryWith ==
    ASSUME NEW e \in NodeEntries, NEW s \in Subscriptions
    PROVE  /\ [e EXCEPT !.stream = s] \in NodeEntries
           /\ SameTables([e EXCEPT !.stream = s], e)
           /\ [e EXCEPT !.reports = s] \in NodeEntries
           /\ SameTables([e EXCEPT !.reports = s], e)
  BY DEF NodeEntries, SameTables

LEMMA SetWantedIs ==
    ASSUME NEW entries \in [Nodes -> NodeEntries], NEW on \in BOOLEAN, NEW taken \in SUBSET Nodes
    PROVE  /\ SetWanted(entries, on, taken) \in [Nodes -> NodeEntries]
           /\ \A n \in Nodes : SameTables(SetWanted(entries, on, taken)[n], entries[n])
  <1> DEFINE after == SetWanted(entries, on, taken)
             asked(n) == [entries[n] EXCEPT !.reports = Ask(entries[n].reports, on, n \in taken)]
  <1>1. after = [n \in Nodes |->
                    IF on = wanted \/ ~entries[n].up \/ (~on /\ ~entries[n].reports.subscribed)
                    THEN entries[n] ELSE asked(n)]
      BY DEF SetWanted
  <1>2. ASSUME NEW n \in Nodes
        PROVE  asked(n) \in NodeEntries /\ SameTables(asked(n), entries[n])
    <2>1. entries[n].reports \in Subscriptions /\ (n \in taken) \in BOOLEAN
        BY DEF NodeEntries
    <2>2. Ask(entries[n].reports, on, n \in taken) \in Subscriptions
        BY <2>1, AskIsSubscription
    <2> QED
        BY <2>2, EntryWith
  <1>3. \A n \in Nodes : SameTables(entries[n], entries[n])
      BY DEF SameTables
  <1> HIDE DEF after, asked
  <1>4. after \in [Nodes -> NodeEntries] /\ \A n \in Nodes : SameTables(after[n], entries[n])
      BY <1>1, <1>2, <1>3
  <1> QED
      BY <1>4 DEF after

LEMMA StreamsWithoutIs ==
    ASSUME HubTypeOK, NEW gone \in SUBSET Clients, NEW taken \in SUBSET Nodes
    PROVE  /\ StreamsWithout(gone, taken) \in [Nodes -> NodeEntries]
           /\ \A n \in Nodes : SameTables(StreamsWithout(gone, taken)[n], node[n])
  <1> DEFINE after == StreamsWithout(gone, taken)
             asked(n) == [node[n] EXCEPT !.stream = Ask(node[n].stream, FALSE, n \in taken)]
  <1>0. node \in [Nodes -> NodeEntries]
      BY DEF HubTypeOK, GatewayTypeOK
  <1>1. after = [n \in Nodes |-> IF marks[n] # {} /\ marks[n] \subseteq gone
                                THEN asked(n) ELSE node[n]]
      BY DEF StreamsWithout
  <1>2. ASSUME NEW n \in Nodes
        PROVE  asked(n) \in NodeEntries /\ SameTables(asked(n), node[n])
    <2>1. node[n].stream \in Subscriptions /\ (n \in taken) \in BOOLEAN
        BY <1>0 DEF NodeEntries
    <2>2. Ask(node[n].stream, FALSE, n \in taken) \in Subscriptions
        BY <2>1, AskIsSubscription
    <2> QED
        BY <1>0, <2>2, EntryWith
  <1>3. \A n \in Nodes : SameTables(node[n], node[n])
      BY DEF SameTables
  <1> HIDE DEF after, asked
  <1>4. after \in [Nodes -> NodeEntries] /\ \A n \in Nodes : SameTables(after[n], node[n])
      BY <1>0, <1>1, <1>2, <1>3
  <1> QED
      BY <1>4 DEF after

(* What the clients were told stays true while no connection comes or goes *)
(* and no node either, and no table is completed: a table that is pulled   *)
(* again is not whole.                                                     *)
LEMMA ToldStaysTrue ==
    ASSUME HubInv, UNCHANGED <<conn, connected, dirty, told>>,
           \A n \in Nodes : SameTables(node'[n], node[n])
    PROVE  NothingStaleIsTold' /\ ViewsAgree'
  <1>1. \A n \in Nodes : node'[n].up = node[n].up /\ node'[n].boot = node[n].boot
      BY DEF SameTables
  <1>2. \A n \in Nodes, t \in Tables : Whole(n, t)' => Whole(n, t)
      BY <1>1, HubAssumption DEF Whole, SameTables
  <1>3. Open' = Open /\ UpNodes' = UpNodes
      BY <1>1 DEF Open, UpNodes
  <1>4. ASSUME NEW n \in Nodes, NEW t \in Tables, NEW view, CurrentView(n, t, view)
        PROVE  CurrentView(n, t, view)'
      BY <1>1, <1>4 DEF CurrentView
  <1>5. ASSUME NEW n \in Nodes, NEW t \in Tables, NEW c \in Clients,
               CurrentView(n, t, told[c].tables[n][t])
        PROVE  CurrentView(n, t, told[c].tables[n][t])'
      BY <1>1, <1>5 DEF CurrentView
  <1>6. NothingStaleIsTold'
      BY <1>3, <1>5 DEF HubInv, NothingStaleIsTold, NothingTold, NoTable, Open
  <1>7. ViewsAgree'
      BY <1>2, <1>3, <1>5 DEF HubInv, ViewsAgree, Open
  <1> QED
      BY <1>6, <1>7

-----------------------------------------------------------------------------
(* The connection threads.                                                 *)

LEMMA ThreadsKeep ==
    ASSUME HubInv, NEW c \in Clients, ClientOpens(c) \/ ClientCloses(c)
    PROVE  HubInv'
  <1> USE DEF HubInv, HubTypeOK, LoopTypeOK, GatewayTypeOK, gatewayVars
  <1>1. HubTypeOK'
      BY DEF ClientOpens, ClientCloses
  <1>2. QueuesAreTrue'
      BY DEF ClientOpens, ClientCloses, QueuesAreTrue
  <1>3. MarksAreLive'
      BY DEF ClientOpens, ClientCloses, MarksAreLive
  <1>4. UpNodes' = UpNodes /\ UNCHANGED <<told, node, dirty>>
      BY DEF ClientOpens, ClientCloses, UpNodes
  <1>5. NothingStaleIsTold'
    <2>1. Open' \subseteq Open \cup {c}
        BY DEF ClientOpens, ClientCloses, Open
    <2>2. \A d \in Clients : conn'[d] = "new" => conn[d] = "new"
        BY DEF ClientOpens, ClientCloses
    <2>3. ASSUME NEW d \in Open', NEW n \in Nodes, NEW t \in Tables
          PROVE  CurrentView(n, t, told[d].tables[n][t])
      <3>1. CASE d \in Open
          BY <3>1 DEF NothingStaleIsTold
      <3>2. CASE d \notin Open
        <4>1. d = c /\ conn[c] = "new"
            BY <2>1, <3>2 DEF ClientOpens, ClientCloses, Open
        <4>2. told[d] = NothingTold
            BY <4>1 DEF NothingStaleIsTold
        <4>3. told[d].tables[n][t] = NoTable
            BY <4>2 DEF NothingTold
        <4> QED
            BY <4>3 DEF CurrentView, NoTable
      <3> QED
          BY <3>1, <3>2
    <2>4. \A d \in Clients : conn'[d] = "new" => told[d] = NothingTold
        BY <2>2 DEF NothingStaleIsTold
    <2> HIDE DEF HubInv, HubTypeOK, LoopTypeOK, GatewayTypeOK, gatewayVars
    <2> QED
        BY <1>4, <2>3, <2>4 DEF NothingStaleIsTold, CurrentView, NothingTold, NoTable
  <1>6. ViewsAgree'
    <2>1. Open' \ connected' \subseteq Open \ connected
        BY DEF ClientOpens, ClientCloses, Open
    <2> QED
        BY <1>4, <2>1 DEF ViewsAgree, CurrentView, Whole
  <1>7. SeatIsLastInput'
    <2>1. \A d \in Clients : conn[d] = "gone" => conn'[d] = "gone"
        BY DEF ClientOpens, ClientCloses
    <2> QED
        BY <2>1 DEF ClientOpens, ClientCloses, SeatIsLastInput, SeatType
  <1>8. NothingOutlivesClient'
    <2>1. \A d \in Clients : conn'[d] = "gone" /\ d \notin closed' => conn[d] = "gone" /\ d \notin closed
        BY DEF ClientOpens, ClientCloses
    <2> QED
        BY <2>1 DEF ClientOpens, ClientCloses, NothingOutlivesClient
  <1> QED
      BY <1>1, <1>2, <1>3, <1>5, <1>6, <1>7, <1>8

(* A step that leaves the gateways, the connections and the clock alone.   *)
LEMMA QuietKeeps ==
    ASSUME HubInv, UNCHANGED <<conn, connected, closed, late, gatewayVars>>,
           turns' \in Nat, turns' >= turns
    PROVE  /\ QueuesAreTrue' /\ MarksAreLive' /\ NothingStaleIsTold' /\ ViewsAgree'
           /\ SeatIsLastInput' /\ NothingOutlivesClient'
  <1> USE DEF HubInv, HubTypeOK, LoopTypeOK, GatewayTypeOK, gatewayVars
  <1>1. QueuesAreTrue' /\ MarksAreLive' /\ NothingOutlivesClient'
      BY DEF QueuesAreTrue, MarksAreLive, NothingOutlivesClient
  <1>2. NothingStaleIsTold' /\ ViewsAgree'
    <2>1. \A n \in Nodes : SameTables(node'[n], node[n])
        BY DEF SameTables
    <2> QED
        BY <2>1, ToldStaysTrue
  <1>3. SeatIsLastInput'
      BY HubAssumption DEF SeatIsLastInput, SeatType
  <1> QED
      BY <1>1, <1>2, <1>3

LEMMA SendsKeep ==
    ASSUME HubInv, NEW c \in Clients, NEW op \in uses.commands, NEW n \in uses.nodes,
           ClientSends(c, op, n)
    PROVE  HubInv'
  <1> USE DEF HubInv, HubTypeOK, LoopTypeOK, GatewayTypeOK, gatewayVars
  <1>1. op \in Commands /\ n \in Nodes
      BY HubAssumption
  <1>2. [client |-> c, op |-> op, node |-> n] \in ClientMessages
      BY <1>1 DEF ClientMessages
  <1>3. inbound' \in Seq(ClientMessages)
      BY <1>2 DEF ClientSends
  <1>4. HubTypeOK'
      BY <1>3 DEF ClientSends
  <1> QED
      BY <1>4, QuietKeeps DEF ClientSends

LEMMA DrainInboundKeeps ==
    ASSUME HubInv, DrainInbound
    PROVE  HubInv'
  <1> USE DEF HubInv, HubTypeOK, LoopTypeOK, GatewayTypeOK, gatewayVars
  <1>1. HubTypeOK'
      BY DEF DrainInbound
  <1> QED
      BY <1>1, QuietKeeps DEF DrainInbound

-----------------------------------------------------------------------------
(* What the nodes do.                                                      *)

(* A broadcast of a table reaches every client that is open, and no other. *)
LEMMA TellTableTells ==
    ASSUME HubTypeOK, NEW n \in Nodes, NEW t \in Tables, NEW view \in Views,
           TellTable(n, t, view)
    PROVE  /\ told' \in [Clients -> ToldType]
           /\ \A c \in Clients \ Open : told'[c] = told[c]
           /\ \A c \in Open : /\ told'[c].nodes = told[c].nodes
                              /\ \A m \in Nodes, u \in Tables : told'[c].tables[m][u] =
                                     IF m = n /\ u = t THEN view ELSE told[c].tables[m][u]
  <1> DEFINE row(c) == [told[c].tables[n] EXCEPT ![t] = view]
             rows(c) == [told[c].tables EXCEPT ![n] = row(c)]
  <1>1. told \in [Clients -> ToldType]
      BY DEF HubTypeOK, GatewayTypeOK
  <1>2. told' = [c \in Clients |-> IF c \in Open THEN [told[c] EXCEPT !.tables = rows(c)]
                                                  ELSE told[c]]
      BY DEF TellTable
  <1>3. ASSUME NEW c \in Clients
        PROVE  /\ rows(c) \in [Nodes -> [Tables -> Views]]
               /\ \A m \in Nodes, u \in Tables : rows(c)[m][u] =
                      IF m = n /\ u = t THEN view ELSE told[c].tables[m][u]
    <2>1. told[c].tables \in [Nodes -> [Tables -> Views]]
        BY <1>1 DEF ToldType
    <2>2. /\ row(c) \in [Tables -> Views]
          /\ \A u \in Tables : row(c)[u] = IF u = t THEN view ELSE told[c].tables[n][u]
        BY <2>1
    <2> HIDE DEF row
    <2> QED
        BY <2>1, <2>2
  <1> HIDE DEF row, rows
  <1>4. ASSUME NEW c \in Clients
        PROVE  [told[c] EXCEPT !.tables = rows(c)] \in ToldType
      BY <1>1, <1>3 DEF ToldType
  <1>5. told' \in [Clients -> ToldType]
      BY <1>1, <1>2, <1>4
  <1>6. ASSUME NEW c \in Open
        PROVE  told'[c].nodes = told[c].nodes /\ told'[c].tables = rows(c)
    <2>1. c \in Clients /\ told[c] \in ToldType
        BY <1>1 DEF Open
    <2>2. told'[c] = [told[c] EXCEPT !.tables = rows(c)]
        BY <1>2, <2>1
    <2> QED
        BY <2>1, <2>2 DEF ToldType
  <1>7. \A c \in Clients \ Open : told'[c] = told[c]
      BY <1>2
  <1> QED
      BY <1>3, <1>5, <1>6, <1>7 DEF Open

(* The same of the empty tables of a node that left.                       *)
LEMMA ForgetTableTells ==
    ASSUME HubTypeOK, NEW n \in Nodes, ForgetTable(n)
    PROVE  /\ told' \in [Clients -> ToldType]
           /\ \A c \in Clients \ Open : told'[c] = told[c]
           /\ \A c \in Open : /\ told'[c].nodes = told[c].nodes
                              /\ \A m \in Nodes, u \in Tables : told'[c].tables[m][u] =
                                     IF m = n THEN NoTable ELSE told[c].tables[m][u]
  <1> DEFINE none == [t \in Tables |-> NoTable]
             rows(c) == [told[c].tables EXCEPT ![n] = none]
  <1>1. told \in [Clients -> ToldType]
      BY DEF HubTypeOK, GatewayTypeOK
  <1>2. told' = [c \in Clients |-> IF c \in Open THEN [told[c] EXCEPT !.tables = rows(c)]
                                                  ELSE told[c]]
      BY DEF ForgetTable
  <1>3. ASSUME NEW c \in Clients
        PROVE  /\ rows(c) \in [Nodes -> [Tables -> Views]]
               /\ \A m \in Nodes, u \in Tables : rows(c)[m][u] =
                      IF m = n THEN NoTable ELSE told[c].tables[m][u]
    <2>1. told[c].tables \in [Nodes -> [Tables -> Views]]
        BY <1>1 DEF ToldType
    <2>2. none \in [Tables -> Views] /\ \A u \in Tables : none[u] = NoTable
        BY HubAssumption DEF NoTable, Views
    <2> HIDE DEF none
    <2> QED
        BY <2>1, <2>2
  <1> HIDE DEF none, rows
  <1>4. ASSUME NEW c \in Clients
        PROVE  [told[c] EXCEPT !.tables = rows(c)] \in ToldType
      BY <1>1, <1>3 DEF ToldType
  <1>5. told' \in [Clients -> ToldType]
      BY <1>1, <1>2, <1>4
  <1>6. ASSUME NEW c \in Open
        PROVE  told'[c].nodes = told[c].nodes /\ told'[c].tables = rows(c)
    <2>1. c \in Clients /\ told[c] \in ToldType
        BY <1>1 DEF Open
    <2>2. told'[c] = [told[c] EXCEPT !.tables = rows(c)]
        BY <1>2, <2>1
    <2> QED
        BY <2>1, <2>2 DEF ToldType
  <1>7. \A c \in Clients \ Open : told'[c] = told[c]
      BY <1>2
  <1> QED
      BY <1>3, <1>5, <1>6, <1>7 DEF Open

LEMMA AppearsKeeps ==
    ASSUME HubInv, NEW n \in Nodes, NodeAppears(n)
    PROVE  HubInv'
  <1> USE DEF HubInv, HubTypeOK, GatewayTypeOK
  <1>1. PICK taken \in BOOLEAN :
            node' = [node EXCEPT ![n] =
                       [NoNodeEntry EXCEPT !.up = TRUE, !.boot = node[n].boot + 1,
                                           !.reports = IF wanted THEN Ask(NoSubscription, TRUE, taken)
                                                                 ELSE NoSubscription]]
      BY DEF NodeAppears
  <1> DEFINE reports == IF wanted THEN Ask(NoSubscription, TRUE, taken) ELSE NoSubscription
             entry == [NoNodeEntry EXCEPT !.up = TRUE, !.boot = node[n].boot + 1,
                                          !.reports = reports]
  <1>2. reports \in Subscriptions
    <2>1. NoSubscription \in Subscriptions
        BY DEF NoSubscription, Subscriptions
    <2> QED
        BY <2>1, AskIsSubscription
  <1> HIDE DEF reports
  <1>3. /\ entry \in NodeEntries /\ entry.up
        /\ \A t \in Tables : entry.walk[t] = 0
    <2>1. node[n].boot + 1 \in Nat
        BY DEF NodeEntries
    <2>2. NoNodeEntry \in NodeEntries /\ \A t \in Tables : NoNodeEntry.walk[t] = 0
        BY HubAssumption DEF NoNodeEntry, NodeEntries, NoSubscription, Subscriptions
    <2> QED
        BY <1>2, <2>1, <2>2 DEF NodeEntries
  <1>4. node' = [node EXCEPT ![n] = entry]
      BY <1>1 DEF reports
  <1> HIDE DEF entry
  <1>5. /\ node' \in [Nodes -> NodeEntries] /\ node'[n] = entry
        /\ \A m \in Nodes : m # n => node'[m] = node[m]
      BY <1>3, <1>4
  <1>6. ~node[n].up /\ dirty' /\ dirty' \in BOOLEAN
      BY DEF NodeAppears
  <1>7. UNCHANGED <<wsVars, stage, batch, turns, marks, watchers, wanted, views, seats, ota, told,
                    piloted, late, sends>> /\ nodeEvents' \in Nat
      BY DEF NodeAppears, NodeEvent, LoopTypeOK
  <1>8. LoopTypeOK'
      BY <1>7 DEF LoopTypeOK, wsVars
  <1>9. HubTypeOK'
      BY <1>5, <1>6, <1>7, <1>8
  <1>10. QueuesAreTrue' /\ SeatIsLastInput' /\ NothingOutlivesClient'
      BY <1>7 DEF QueuesAreTrue, SeatIsLastInput, NothingOutlivesClient, wsVars
  <1>11. MarksAreLive'
      BY <1>3, <1>5, <1>7 DEF MarksAreLive
  <1>12. Open' = Open
      BY <1>7 DEF Open, wsVars
  <1>13. ASSUME NEW m \in Nodes, NEW t \in Tables, NEW c \in Open
         PROVE  CurrentView(m, t, told[c].tables[m][t])'
    <2>1. CurrentView(m, t, told[c].tables[m][t])
        BY DEF NothingStaleIsTold
    <2>2. CASE m = n
        BY <1>6, <1>7, <2>1, <2>2 DEF CurrentView
    <2>3. CASE m # n
        BY <1>5, <1>7, <2>1, <2>3 DEF CurrentView
    <2> QED
        BY <2>2, <2>3
  <1>14. NothingStaleIsTold'
    <2>1. \A c \in Clients : conn'[c] = "new" => told'[c] = NothingTold
        BY <1>7 DEF NothingStaleIsTold, wsVars
    <2> QED
        BY <1>12, <1>13, <2>1 DEF NothingStaleIsTold, NothingTold, NoTable
  <1>15. ViewsAgree'
    <2>1. ASSUME NEW m \in Nodes, NEW t \in Tables, NEW c \in Open \ connected
          PROVE  Whole(m, t)' => told[c].tables[m][t].pages = Pages
      <3>1. Whole(m, t) => told[c].tables[m][t].pages = Pages
          BY DEF ViewsAgree
      <3>2. CASE m = n
          BY <1>3, <1>5, <3>2, HubAssumption DEF Whole
      <3>3. CASE m # n
          BY <1>5, <3>1, <3>3 DEF Whole
      <3> QED
          BY <3>2, <3>3
    <2>2. UNCHANGED <<told, connected>>
        BY <1>7 DEF wsVars
    <2> HIDE DEF HubInv, HubTypeOK, GatewayTypeOK
    <2> QED
        BY <1>6, <1>12, <1>13, <2>1, <2>2 DEF ViewsAgree
  <1> QED
      BY <1>9, <1>10, <1>11, <1>14, <1>15

LEMMA PageKeeps ==
    ASSUME HubInv, NEW n \in Nodes, NEW t \in Tables, PageArrives(n, t)
    PROVE  HubInv'
  <1> USE DEF HubInv, HubTypeOK, GatewayTypeOK
  <1> DEFINE walk == [node[n].walk EXCEPT ![t] = node[n].walk[t] + 1]
             entry == [node[n] EXCEPT !.walk = walk]
             view == [boot |-> node[n].boot, pages |-> Pages]
  <1>1. node[n] \in NodeEntries /\ node[n].up /\ node[n].walk[t] < Pages
      BY DEF PageArrives
  <1>2. /\ walk \in [Tables -> 0..Pages] /\ walk[t] = node[n].walk[t] + 1
        /\ \A u \in Tables : u # t => walk[u] = node[n].walk[u]
      BY <1>1, HubAssumption DEF NodeEntries
  <1> HIDE DEF walk
  <1>3. /\ entry \in NodeEntries /\ entry.up = node[n].up /\ entry.boot = node[n].boot
        /\ entry.walk = walk
      BY <1>1, <1>2 DEF NodeEntries
  <1>4. node' = [node EXCEPT ![n] = entry]
      BY DEF PageArrives, walk
  <1> HIDE DEF entry
  <1>5. /\ node' \in [Nodes -> NodeEntries] /\ node'[n] = entry
        /\ \A m \in Nodes : m # n => node'[m] = node[m]
      BY <1>3, <1>4
  <1>6. \A m \in Nodes : node'[m].up = node[m].up /\ node'[m].boot = node[m].boot
      BY <1>3, <1>5
  <1>7. UNCHANGED <<wsVars, stage, batch, turns, marks, watchers, wanted, views, seats, ota, dirty,
                    piloted, late, sends>> /\ nodeEvents' \in Nat
      BY DEF PageArrives, NodeEvent, LoopTypeOK
  <1>8. LoopTypeOK'
      BY <1>7 DEF LoopTypeOK, wsVars
  <1>9. QueuesAreTrue' /\ SeatIsLastInput' /\ NothingOutlivesClient'
      BY <1>7 DEF QueuesAreTrue, SeatIsLastInput, NothingOutlivesClient, wsVars
  <1>10. MarksAreLive'
      BY <1>6, <1>7 DEF MarksAreLive
  <1>11. Open' = Open /\ UpNodes' = UpNodes /\ UNCHANGED <<conn, connected>>
      BY <1>6, <1>7 DEF Open, UpNodes, wsVars
  <1>12. /\ told' \in [Clients -> ToldType]
         /\ \A c \in Clients \ Open : told'[c] = told[c]
         /\ \A c \in Open : told'[c].nodes = told[c].nodes
         /\ \A c \in Open, m \in Nodes, u \in Tables :
               \/ m = n /\ u = t /\ told'[c].tables[m][u] = view
               \/ (m = n /\ u = t => walk[t] # Pages) /\ told'[c].tables[m][u] = told[c].tables[m][u]
    <2>1. CASE node[n].walk[t] + 1 = Pages
      <3>1. view \in Views /\ TellTable(n, t, view)
          BY <1>1, <2>1, HubAssumption DEF PageArrives, Views, NodeEntries
      <3> HIDE DEF view
      <3> QED
          BY <3>1, TellTableTells
    <2>2. CASE node[n].walk[t] + 1 # Pages
        BY <1>2, <2>2 DEF PageArrives
    <2> QED
        BY <2>1, <2>2
  <1>13. ASSUME NEW c \in Open, NEW m \in Nodes, NEW u \in Tables
         PROVE  CurrentView(m, u, told[c].tables[m][u])'
    <2>1. CurrentView(m, u, told[c].tables[m][u])
        BY DEF NothingStaleIsTold
    <2>2. CASE m = n /\ u = t /\ told'[c].tables[m][u] = view
        BY <1>1, <1>6, <2>2, HubAssumption DEF CurrentView
    <2>3. CASE told'[c].tables[m][u] = told[c].tables[m][u]
        BY <1>6, <2>1, <2>3 DEF CurrentView
    <2> QED
        BY <1>12, <2>2, <2>3
  <1>14. NothingStaleIsTold'
    <2>1. \A c \in Clients : conn'[c] = "new" => told'[c] = NothingTold
        BY <1>11, <1>12 DEF NothingStaleIsTold, Open
    <2> QED
        BY <1>11, <1>13, <2>1 DEF NothingStaleIsTold, NothingTold, NoTable
  <1>15. ViewsAgree'
    <2>1. ASSUME NEW m \in Nodes, NEW u \in Tables, NEW c \in Open \ connected
          PROVE  Whole(m, u)' => told'[c].tables[m][u].pages = Pages
      <3>1. Whole(m, u) => told[c].tables[m][u].pages = Pages
          BY DEF ViewsAgree
      <3>2. CASE m = n /\ u = t /\ told'[c].tables[m][u] = view
          BY <3>2
      <3>3. CASE (m = n /\ u = t => walk[t] # Pages) /\ told'[c].tables[m][u] = told[c].tables[m][u]
        <4>1. Whole(m, u)' => Whole(m, u)
            BY <1>2, <1>3, <1>5, <3>3 DEF Whole
        <4> QED
            BY <3>1, <3>3, <4>1
      <3> QED
          BY <1>12, <3>2, <3>3
    <2>2. \A c \in Open \ connected : dirty' \/ told'[c].nodes = UpNodes'
        BY <1>7, <1>11, <1>12 DEF ViewsAgree
    <2> HIDE DEF HubInv, HubTypeOK, GatewayTypeOK, view
    <2> QED
        BY <1>11, <1>13, <2>1, <2>2 DEF ViewsAgree
  <1> HIDE DEF view
  <1>16. HubTypeOK'
      BY <1>5, <1>7, <1>8, <1>12
  <1> QED
      BY <1>9, <1>10, <1>14, <1>15, <1>16

LEMMA LeavesKeeps ==
    ASSUME HubInv, NEW n \in Nodes, NodeLeaves(n)
    PROVE  HubInv'
  <1> USE DEF HubInv, HubTypeOK, GatewayTypeOK
  <1> DEFINE entry == [NoNodeEntry EXCEPT !.boot = node[n].boot]
  <1>1. entry \in NodeEntries /\ ~entry.up
    <2>1. node[n].boot \in Nat
        BY DEF NodeEntries
    <2>2. NoNodeEntry \in NodeEntries /\ NoNodeEntry.up = FALSE
        BY HubAssumption DEF NoNodeEntry, NodeEntries, NoSubscription, Subscriptions
    <2> QED
        BY <2>1, <2>2 DEF NodeEntries
  <1>2. node' = [node EXCEPT ![n] = entry]
      BY DEF NodeLeaves
  <1> HIDE DEF entry
  <1>3. /\ node' \in [Nodes -> NodeEntries] /\ node'[n] = entry
        /\ \A m \in Nodes : m # n => node'[m] = node[m]
      BY <1>1, <1>2
  <1>4. /\ told' \in [Clients -> ToldType]
        /\ \A c \in Clients \ Open : told'[c] = told[c]
        /\ \A c \in Open : /\ told'[c].nodes = told[c].nodes
                           /\ \A m \in Nodes, u \in Tables : told'[c].tables[m][u] =
                                  IF m = n THEN NoTable ELSE told[c].tables[m][u]
      BY ForgetTableTells DEF NodeLeaves
  <1>5. /\ UNCHANGED <<wsVars, stage, batch, turns, watchers, wanted, seats, ota, piloted, late,
                       sends>>
        /\ marks' = [marks EXCEPT ![n] = {}] /\ dirty' = TRUE /\ views' \subseteq Nodes
        /\ nodeEvents' \in Nat
      BY DEF NodeLeaves, ForgetMarks, NodeEvent, LoopTypeOK
  <1>6. LoopTypeOK'
      BY <1>5 DEF LoopTypeOK, wsVars
  <1>7. HubTypeOK'
      BY <1>3, <1>4, <1>5, <1>6
  <1>8. QueuesAreTrue' /\ SeatIsLastInput' /\ NothingOutlivesClient'
      BY <1>5 DEF QueuesAreTrue, SeatIsLastInput, NothingOutlivesClient, wsVars
  <1>9. MarksAreLive'
      BY <1>3, <1>5 DEF MarksAreLive
  <1>10. Open' = Open /\ UNCHANGED <<conn, connected>>
      BY <1>5 DEF Open, wsVars
  <1>11. ASSUME NEW c \in Open, NEW m \in Nodes, NEW u \in Tables
         PROVE  CurrentView(m, u, told[c].tables[m][u])'
    <2>1. CurrentView(m, u, told[c].tables[m][u])
        BY DEF NothingStaleIsTold
    <2>2. CASE m = n
        BY <1>4, <2>2 DEF CurrentView, NoTable
    <2>3. CASE m # n
        BY <1>3, <1>4, <2>1, <2>3 DEF CurrentView
    <2> QED
        BY <2>2, <2>3
  <1>12. NothingStaleIsTold'
    <2>1. \A c \in Clients : conn'[c] = "new" => told'[c] = NothingTold
        BY <1>4, <1>10 DEF NothingStaleIsTold, Open
    <2> QED
        BY <1>10, <1>11, <2>1 DEF NothingStaleIsTold, NothingTold, NoTable
  <1>13. ViewsAgree'
    <2>1. ASSUME NEW m \in Nodes, NEW u \in Tables, NEW c \in Open \ connected
          PROVE  Whole(m, u)' => told'[c].tables[m][u].pages = Pages
      <3>1. Whole(m, u) => told[c].tables[m][u].pages = Pages
          BY DEF ViewsAgree
      <3>2. CASE m = n
          BY <1>1, <1>3, <3>2 DEF Whole
      <3>3. CASE m # n
          BY <1>3, <1>4, <3>1, <3>3 DEF Whole
      <3> QED
          BY <3>2, <3>3
    <2> HIDE DEF HubInv, HubTypeOK, GatewayTypeOK
    <2> QED
        BY <1>5, <1>10, <1>11, <2>1 DEF ViewsAgree
  <1> QED
      BY <1>7, <1>8, <1>9, <1>12, <1>13

LEMMA ReportsKeep ==
    ASSUME HubInv, UpdateEnds \/ \E n \in Nodes : ReportArrives(n) \/ StatusArrives(n)
    PROVE  HubInv'
  <1> USE DEF HubInv, HubTypeOK, GatewayTypeOK
  <1>1. UNCHANGED <<wsVars, stage, batch, turns, node, marks, watchers, wanted, seats, dirty,
                    told, piloted, late, sends>>
      BY DEF ReportArrives, StatusArrives, UpdateEnds
  <1>2. nodeEvents' \in {nodeEvents, nodeEvents + 1}
      BY DEF ReportArrives, StatusArrives, UpdateEnds, NodeEvent
  <1>3. ota' \in OtaType /\ views' \subseteq Nodes
      BY DEF ReportArrives, StatusArrives, UpdateEnds, OtaType
  <1>4. HubTypeOK'
    <2>1. LoopTypeOK'
        BY <1>1, <1>2 DEF LoopTypeOK, wsVars
    <2> QED
        BY <1>1, <1>3, <2>1
  <1>5. QueuesAreTrue' /\ SeatIsLastInput' /\ MarksAreLive' /\ NothingOutlivesClient'
      BY <1>1 DEF QueuesAreTrue, SeatIsLastInput, MarksAreLive, NothingOutlivesClient, wsVars
  <1>6. NothingStaleIsTold' /\ ViewsAgree'
    <2>1. \A n \in Nodes : SameTables(node'[n], node[n])
        BY <1>1 DEF SameTables
    <2> QED
        BY <1>1, <2>1, ToldStaysTrue DEF wsVars
  <1> QED
      BY <1>4, <1>5, <1>6

LEMMA SubscriptionsKeep ==
    ASSUME HubInv, NEW n \in Nodes, SubscriptionAnswered(n) \/ SubscriptionGivenUp(n)
    PROVE  HubInv'
  <1> USE DEF HubInv, HubTypeOK, GatewayTypeOK
  <1>1. UNCHANGED <<wsVars, stage, batch, turns, marks, watchers, wanted, views, seats, ota, dirty,
                    told, piloted, late, sends, nodeEvents>>
      BY DEF SubscriptionAnswered, SubscriptionGivenUp
  <1>2. node[n] \in NodeEntries /\ node[n].stream \in Subscriptions /\ node[n].reports \in Subscriptions
      BY DEF NodeEntries
  <1>3. \E s \in Subscriptions : \/ node' = [node EXCEPT ![n] = [node[n] EXCEPT !.stream = s]]
                                 \/ node' = [node EXCEPT ![n] = [node[n] EXCEPT !.reports = s]]
    <2>1. CASE SubscriptionAnswered(n)
      <3>1. PICK on \in BOOLEAN :
                \/ node' = [node EXCEPT ![n] =
                              [node[n] EXCEPT !.stream = AnswerOf(node[n].stream, on)]]
                \/ node' = [node EXCEPT ![n] =
                              [node[n] EXCEPT !.reports = AnswerOf(node[n].reports, on)]]
          BY <2>1 DEF SubscriptionAnswered
      <3>2. AnswerOf(node[n].stream, on) \in Subscriptions /\ AnswerOf(node[n].reports, on) \in Subscriptions
          BY <1>2 DEF AnswerOf, Subscriptions
      <3> QED
          BY <3>1, <3>2
    <2>2. CASE SubscriptionGivenUp(n)
      <3>1. /\ [node[n].stream EXCEPT !.request = FALSE] \in Subscriptions
            /\ [node[n].reports EXCEPT !.request = FALSE] \in Subscriptions
          BY <1>2 DEF Subscriptions
      <3> QED
          BY <2>2, <3>1 DEF SubscriptionGivenUp
    <2> QED
        BY <2>1, <2>2
  <1>4. PICK entry \in NodeEntries : /\ node' = [node EXCEPT ![n] = entry]
                                     /\ SameTables(entry, node[n])
      BY <1>2, <1>3, EntryWith
  <1>5. node' \in [Nodes -> NodeEntries] /\ \A m \in Nodes : SameTables(node'[m], node[m])
    <2>1. \A m \in Nodes : SameTables(node[m], node[m])
        BY DEF SameTables
    <2> QED
        BY <1>4, <2>1
  <1>6. LoopTypeOK'
      BY <1>1 DEF LoopTypeOK, wsVars
  <1>7. HubTypeOK'
      BY <1>1, <1>5, <1>6
  <1>8. QueuesAreTrue' /\ SeatIsLastInput' /\ NothingOutlivesClient'
      BY <1>1 DEF QueuesAreTrue, SeatIsLastInput, NothingOutlivesClient, wsVars
  <1>9. MarksAreLive'
      BY <1>1, <1>5 DEF MarksAreLive, SameTables
  <1>10. NothingStaleIsTold' /\ ViewsAgree'
      BY <1>1, <1>5, ToldStaysTrue DEF wsVars
  <1> QED
      BY <1>7, <1>8, <1>9, <1>10

-----------------------------------------------------------------------------
(* The messages of the clients.                                            *)

LEMMA TelemetryKeeps ==
    ASSUME HubInv, NEW m \in ClientMessages, ApplyTelemetry(m)
    PROVE  /\ node' \in [Nodes -> NodeEntries] /\ marks' \in [Nodes -> SUBSET Clients]
           /\ \A n \in Nodes : SameTables(node'[n], node[n])
           /\ \A n \in Nodes : marks'[n] \subseteq marks[n] \cup {m.client}
           /\ MarksAreLive'
  <1> USE DEF HubInv, HubTypeOK, GatewayTypeOK
  <1>0. m.client \in Clients /\ m.node \in Nodes /\ UNCHANGED <<wanted, watchers>>
      BY DEF ClientMessages, ApplyTelemetry
  <1>1. \A n \in Nodes : SameTables(node[n], node[n])
      BY DEF SameTables
  <1>2. CASE UNCHANGED <<marks, node>>
      BY <1>0, <1>1, <1>2 DEF MarksAreLive
  <1>3. ASSUME node[m.node].up, NEW taken \in BOOLEAN, Mark(m.client, m.node, m.op = "follow", taken)
        PROVE  /\ node' \in [Nodes -> NodeEntries] /\ marks' \in [Nodes -> SUBSET Clients]
               /\ \A n \in Nodes : SameTables(node'[n], node[n])
               /\ \A n \in Nodes : marks'[n] \subseteq marks[n] \cup {m.client}
               /\ MarksAreLive'
    <2> DEFINE clients == IF m.op = "follow" THEN marks[m.node] \cup {m.client}
                                             ELSE marks[m.node] \ {m.client}
               asked == [node[m.node] EXCEPT !.stream = Ask(node[m.node].stream, clients # {}, taken)]
    <2>1. marks' = [marks EXCEPT ![m.node] = clients] /\ clients \subseteq Clients
        BY <1>0, <1>3 DEF Mark
    <2>2. node' = node \/ node' = [node EXCEPT ![m.node] = asked]
        BY <1>3 DEF Mark
    <2>3. clients \subseteq marks[m.node] \cup {m.client}
        OBVIOUS
    <2> HIDE DEF clients
    <2>4. asked \in NodeEntries /\ SameTables(asked, node[m.node])
      <3>1. node[m.node] \in NodeEntries /\ node[m.node].stream \in Subscriptions
          BY <1>0 DEF NodeEntries
      <3>2. Ask(node[m.node].stream, clients # {}, taken) \in Subscriptions
          BY <3>1, <1>3, AskIsSubscription
      <3> QED
          BY <3>1, <3>2, EntryWith
    <2> HIDE DEF asked
    <2>5. node' \in [Nodes -> NodeEntries] /\ \A n \in Nodes : SameTables(node'[n], node[n])
        BY <1>0, <1>1, <2>2, <2>4
    <2>6. marks' \in [Nodes -> SUBSET Clients]
          /\ \A n \in Nodes : marks'[n] \subseteq marks[n] \cup {m.client}
        BY <1>0, <2>1, <2>3
    <2>7. MarksAreLive'
        BY <1>0, <1>3, <2>1, <2>5 DEF MarksAreLive, SameTables
    <2> QED
        BY <2>5, <2>6, <2>7
  <1> QED
      BY <1>2, <1>3 DEF ApplyTelemetry

(* The reports are wanted exactly while someone watches.                   *)
LEMMA WatchKeeps ==
    ASSUME HubInv, NEW clients \in SUBSET Clients, Watch(clients)
    PROVE  /\ watchers' = clients /\ wanted' \in BOOLEAN /\ views' \subseteq Nodes
           /\ wanted' <=> watchers' # {}
  BY DEF HubInv, HubTypeOK, GatewayTypeOK, MarksAreLive, Watch

LEMMA TransportKeeps ==
    ASSUME HubInv, NEW m \in ClientMessages, ApplyTransport(m)
    PROVE  /\ node' \in [Nodes -> NodeEntries]
           /\ watchers' \subseteq Clients /\ wanted' \in BOOLEAN /\ views' \subseteq Nodes
           /\ watchers' \subseteq watchers \cup {m.client}
           /\ \A n \in Nodes : SameTables(node'[n], node[n])
           /\ MarksAreLive'
  <1> USE DEF HubInv, HubTypeOK, GatewayTypeOK
  <1> DEFINE clients == IF m.op = "watch" THEN watchers \cup {m.client}
                                          ELSE watchers \ {m.client}
  <1>1. /\ clients \in SUBSET Clients /\ Watch(clients)
        /\ clients \subseteq watchers \cup {m.client}
      BY DEF ClientMessages, ApplyTransport
  <1> HIDE DEF clients
  <1>2. /\ watchers' = clients /\ wanted' \in BOOLEAN /\ views' \subseteq Nodes
        /\ wanted' <=> watchers' # {}
      BY <1>1, WatchKeeps
  <1>3. PICK taken \in SUBSET Nodes : node' = SetWanted(node, wanted', taken)
      BY DEF ApplyTransport
  <1>4. node' \in [Nodes -> NodeEntries] /\ \A n \in Nodes : SameTables(node'[n], node[n])
      BY <1>2, <1>3, SetWantedIs
  <1>5. MarksAreLive'
      BY <1>2, <1>4 DEF MarksAreLive, ApplyTransport, SameTables
  <1> QED
      BY <1>1, <1>2, <1>4, <1>5

LEMMA RefreshKeeps ==
    ASSUME HubInv, NEW m \in ClientMessages, ApplyRefresh(m)
    PROVE  /\ node' \in [Nodes -> NodeEntries]
           /\ \A n \in Nodes : SameTables(node'[n], node[n])
           /\ MarksAreLive'
  <1> USE DEF HubInv, HubTypeOK, GatewayTypeOK
  <1> DEFINE walk == [node[m.node].walk EXCEPT !["modules"] = 0]
             entry == [node[m.node] EXCEPT !.walk = walk]
  <1>1. m.node \in Nodes /\ node[m.node] \in NodeEntries
      BY DEF ClientMessages
  <1>2. walk \in [Tables -> 0..Pages] /\ \A t \in Tables : walk[t] \in {node[m.node].walk[t], 0}
    <2>1. node[m.node].walk \in [Tables -> 0..Pages]
        BY <1>1 DEF NodeEntries
    <2>2. 0 \in 0..Pages
        BY HubAssumption
    <2> HIDE DEF HubInv, HubTypeOK, GatewayTypeOK
    <2> QED
        BY <2>1, <2>2
  <1>3. node' = node \/ node' = [node EXCEPT ![m.node] = entry]
      BY DEF ApplyRefresh
  <1> HIDE DEF walk
  <1>4. entry \in NodeEntries /\ SameTables(entry, node[m.node])
      BY <1>1, <1>2 DEF NodeEntries, SameTables
  <1> HIDE DEF entry
  <1>5. node' \in [Nodes -> NodeEntries] /\ \A n \in Nodes : SameTables(node'[n], node[n])
    <2>1. \A n \in Nodes : SameTables(node[n], node[n])
        BY DEF SameTables
    <2> QED
        BY <1>1, <1>3, <1>4, <2>1
  <1>6. MarksAreLive'
      BY <1>5 DEF MarksAreLive, ApplyRefresh, SameTables
  <1> QED
      BY <1>5, <1>6

(* Freeing the seats that are out of time.                                 *)
LEMMA SeatedIsLastInput ==
    ASSUME HubInv
    PROVE  /\ Seated \in [Nodes -> SeatType]
           /\ \A n \in Nodes : Seated[n].client \in {NoOne, seats[n].client}
           /\ \A n \in Nodes : piloted[n].client # NoOne =>
                 \/ Seated[n] = piloted[n]
                 \/ turns - piloted[n].at > PilotWindow
                 \/ conn[piloted[n].client] = "gone"
  <1> USE DEF HubInv, HubTypeOK, GatewayTypeOK
  <1>1. Seated \in [Nodes -> SeatType]
      BY DEF Seated, NoSeat, SeatType
  <1>2. ASSUME NEW n \in Nodes, piloted[n].client # NoOne, seats[n] = piloted[n]
        PROVE  Seated[n] = piloted[n] \/ turns - piloted[n].at > PilotWindow
      BY <1>2 DEF Seated
  <1>3. \A n \in Nodes : Seated[n].client \in {NoOne, seats[n].client}
      BY DEF Seated, NoSeat
  <1> QED
      BY <1>1, <1>2, <1>3 DEF SeatIsLastInput

LEMMA PilotKeeps ==
    ASSUME HubInv, NEW m \in ClientMessages, ApplyPilot(m), UNCHANGED <<conn, turns>>
    PROVE  /\ seats' \in [Nodes -> SeatType] /\ piloted' \in [Nodes -> SeatType]
           /\ \A n \in Nodes : seats'[n].client \in {NoOne, seats[n].client, m.client}
           /\ SeatIsLastInput'
  <1> USE DEF HubInv, HubTypeOK, GatewayTypeOK, LoopTypeOK
  <1> DEFINE input == [client |-> m.client, at |-> turns]
  <1>1. m.node \in Nodes /\ input \in SeatType
      BY DEF ClientMessages, SeatType
  <1>2. \/ /\ seats' = [Seated EXCEPT ![m.node] = input]
           /\ piloted' = [piloted EXCEPT ![m.node] = input]
        \/ seats' = Seated /\ piloted' = piloted
      BY DEF ApplyPilot, TakeSeat
  <1>3. input.client = m.client
      OBVIOUS
  <1> HIDE DEF input
  <1>4. \A n \in Nodes : seats'[n].client \in {NoOne, seats[n].client, m.client}
      BY <1>1, <1>2, <1>3, SeatedIsLastInput
  <1>5. seats' \in [Nodes -> SeatType] /\ piloted' \in [Nodes -> SeatType]
      BY <1>1, <1>2, SeatedIsLastInput
  <1>6. ASSUME NEW n \in Nodes
        PROVE  \/ seats'[n] = piloted'[n]
               \/ seats'[n] = Seated[n] /\ piloted'[n] = piloted[n]
      BY <1>1, <1>2, SeatedIsLastInput
  <1>7. SeatIsLastInput'
      BY <1>6, SeatedIsLastInput DEF SeatIsLastInput
  <1> QED
      BY <1>4, <1>5, <1>7

LEMMA ApplyKeeps ==
    ASSUME HubInv, ApplyClientMessage
    PROVE  HubInv'
  <1> DEFINE m == Head(batch)
  <1>1. m \in ClientMessages /\ batch' \in Seq(ClientMessages)
      BY DEF HubInv, HubTypeOK, LoopTypeOK, ApplyClientMessage
  <1>2. ApplyTelemetry(m) \/ ApplyTransport(m) \/ ApplyRefresh(m) \/ ApplyPilot(m) \/ ApplyOta(m)
      BY DEF ApplyClientMessage
  <1>3. UNCHANGED <<uses, conn, inbound, connected, closed, stage, turns, dirty, told, sends,
                    nodeEvents>>
      BY DEF ApplyClientMessage, wsVars
  <1>4. late' = IF conn[m.client] = "gone" /\ m.client \notin closed
                THEN late \cup {m.client} ELSE late
      BY DEF ApplyClientMessage
  <1> HIDE DEF m
  <1> USE DEF HubInv
  <1>5. m.client \in Clients
      BY <1>1 DEF ClientMessages
  <1>6. LoopTypeOK' /\ QueuesAreTrue'
      BY <1>1, <1>3, <1>4, <1>5 DEF HubTypeOK, LoopTypeOK, QueuesAreTrue
  <1>7. ASSUME \A n \in Nodes : marks'[n] \subseteq marks[n] \cup {m.client},
               \A n \in Nodes : seats'[n].client \in {NoOne, seats[n].client, m.client},
               watchers' \subseteq watchers \cup {m.client}
        PROVE  NothingOutlivesClient'
    <2> SUFFICES ASSUME NEW c \in Clients, conn'[c] = "gone", c \notin closed' \cup late'
                 PROVE  /\ c \notin watchers'
                        /\ \A n \in Nodes : c \notin marks'[n] /\ seats'[n].client # c
        BY DEF NothingOutlivesClient
    <2>1. c # m.client /\ c # NoOne /\ conn[c] = "gone" /\ c \notin closed \cup late
        BY <1>3, <1>4, HubAssumption
    <2>2. c \notin watchers /\ \A n \in Nodes : c \notin marks[n] /\ seats[n].client # c
        BY <2>1 DEF NothingOutlivesClient
    <2> QED
        BY <1>7, <2>1, <2>2
  <1>8. CASE ApplyTelemetry(m)
    <2>1. UNCHANGED <<watchers, wanted, views, seats, ota, piloted>>
        BY <1>8 DEF ApplyTelemetry
    <2>2. /\ node' \in [Nodes -> NodeEntries] /\ marks' \in [Nodes -> SUBSET Clients]
          /\ \A n \in Nodes : SameTables(node'[n], node[n])
          /\ \A n \in Nodes : marks'[n] \subseteq marks[n] \cup {m.client}
          /\ MarksAreLive'
        BY <1>1, <1>8, TelemetryKeeps
    <2>3. GatewayTypeOK' /\ SeatIsLastInput'
        BY <1>3, <2>1, <2>2 DEF HubTypeOK, GatewayTypeOK, SeatIsLastInput
    <2> QED
        BY <1>3, <1>6, <1>7, <2>1, <2>2, <2>3, ToldStaysTrue DEF HubTypeOK
  <1>9. CASE ApplyTransport(m)
    <2>1. UNCHANGED <<marks, seats, ota, piloted>>
        BY <1>9 DEF ApplyTransport
    <2>2. /\ node' \in [Nodes -> NodeEntries]
          /\ watchers' \subseteq Clients /\ wanted' \in BOOLEAN /\ views' \subseteq Nodes
          /\ watchers' \subseteq watchers \cup {m.client}
          /\ \A n \in Nodes : SameTables(node'[n], node[n])
          /\ MarksAreLive'
        BY <1>1, <1>9, TransportKeeps
    <2>3. GatewayTypeOK' /\ SeatIsLastInput'
        BY <1>3, <2>1, <2>2 DEF HubTypeOK, GatewayTypeOK, SeatIsLastInput
    <2> QED
        BY <1>3, <1>6, <1>7, <2>1, <2>2, <2>3, ToldStaysTrue DEF HubTypeOK
  <1>10. CASE ApplyRefresh(m)
    <2>1. UNCHANGED <<marks, watchers, wanted, views, seats, ota, piloted>>
        BY <1>10 DEF ApplyRefresh
    <2>2. /\ node' \in [Nodes -> NodeEntries]
          /\ \A n \in Nodes : SameTables(node'[n], node[n])
          /\ MarksAreLive'
        BY <1>1, <1>10, RefreshKeeps
    <2>3. GatewayTypeOK' /\ SeatIsLastInput'
        BY <1>3, <2>1, <2>2 DEF HubTypeOK, GatewayTypeOK, SeatIsLastInput
    <2> QED
        BY <1>3, <1>6, <1>7, <2>1, <2>2, <2>3, ToldStaysTrue DEF HubTypeOK
  <1>11. CASE ApplyPilot(m)
    <2>1. UNCHANGED <<marks, node, watchers, wanted, views, ota>>
        BY <1>11 DEF ApplyPilot
    <2>2. /\ seats' \in [Nodes -> SeatType] /\ piloted' \in [Nodes -> SeatType]
          /\ \A n \in Nodes : seats'[n].client \in {NoOne, seats[n].client, m.client}
          /\ SeatIsLastInput'
        BY <1>1, <1>3, <1>11, PilotKeeps
    <2>3. GatewayTypeOK' /\ MarksAreLive'
        BY <1>3, <2>1, <2>2 DEF HubTypeOK, GatewayTypeOK, MarksAreLive
    <2>4. \A n \in Nodes : SameTables(node'[n], node[n])
        BY <2>1 DEF SameTables
    <2> QED
        BY <1>3, <1>6, <1>7, <2>1, <2>2, <2>3, <2>4, ToldStaysTrue DEF HubTypeOK
  <1>12. CASE ApplyOta(m)
    <2>1. UNCHANGED <<marks, node, watchers, wanted, views, seats, piloted>>
        BY <1>12 DEF ApplyOta
    <2>2. ota' \in OtaType
        BY <1>1, <1>12 DEF ApplyOta, HubTypeOK, GatewayTypeOK, OtaType, ClientMessages, NodeEntries
    <2>3. GatewayTypeOK' /\ MarksAreLive' /\ SeatIsLastInput'
        BY <1>3, <2>1, <2>2 DEF HubTypeOK, GatewayTypeOK, MarksAreLive, SeatIsLastInput
    <2>4. \A n \in Nodes : SameTables(node'[n], node[n])
        BY <2>1 DEF SameTables
    <2> QED
        BY <1>3, <1>6, <1>7, <2>1, <2>3, <2>4, ToldStaysTrue DEF HubTypeOK
  <1> QED
      BY <1>2, <1>8, <1>9, <1>10, <1>11, <1>12

-----------------------------------------------------------------------------
(* Housekeeping.                                                           *)

LEMMA DrainClosedKeeps ==
    ASSUME HubInv, DrainClosed
    PROVE  HubInv'
  <1> USE DEF HubInv, HubTypeOK, GatewayTypeOK
  <1>1. /\ UNCHANGED <<uses, conn, inbound, connected, batch, turns, ota, dirty, told, piloted, late,
                       sends, nodeEvents>>
        /\ closed' = {} /\ stage' = "connected"
      BY DEF DrainClosed
  <1>2. LoopTypeOK' /\ QueuesAreTrue'
      BY <1>1 DEF LoopTypeOK, QueuesAreTrue
  <1>3. marks' = [n \in Nodes |-> marks[n] \ closed]
      BY DEF DrainClosed, MarksWithout
  <1>4. closed \in SUBSET Clients
      BY DEF LoopTypeOK
  <1>5. /\ watchers' = watchers \ closed /\ wanted' \in BOOLEAN /\ views' \subseteq Nodes
        /\ wanted' <=> watchers' # {}
    <2>1. watchers \ closed \in SUBSET Clients /\ Watch(watchers \ closed)
        BY DEF DrainClosed
    <2> QED
        BY <2>1, WatchKeeps
  <1>6. PICK streams \in SUBSET Nodes, reports \in SUBSET Nodes :
            node' = SetWanted(StreamsWithout(closed, streams), wanted', reports)
      BY DEF DrainClosed
  <1> DEFINE between == StreamsWithout(closed, streams)
  <1>7. between \in [Nodes -> NodeEntries] /\ \A n \in Nodes : SameTables(between[n], node[n])
      BY <1>4, StreamsWithoutIs
  <1> HIDE DEF between
  <1>8. node' \in [Nodes -> NodeEntries] /\ \A n \in Nodes : SameTables(node'[n], between[n])
      BY <1>5, <1>6, <1>7, SetWantedIs DEF between
  <1>9. \A n \in Nodes : SameTables(node'[n], node[n])
      BY <1>7, <1>8 DEF SameTables
  <1>10. marks' \in [Nodes -> SUBSET Clients] /\ MarksAreLive'
      BY <1>3, <1>5, <1>9 DEF MarksAreLive, SameTables
  <1>11. seats' = [n \in Nodes |-> IF Seated[n].client \in closed THEN NoSeat ELSE Seated[n]]
      BY DEF DrainClosed, PilotClosed
  <1>12. seats' \in [Nodes -> SeatType]
      BY <1>11, SeatedIsLastInput DEF NoSeat, SeatType
  <1>13. SeatIsLastInput'
      BY <1>1, <1>11, SeatedIsLastInput DEF SeatIsLastInput, QueuesAreTrue
  <1>14. NothingOutlivesClient'
    <2> SUFFICES ASSUME NEW c \in Clients, conn[c] = "gone", c \notin late
                 PROVE  /\ c \notin watchers'
                        /\ \A n \in Nodes : c \notin marks'[n] /\ seats'[n].client # c
        BY <1>1 DEF NothingOutlivesClient
    <2>1. \A n \in Nodes : seats'[n].client \in {NoOne, seats[n].client} /\ seats'[n].client \notin closed
        BY <1>4, <1>11, SeatedIsLastInput, HubAssumption DEF NoSeat
    <2>2. c \in closed \/ (c \notin watchers /\ \A n \in Nodes : c \notin marks[n] /\ seats[n].client # c)
        BY DEF NothingOutlivesClient
    <2>3. c # NoOne
        BY HubAssumption
    <2> HIDE DEF HubInv, HubTypeOK, GatewayTypeOK
    <2> QED
        BY <1>3, <1>5, <2>1, <2>2, <2>3
  <1>15. HubTypeOK'
      BY <1>1, <1>2, <1>5, <1>8, <1>10, <1>12
  <1> QED
      BY <1>1, <1>2, <1>9, <1>10, <1>13, <1>14, <1>15, ToldStaysTrue

LEMMA DrainConnectedKeeps ==
    ASSUME HubInv, DrainConnected
    PROVE  HubInv'
  <1> USE DEF HubInv, HubTypeOK, GatewayTypeOK
  <1>1. /\ UNCHANGED <<uses, conn, inbound, closed, batch, turns, node, marks, watchers, wanted,
                       views, seats, ota, dirty, piloted, late, sends, nodeEvents>>
        /\ connected' = {} /\ stage' = "publish"
        /\ told' = [c \in Clients |-> IF c \in connected \cap Open THEN Snapshot(c) ELSE told[c]]
      BY DEF DrainConnected
  <1>2. LoopTypeOK' /\ QueuesAreTrue' /\ MarksAreLive' /\ SeatIsLastInput' /\ NothingOutlivesClient'
      BY <1>1 DEF LoopTypeOK, QueuesAreTrue, MarksAreLive, SeatIsLastInput, NothingOutlivesClient
  <1>3. Open' = Open /\ UpNodes' = UpNodes
      BY <1>1 DEF Open, UpNodes
  <1>4. ASSUME NEW n \in Nodes, NEW t \in Tables
        PROVE  /\ Held(n, t) \in Views
               /\ node[n].up /\ (t = "measures" => Whole(n, t)) => CurrentView(n, t, Held(n, t))
               /\ Whole(n, t) => Held(n, t).pages = Pages
    <2>1. node[n].boot \in Nat /\ node[n].walk[t] \in 0..Pages
        BY DEF NodeEntries
    <2> QED
        BY <2>1, HubAssumption DEF Held, NoTable, Views, CurrentView, Whole
  <1>5. ASSUME NEW c \in Clients, NEW n \in Nodes, NEW t \in Tables
        PROVE  SnapshotOf(c, n, t) \in Views
    <2>1. told[c].tables[n][t] \in Views
        BY DEF ToldType
    <2> QED
        BY <1>4, <2>1 DEF SnapshotOf
  <1>6. ASSUME NEW c \in Clients
        PROVE  /\ Snapshot(c) \in ToldType
               /\ Snapshot(c).nodes = UpNodes
               /\ \A n \in Nodes, t \in Tables : Snapshot(c).tables[n][t] = SnapshotOf(c, n, t)
      BY <1>5 DEF Snapshot, UpNodes, ToldType
  <1>7. told' \in [Clients -> ToldType]
      BY <1>1, <1>6
  <1>8. \A c \in Clients : c \notin connected \cap Open => told'[c] = told[c]
      BY <1>1
  <1>9. ASSUME NEW c \in connected \cap Open
        PROVE  /\ told'[c].nodes = UpNodes
               /\ \A n \in Nodes, t \in Tables :
                      /\ CurrentView(n, t, told'[c].tables[n][t])
                      /\ Whole(n, t) => told'[c].tables[n][t].pages = Pages
    <2>1. c \in Clients /\ told'[c] = Snapshot(c)
        BY <1>1 DEF Open
    <2>2. ASSUME NEW n \in Nodes, NEW t \in Tables
          PROVE  /\ CurrentView(n, t, SnapshotOf(c, n, t))
                 /\ Whole(n, t) => SnapshotOf(c, n, t).pages = Pages
      <3>1. CurrentView(n, t, told[c].tables[n][t])
          BY DEF NothingStaleIsTold
      <3>2. CASE ~node[n].up \/ (t = "measures" /\ ~Whole(n, t))
          BY <3>1, <3>2 DEF SnapshotOf, Whole
      <3>3. CASE ~(~node[n].up \/ (t = "measures" /\ ~Whole(n, t)))
          BY <1>4, <3>3 DEF SnapshotOf
      <3> QED
          BY <3>2, <3>3
    <2> HIDE DEF HubInv, HubTypeOK, GatewayTypeOK
    <2> QED
        BY <1>6, <2>1, <2>2
  <1>10. ASSUME NEW c \in Open, NEW n \in Nodes, NEW t \in Tables
         PROVE  CurrentView(n, t, told'[c].tables[n][t])
    <2>1. CASE c \in connected
        BY <1>9, <2>1
    <2>2. CASE c \notin connected
        BY <1>8, <2>2 DEF NothingStaleIsTold, Open
    <2> QED
        BY <2>1, <2>2
  <1>11. NothingStaleIsTold'
    <2>1. \A c \in Clients : conn'[c] = "new" => told'[c] = NothingTold
        BY <1>1, <1>8 DEF NothingStaleIsTold, Open
    <2>2. node' = node
        BY <1>1
    <2> HIDE DEF HubInv, HubTypeOK, GatewayTypeOK
    <2> QED
      <3>1. ASSUME NEW c \in Open, NEW n \in Nodes, NEW t \in Tables
            PROVE  CurrentView(n, t, told[c].tables[n][t])'
          BY <1>10, <2>2 DEF CurrentView
      <3>2. NothingTold' = NothingTold
          BY DEF NothingTold, NoTable
      <3> QED
          BY <1>3, <2>1, <3>1, <3>2 DEF NothingStaleIsTold
  <1>12. ViewsAgree'
    <2>1. ASSUME NEW c \in Open
          PROVE  /\ \A n \in Nodes, t \in Tables : Whole(n, t) => told'[c].tables[n][t].pages = Pages
                 /\ dirty \/ told'[c].nodes = UpNodes
      <3>1. CASE c \in connected
          BY <1>9, <3>1
      <3>2. CASE c \notin connected
          BY <1>8, <3>2 DEF ViewsAgree, Open
      <3> QED
          BY <3>1, <3>2
    <2>2. dirty' = dirty /\ node' = node
        BY <1>1
    <2> HIDE DEF HubInv, HubTypeOK, GatewayTypeOK
    <2> QED
        BY <1>3, <1>10, <2>1, <2>2 DEF ViewsAgree, CurrentView, Whole
  <1> QED
      BY <1>1, <1>2, <1>7, <1>11, <1>12

LEMMA PublishKeeps ==
    ASSUME HubInv, Publish
    PROVE  HubInv'
  <1> USE DEF HubInv, HubTypeOK, GatewayTypeOK
  <1>1. /\ UNCHANGED <<uses, conn, inbound, connected, closed, batch, turns, node, marks, watchers,
                       wanted, views, seats, ota, piloted, late, sends, nodeEvents>>
        /\ dirty' = FALSE /\ stage' = "poll"
      BY DEF Publish, wsVars
  <1>2. LoopTypeOK' /\ QueuesAreTrue' /\ MarksAreLive' /\ SeatIsLastInput' /\ NothingOutlivesClient'
      BY <1>1 DEF LoopTypeOK, QueuesAreTrue, MarksAreLive, SeatIsLastInput, NothingOutlivesClient
  <1>3. Open' = Open /\ UpNodes' = UpNodes
      BY <1>1 DEF Open, UpNodes
  <1>4. /\ told' \in [Clients -> ToldType]
        /\ \A c \in Clients \ Open : told'[c] = told[c]
        /\ \A c \in Open : told'[c].tables = told[c].tables
        /\ dirty => \A c \in Open : told'[c].nodes = UpNodes
        /\ ~dirty => \A c \in Open : told'[c].nodes \in {told[c].nodes, UpNodes}
    <2>1. CASE told' = told /\ ~dirty
        BY <2>1
    <2>2. CASE told' = [c \in Clients |-> IF c \in Open THEN [told[c] EXCEPT !.nodes = UpNodes]
                                                         ELSE told[c]]
      <3>1. told' \in [Clients -> ToldType]
          BY <2>2 DEF ToldType, UpNodes
      <3>2. \A c \in Clients \ Open : told'[c] = told[c]
          BY <2>2
      <3>3. \A c \in Open : told'[c].tables = told[c].tables /\ told'[c].nodes = UpNodes
          BY <2>2 DEF Open, ToldType
      <3> QED
          BY <3>1, <3>2, <3>3
    <2> QED
        BY <2>1, <2>2 DEF Publish
  <1>5. NothingStaleIsTold'
    <2>1. \A c \in Clients : conn'[c] = "new" => told'[c] = NothingTold
        BY <1>1, <1>4 DEF NothingStaleIsTold, Open
    <2>2. \A c \in Open, n \in Nodes, t \in Tables : CurrentView(n, t, told'[c].tables[n][t])
        BY <1>4 DEF NothingStaleIsTold
    <2>3. node' = node
        BY <1>1
    <2> HIDE DEF HubInv, HubTypeOK, GatewayTypeOK
    <2> QED
      <3>1. ASSUME NEW c \in Open, NEW n \in Nodes, NEW t \in Tables
            PROVE  CurrentView(n, t, told[c].tables[n][t])'
          BY <2>2, <2>3 DEF CurrentView
      <3>2. NothingTold' = NothingTold
          BY DEF NothingTold, NoTable
      <3> QED
          BY <1>3, <2>1, <3>1, <3>2 DEF NothingStaleIsTold
  <1>6. ViewsAgree'
    <2>1. ASSUME NEW c \in Open \ connected
          PROVE  /\ \A n \in Nodes, t \in Tables :
                       /\ CurrentView(n, t, told'[c].tables[n][t])
                       /\ Whole(n, t) => told'[c].tables[n][t].pages = Pages
                 /\ told'[c].nodes = UpNodes
        BY <1>4 DEF ViewsAgree
    <2>2. node' = node /\ connected' = connected
        BY <1>1
    <2> HIDE DEF HubInv, HubTypeOK, GatewayTypeOK
    <2> QED
        BY <1>3, <2>1, <2>2 DEF ViewsAgree, CurrentView, Whole
  <1> QED
      BY <1>1, <1>2, <1>4, <1>5, <1>6

-----------------------------------------------------------------------------
LEMMA HubStepKeeps ==
    ASSUME HubInv, [HubNext]_hubVars
    PROVE  HubInv'
  <1>1. uses.nodes \subseteq Nodes /\ uses.tables \subseteq Tables
      BY HubAssumption DEF HubInv, HubTypeOK, LoopTypeOK
  <1>2. CASE \E c \in Clients : ClientOpens(c) \/ ClientCloses(c)
      BY <1>2, ThreadsKeep
  <1>3. CASE \E c \in Clients, op \in uses.commands, n \in uses.nodes : ClientSends(c, op, n)
      BY <1>3, SendsKeep
  <1>4. CASE \E n \in uses.nodes : \/ NodeAppears(n) \/ NodeLeaves(n) \/ ReportArrives(n)
                                   \/ SubscriptionAnswered(n) \/ SubscriptionGivenUp(n)
                                   \/ StatusArrives(n)
      BY <1>1, <1>4, AppearsKeeps, LeavesKeeps, ReportsKeep, SubscriptionsKeep
  <1>5. CASE \E n \in uses.nodes, t \in uses.tables : PageArrives(n, t)
      BY <1>1, <1>5, PageKeeps
  <1>6. CASE UpdateEnds
      BY <1>6, ReportsKeep
  <1>7. CASE DrainInbound
      BY <1>7, DrainInboundKeeps
  <1>8. CASE ApplyClientMessage
      BY <1>8, ApplyKeeps
  <1>9. CASE DrainClosed \/ DrainConnected
      BY <1>9, DrainClosedKeeps, DrainConnectedKeeps
  <1>10. CASE Publish
      BY <1>10, PublishKeeps
  <1>11. CASE UNCHANGED hubVars
    <2>1. UNCHANGED <<uses, conn, inbound, connected, closed, stage, batch, turns, late, sends,
                    nodeEvents>>
        BY <1>11 DEF hubVars, wsVars
    <2>2. UNCHANGED gatewayVars
        BY <1>11 DEF hubVars
    <2>3. HubTypeOK'
        BY <2>1, <2>2 DEF HubInv, HubTypeOK, LoopTypeOK, GatewayTypeOK, gatewayVars
    <2>4. turns' \in Nat /\ turns' >= turns
        BY <2>1 DEF HubInv, HubTypeOK, LoopTypeOK
    <2> QED
        BY <2>1, <2>2, <2>3, <2>4, QuietKeeps DEF HubInv
  <1> QED
      BY <1>2, <1>3, <1>4, <1>5, <1>6, <1>7, <1>8, <1>9, <1>10, <1>11 DEF HubNext

(* What the hub keeps of its clients and of the nodes stays consistent in  *)
(* every state of every execution, whatever connects, closes, sends, comes *)
(* and goes, in any order, and whichever requests the messenger refuses    *)
(* (ws_bridge.cpp, hub_app.cpp, gateway_*.cpp).                            *)
THEOREM HubInvariant == HubSpec => []HubInv
  <1>1. HubInv /\ [HubNext]_hubVars => HubInv'
      BY HubStepKeeps
  <1> QED
      BY <1>1, HubInitInv, PTL DEF HubSpec

(* Every client that had its snapshot was told of every table that is held *)
(* whole, and of nothing that is not there (the gateways'                  *)
(* onClientConnected, onTable, onForgotten).                               *)
THEOREM HubViewsAgree == HubSpec => []ViewsAgree
  <1>1. HubInv => ViewsAgree
      BY DEF HubInv
  <1> QED
      BY <1>1, HubInvariant, PTL

(* Once its close is drained a client holds, watches and pilots nothing,   *)
(* unless a message of its was served after (hub_app.cpp, housekeeping).   *)
THEOREM HubNothingOutlivesClient == HubSpec => []NothingOutlivesClient
  <1>1. HubInv => NothingOutlivesClient
      BY DEF HubInv
  <1> QED
      BY <1>1, HubInvariant, PTL

(* A node changes pilots only after the one it had fell silent for the     *)
(* window or went away: no interleaving of inputs, drains and closed       *)
(* connections hands a node over under a live pilot (gateway_pilot.cpp).   *)
THEOREM HubOnePilot == HubSpec => OnePilot
  <1> DEFINE Handover(n) ==
          LET before == piloted[n] after == piloted'[n]
          IN (before.client # NoOne /\ after.client # before.client) =>
                 (after.at - before.at > PilotWindow \/ conn[before.client] = "gone")
  <1>1. ASSUME HubInv, [HubNext]_hubVars, NEW n \in Nodes PROVE Handover(n)
    <2>1. CASE UNCHANGED piloted
        BY <2>1
    <2>2. CASE ApplyClientMessage /\ ApplyPilot(Head(batch))
      <3> DEFINE m == Head(batch)
      <3>1. m \in ClientMessages /\ ApplyPilot(m)
          BY <1>1, <2>2 DEF HubInv, HubTypeOK, LoopTypeOK, ApplyClientMessage
      <3> HIDE DEF m
      <3>2. piloted \in [Nodes -> SeatType] /\ m.node \in Nodes
          BY <1>1, <3>1 DEF HubInv, HubTypeOK, GatewayTypeOK, ClientMessages
      <3>3. CASE ~(n = m.node /\ Seated[n].client \in {NoOne, m.client})
        <4>1. piloted'[n] = piloted[n]
            BY <3>1, <3>2, <3>3 DEF ApplyPilot
        <4> QED
            BY <4>1
      <3>4. CASE n = m.node /\ Seated[n].client \in {NoOne, m.client}
        <4>1. CASE piloted'[n] = piloted[n]
            BY <4>1
        <4>2. CASE piloted'[n] = [client |-> m.client, at |-> turns]
          <5>1. piloted'[n].client = m.client /\ piloted'[n].at = turns
              BY <4>2
          <5> QED
              BY <1>1, <3>4, <5>1, SeatedIsLastInput
        <4> QED
            BY <3>1, <3>2, <3>4, <4>1, <4>2 DEF ApplyPilot
      <3> QED
          BY <3>3, <3>4
    <2> QED
        BY <1>1, <2>1, <2>2 DEF HubNext, hubVars, gatewayVars, ClientOpens, ClientCloses,
            ClientSends, NodeAppears, PageArrives, NodeLeaves, ReportArrives, StatusArrives, UpdateEnds,
            SubscriptionAnswered, SubscriptionGivenUp, DrainInbound, ApplyClientMessage,
            ApplyTelemetry, ApplyTransport, ApplyRefresh, ApplyOta,
            DrainClosed, DrainConnected, Publish
  <1>2. HubInv /\ [HubNext]_hubVars => [\A n \in Nodes : Handover(n)]_hubVars
      BY <1>1
  <1> QED
      BY <1>2, HubInvariant, PTL DEF HubSpec, OnePilot

-----------------------------------------------------------------------------
(* The transport.  The links and the nodes beyond them.                    *)

LEMMA LinkFacts ==
    /\ \A l \in Range(Links) : Attached[l] \subseteq Peers
    /\ \A n : LinksOf(n) \subseteq Range(Links) /\ \A l \in LinksOf(n) : n \in Attached[l]
    /\ \A i \in DOMAIN Links : Links[i] \in Range(Links)
    /\ Links[1] \in Range(Links)
  BY TransportAssumption DEF LinksOf, Range

\* Beyond(n, l) is the least closed set.
LEMMA BeyondClosed ==
    ASSUME NEW n \in Peers, NEW l \in Range(Links)
    PROVE  /\ Beyond(n, l) \subseteq Peers /\ Attached[l] \ {n} \subseteq Beyond(n, l)
           /\ \A k \in Range(Links) \ {l} :
                 Attached[k] \cap Beyond(n, l) # {} => Attached[k] \subseteq Beyond(n, l)
           /\ \A S \in SUBSET Peers : Closed(n, l, S) => Beyond(n, l) \subseteq S
  <1>1. Beyond(n, l) \subseteq Peers
      BY DEF Beyond
  <1>2. Attached[l] \ {n} \subseteq Beyond(n, l)
      BY LinkFacts DEF Beyond, Closed
  <1>3. \A S \in SUBSET Peers : Closed(n, l, S) => Beyond(n, l) \subseteq S
      BY DEF Beyond
  <1>4. ASSUME NEW k \in Range(Links) \ {l}, NEW x \in Attached[k], x \in Beyond(n, l), NEW y \in Attached[k]
        PROVE  y \in Beyond(n, l)
    <2>1. ASSUME NEW S \in SUBSET Peers, Closed(n, l, S) PROVE y \in S
      <3>1. x \in S
          BY <1>3, <1>4, <2>1
      <3> QED
          BY <1>4, <2>1, <3>1 DEF Closed
    <2>2. y \in Peers
        BY <1>4, LinkFacts
    <2> QED
        BY <2>1, <2>2 DEF Beyond
  <1> QED
      BY <1>1, <1>2, <1>3, <1>4

LEMMA BeyondApart ==
    ASSUME NEW n \in Peers, NEW l \in LinksOf(n), NEW k \in LinksOf(n), l # k
    PROVE  Beyond(n, l) \cap Beyond(n, k) = {}
  <1>0. l \in Range(Links) /\ k \in Range(Links) /\ n \in Attached[l] /\ n \in Attached[k]
      BY LinkFacts
  <1>1. PICK S : S = Beyond(n, l) \ Beyond(n, k)
      OBVIOUS
  <1>2. n \notin Beyond(n, l) /\ n \notin Beyond(n, k)
      BY NoLoop
  <1>3. S \in SUBSET Peers
      BY <1>0, <1>1, BeyondClosed
  <1>4. Attached[l] \ {n} \subseteq S
    <2> SUFFICES ASSUME NEW x \in Attached[l], x # n, x \in Beyond(n, k) PROVE FALSE
        BY <1>0, <1>1, BeyondClosed
    <2>1. Attached[l] \subseteq Beyond(n, k)
        BY <1>0, BeyondClosed
    <2> QED
        BY <1>0, <1>2, <2>1
  <1>5. ASSUME NEW j \in Range(Links) \ {l}, NEW x \in Attached[j], x \in S PROVE Attached[j] \subseteq S
    <2>1. Attached[j] \subseteq Beyond(n, l)
        BY <1>0, <1>1, <1>5, BeyondClosed
    <2>2. j # k
        BY <1>0, <1>2, <2>1
    <2>3. ASSUME NEW y \in Attached[j], y \in Beyond(n, k) PROVE FALSE
      <3>1. Attached[j] \subseteq Beyond(n, k)
          BY <1>0, <2>2, <2>3, BeyondClosed
      <3> QED
          BY <1>1, <1>5, <3>1
    <2> QED
        BY <1>1, <2>1, <2>3
  <1>6. Closed(n, l, S)
      BY <1>4, <1>5 DEF Closed
  <1> QED
      BY <1>0, <1>1, <1>3, <1>6, BeyondClosed

\* What is beyond a further link of a node on l is beyond l.
LEMMA BeyondFurther ==
    ASSUME NEW n \in Peers, NEW l \in LinksOf(n), NEW m \in Attached[l] \ {n}, NEW k \in LinksOf(m) \ {l}
    PROVE  m \in Peers /\ l \in LinksOf(m) /\ Beyond(m, k) \subseteq Beyond(n, l)
  <1>0. /\ l \in Range(Links) /\ k \in Range(Links) /\ n \in Attached[l] /\ m \in Attached[k] /\ m \in Peers
        /\ l \in LinksOf(m)
      BY LinkFacts DEF LinksOf
  <1>1. PICK S : S = Beyond(n, l) \cap Beyond(m, k)
      OBVIOUS
  <1>2. m \notin Beyond(m, k) /\ m \in Beyond(n, l)
      BY <1>0, NoLoop, BeyondClosed
  <1>3. S \in SUBSET Peers
      BY <1>0, <1>1, BeyondClosed
  <1>4. Attached[k] \subseteq Beyond(n, l)
      BY <1>0, <1>2, BeyondClosed
  <1>5. Attached[k] \ {m} \subseteq S
      BY <1>0, <1>1, <1>4, BeyondClosed
  <1>6. ASSUME NEW j \in Range(Links) \ {k}, NEW x \in Attached[j], x \in S PROVE Attached[j] \subseteq S
    <2>1. Attached[j] \subseteq Beyond(m, k)
        BY <1>0, <1>1, <1>6, BeyondClosed
    <2>2. j # l
        BY <1>2, <2>1
    <2>3. Attached[j] \subseteq Beyond(n, l)
        BY <1>0, <1>1, <1>6, <2>2, BeyondClosed
    <2> QED
        BY <1>1, <2>1, <2>3
  <1>7. Closed(m, k, S)
      BY <1>5, <1>6 DEF Closed
  <1> QED
      BY <1>0, <1>1, <1>3, <1>7, BeyondClosed

\* Whoever is on a link with a node beyond k is beyond k as well, but n.
LEMMA BeyondShares ==
    ASSUME NEW a \in Peers, NEW k \in LinksOf(a), NEW x \in Beyond(a, k), NEW j \in Range(Links),
           x \in Attached[j], NEW n \in Attached[j] \ {a}
    PROVE  n \in Beyond(a, k)
  BY BeyondClosed, LinkFacts

-----------------------------------------------------------------------------
(* What the operators return.                                              *)

LEMMA TransportNumbers ==
    /\ MaxNodes \in Nat /\ MaxHops \in Nat /\ Expiry \in Nat /\ MaxEvents \in Nat /\ SeqCount \in Nat \ {0}
    /\ Broadcast \notin Peers /\ Senders \subseteq Peers /\ Unsteady \subseteq Peers
    /\ 0 \in SeqNumbers /\ 0 \in Boots /\ 1 \in Boots /\ 0 \in 0 .. Expiry /\ 0 \in 0 .. MaxHops
    /\ 0 \in 0 .. MaxEvents
  BY TransportAssumption DEF SeqNumbers, Boots

LEMMA NextSeqIs == \A seq \in SeqNumbers : NextSeq(seq) \in SeqNumbers
  <1> SUFFICES ASSUME NEW seq \in SeqNumbers PROVE NextSeq(seq) \in SeqNumbers
      OBVIOUS
  <1>1. seq + 1 \in Nat /\ SeqCount \in Nat \ {0}
      BY TransportNumbers DEF SeqNumbers
  <1>2. (seq + 1) % SeqCount \in 0 .. SeqCount - 1
      BY <1>1
  <1> QED
      BY <1>2 DEF NextSeq, SeqNumbers

LEMMA EntryTypes ==
    /\ NoNode \in PeerEntries /\ NewNode \in PeerEntries /\ ~NoNode.known /\ NewNode.known
    /\ NoNode.age = 0 /\ NewNode.age = 0
  BY LinkFacts, TransportNumbers DEF NoNode, NewNode, PeerEntries

LEMMA HeardIs ==
    ASSUME NEW t \in PeerEntries
    PROVE  /\ Heard(t) \in PeerEntries /\ Heard(t).known
           /\ t.known => /\ Heard(t).link = t.link /\ Heard(t).via = t.via /\ Heard(t).unicast = t.unicast
                         /\ Heard(t).broadcast = t.broadcast
  <1>1. PICK u \in PeerEntries : u = (IF t.known THEN t ELSE NewNode)
      BY EntryTypes
  <1>2. Heard(t) = [u EXCEPT !.age = 0]
      BY <1>1 DEF Heard
  <1>3. [u EXCEPT !.age = 0] \in PeerEntries /\ [u EXCEPT !.age = 0].known = u.known
        /\ [u EXCEPT !.age = 0].link = u.link /\ [u EXCEPT !.age = 0].via = u.via
        /\ [u EXCEPT !.age = 0].unicast = u.unicast /\ [u EXCEPT !.age = 0].broadcast = u.broadcast
      BY TransportNumbers DEF PeerEntries
  <1> QED
      BY <1>1, <1>2, <1>3, EntryTypes

LEMMA TrackIs ==
    ASSUME NEW n \in Peers, NEW t \in PeerEntries, NEW f \in Frames
    PROVE  /\ Track(n, t, f) \in PeerEntries /\ Track(n, t, f).known = t.known
           /\ Track(n, t, f).link = t.link /\ Track(n, t, f).via = t.via
           /\ Stream(n, f) # "none" => Track(n, t, f)[Stream(n, f)] = f.seq
  <1>1. f.seq \in SeqNumbers
      BY DEF Frames
  <1>2. CASE Stream(n, f) = "unicast"
    <2>1. Track(n, t, f) = [t EXCEPT !.unicast = f.seq]
        BY <1>2 DEF Track
    <2> QED
        BY <1>1, <1>2, <2>1 DEF PeerEntries
  <1>3. CASE Stream(n, f) = "broadcast"
    <2>1. Track(n, t, f) = [t EXCEPT !.broadcast = f.seq]
        BY <1>3 DEF Track
    <2> QED
        BY <1>1, <1>3, <2>1 DEF PeerEntries
  <1>4. CASE Stream(n, f) = "none"
    <2>1. Track(n, t, f) = t
        BY <1>4 DEF Track
    <2> QED
        BY <1>4, <2>1
  <1> QED
      BY <1>2, <1>3, <1>4 DEF Stream

LEMMA LearnIs ==
    ASSUME NEW n \in Peers, NEW t \in PeerEntries, NEW f \in Frames, NEW l \in Range(Links)
    PROVE  /\ Learn(n, t, l, f) \in PeerEntries /\ Learn(n, t, l, f).known
           /\ Learn(n, t, l, f).link = l /\ Learn(n, t, l, f).via = f.by
           /\ Stream(n, f) # "none" => Learn(n, t, l, f)[Stream(n, f)] = f.seq
  <1>1. PICK u \in PeerEntries : u = Track(n, Heard(t), f) /\ u.known
                                 /\ (Stream(n, f) # "none" => u[Stream(n, f)] = f.seq)
      BY HeardIs, TrackIs
  <1>2. Learn(n, t, l, f) = [u EXCEPT !.link = l, !.via = f.by]
      BY <1>1 DEF Learn
  <1>3. f.by \in Peers \cup {Broadcast}
      BY DEF Frames
  <1>4. Learn(n, t, l, f) \in PeerEntries
      BY <1>2, <1>3 DEF PeerEntries
  <1>5. /\ Learn(n, t, l, f).known = u.known /\ Learn(n, t, l, f).link = l /\ Learn(n, t, l, f).via = f.by
        /\ Learn(n, t, l, f).unicast = u.unicast /\ Learn(n, t, l, f).broadcast = u.broadcast
      BY <1>2 DEF PeerEntries
  <1> QED
      BY <1>1, <1>4, <1>5 DEF Stream

LEMMA OnBootIdIs ==
    ASSUME NEW n \in Peers, NEW t \in PeerEntries, NEW f \in Frames, t.known
    PROVE  /\ OnBootId(n, t, f) \in PeerEntries /\ OnBootId(n, t, f).known
           /\ OnBootId(n, t, f).link = t.link /\ OnBootId(n, t, f).via = t.via
  <1>1. f.boot \in Boots
      BY DEF Frames
  <1>2. CASE t.boot = 0
      BY <1>1, <1>2 DEF OnBootId, PeerEntries
  <1>3. CASE t.boot # 0 /\ t.boot = f.boot
      BY <1>3 DEF OnBootId
  <1>4. CASE t.boot # 0 /\ t.boot # f.boot
    <2>1. PICK u : u = [NewNode EXCEPT !.link = t.link, !.via = t.via, !.boot = f.boot]
        OBVIOUS
    <2>2. t.link \in Range(Links) /\ t.via \in Peers \cup {Broadcast}
        BY DEF PeerEntries
    <2>3. u \in PeerEntries /\ u.known /\ u.link = t.link /\ u.via = t.via
        BY <1>1, <2>1, <2>2, EntryTypes DEF PeerEntries
    <2>4. OnBootId(n, t, f) = Track(n, u, f)
        BY <1>4, <2>1 DEF OnBootId
    <2> QED
        BY <2>3, <2>4, TrackIs
  <1> QED
      BY <1>2, <1>3, <1>4

LEMMA PeersAreFinite == IsFiniteSet(Peers)
  <1>1. IsFiniteSet(1 .. Len(Phases))
      BY FS_Interval, TransportAssumption
  <1>2. Phases \in Surjection(1 .. Len(Phases), Peers)
    <2>1. Phases \in [1 .. Len(Phases) -> Peers] /\ DOMAIN Phases = 1 .. Len(Phases)
        BY TransportAssumption
    <2>2. \A m \in Peers : \E i \in 1 .. Len(Phases) : Phases[i] = m
        BY <2>1 DEF Peers, Range
    <2> QED
        BY <2>1, <2>2, Zenon DEF Surjection
  <1> QED
      BY <1>1, <1>2, FS_Surjection, Zenon

LEMMA RangeFacts ==
    ASSUME NEW s \in Seq(Frames)
    PROVE  /\ Range(s) \subseteq Frames /\ Range(<<>>) = {}
           /\ \A e \in Frames : Append(s, e) \in Seq(Frames) /\ Range(Append(s, e)) = Range(s) \cup {e}
           /\ s # <<>> => /\ Head(s) \in Range(s) /\ Last(s) \in Range(s)
                          /\ Tail(s) \in Seq(Frames) /\ Range(Tail(s)) \subseteq Range(s)
                          /\ Front(s) \in Seq(Frames) /\ Range(Front(s)) \subseteq Range(s)
  <1>1. Range(s) \subseteq Frames /\ Range(<<>>) = {}
      BY DEF Range
  <1>2. ASSUME NEW e \in Frames
        PROVE  Append(s, e) \in Seq(Frames) /\ Range(Append(s, e)) = Range(s) \cup {e}
    <2>1. Append(s, e) \in Seq(Frames) /\ Len(Append(s, e)) = Len(s) + 1
          /\ Append(s, e)[Len(s) + 1] = e /\ \A i \in 1 .. Len(s) : Append(s, e)[i] = s[i]
        OBVIOUS
    <2>2. Range(Append(s, e)) \subseteq Range(s) \cup {e}
        BY <2>1 DEF Range
    <2>3. Range(s) \subseteq Range(Append(s, e)) /\ e \in Range(Append(s, e))
        BY <2>1 DEF Range
    <2> QED
        BY <2>1, <2>2, <2>3
  <1>3. s # <<>> => Head(s) \in Range(s) /\ Last(s) \in Range(s)
      BY DEF Range, Last
  <1>4. s # <<>> => Tail(s) \in Seq(Frames) /\ Range(Tail(s)) \subseteq Range(s)
      BY DEF Range
  <1>5. s # <<>> => Front(s) \in Seq(Frames) /\ Range(Front(s)) \subseteq Range(s)
      BY DEF Range, Front
  <1> QED
      BY <1>1, <1>2, <1>3, <1>4, <1>5

-----------------------------------------------------------------------------
(* What leaves a node.                                                     *)

Queues == [Peers -> [Range(Links) -> Seq(Frames)]]
Departures == [by : Peers, on : Range(Links), to : Peers \cup {Broadcast}, frame : Frames]
Signed(o) == [o.frame EXCEPT !.by = o.by]
Offered(o, m, l) == o.on = l /\ m \in Attached[l] \ {o.by} /\ o.to \in {m, Broadcast}

LEMMA SignedIs ==
    ASSUME NEW o \in Departures
    PROVE  /\ Signed(o) \in Frames /\ Signed(o).by = o.by /\ Signed(o).src = o.frame.src
           /\ Signed(o).dst = o.frame.dst /\ Signed(o).seq = o.frame.seq
           /\ Signed(o).keepalive = o.frame.keepalive /\ Signed(o).payload = o.frame.payload
  BY DEF Departures, Frames, Signed

LEMMA TransmitIs ==
    ASSUME NEW q \in Queues, NEW out \in SUBSET Departures
    PROVE  /\ Transmit(q, out) \in Queues
           /\ \A m \in Peers : \A l \in Range(Links) :
                 \/ Transmit(q, out)[m][l] = q[m][l]
                 \/ \E o \in out : /\ Offered(o, m, l)
                                   /\ Transmit(q, out)[m][l] = Append(q[m][l], Signed(o))
  <1>1. ASSUME NEW m \in Peers, NEW l \in Range(Links)
        PROVE  /\ Transmit(q, out)[m][l] \in Seq(Frames)
               /\ \/ Transmit(q, out)[m][l] = q[m][l]
                  \/ \E o \in out : /\ Offered(o, m, l)
                                    /\ Transmit(q, out)[m][l] = Append(q[m][l], Signed(o))
    <2>1. PICK mine : mine = {o \in out : /\ o.on = l /\ m \in Attached[l] \ {o.by}
                                          /\ o.to \in {m, Broadcast} /\ m \in Alive}
        OBVIOUS
    <2>2. PICK sent : sent = CHOOSE o \in mine : TRUE
        OBVIOUS
    <2>3. Transmit(q, out)[m][l] = IF mine = {} THEN q[m][l] ELSE Append(q[m][l], Signed(sent))
      <3>1. Transmit(q, out)[m][l] =
                LET own == {o \in out : /\ o.on = l /\ m \in Attached[l] \ {o.by}
                                        /\ o.to \in {m, Broadcast} /\ m \in Alive}
                    first == CHOOSE o \in own : TRUE
                IN IF own = {} THEN q[m][l] ELSE Append(q[m][l], [first.frame EXCEPT !.by = first.by])
          BY DEF Transmit
      <3> QED
          BY <2>1, <2>2, <3>1, Zenon DEF Signed
    <2>4. q[m][l] \in Seq(Frames)
        BY DEF Queues
    <2>5. mine # {} => sent \in out /\ Offered(sent, m, l)
        BY <2>1, <2>2 DEF Offered
    <2>6. mine # {} => Signed(sent) \in Frames
        BY <2>5, SignedIs
    <2> QED
        BY <2>3, <2>4, <2>5, <2>6
  <1>2. Transmit(q, out) = [m \in Peers |-> [l \in Range(Links) |-> Transmit(q, out)[m][l]]]
      BY DEF Transmit
  <1>3. Transmit(q, out) \in Queues
      BY <1>1, <1>2, Zenon DEF Queues
  <1> QED
      BY <1>1, <1>3

LEMMA FramesStillCome ==
    ASSUME NEW q \in Queues, NEW out \in SUBSET Departures, FramesComeFrom(q),
           \A o \in out : \A m \in Attached[o.on] \ {o.by} : ComesFrom(m, o.on, Signed(o))
    PROVE  FramesComeFrom(Transmit(q, out))
  <1> SUFFICES ASSUME NEW m \in Peers, NEW l \in Range(Links), NEW f \in Range(Transmit(q, out)[m][l])
               PROVE  ComesFrom(m, l, f)
      BY DEF FramesComeFrom
  <1>1. q[m][l] \in Seq(Frames)
      BY DEF Queues
  <1>2. CASE Transmit(q, out)[m][l] = q[m][l]
      BY <1>2 DEF FramesComeFrom
  <1>3. ASSUME NEW o \in out, Offered(o, m, l), Transmit(q, out)[m][l] = Append(q[m][l], Signed(o))
        PROVE  ComesFrom(m, l, f)
    <2>1. f \in Range(q[m][l]) \cup {Signed(o)}
        BY <1>1, <1>3, RangeFacts, SignedIs
    <2> QED
        BY <1>3, <2>1 DEF FramesComeFrom, Offered
  <1> QED
      BY <1>2, <1>3, TransmitIs

\* A frame of the node itself, and one it relays.
LEMMA OwnComes ==
    ASSUME NEW n \in Peers, NEW o \in Departures, o.by = n, o.frame.src = n, o.on \in LinksOf(n),
           NEW m \in Attached[o.on] \ {n}
    PROVE  ComesFrom(m, o.on, Signed(o))
  <1>1. m \in Peers /\ o.on \in Range(Links) /\ n \in Attached[o.on] \ {m}
      BY LinkFacts
  <1>2. n \in Beyond(m, o.on)
      BY <1>1, BeyondClosed
  <1> QED
      BY <1>1, <1>2, SignedIs DEF ComesFrom

LEMMA RelayedComes ==
    ASSUME NEW n \in Peers, NEW l \in Range(Links), NEW f \in Frames, ComesFrom(n, l, f),
           NEW o \in Departures, o.by = n, o.frame.src = f.src, o.on \in LinksOf(n) \ {l},
           NEW m \in Attached[o.on] \ {n}
    PROVE  ComesFrom(m, o.on, Signed(o)) /\ f.src # m
  <1>1. /\ m \in Peers /\ o.on \in Range(Links) /\ n \in Attached[o.on] \ {m} /\ l \in LinksOf(n)
        /\ o.on \in LinksOf(m)
      BY LinkFacts DEF ComesFrom, LinksOf
  <1>2. Beyond(n, l) \subseteq Beyond(m, o.on)
      BY <1>1, BeyondFurther
  <1>3. f.src \in Beyond(m, o.on)
      BY <1>2 DEF ComesFrom
  <1>4. f.src \notin Attached[o.on]
    <2>1. f.src \notin Beyond(n, o.on)
        BY <1>1, BeyondApart DEF ComesFrom
    <2>2. Attached[o.on] \ {n} \subseteq Beyond(n, o.on) /\ f.src # n
        BY <1>1, BeyondClosed, NoLoop DEF ComesFrom
    <2> QED
        BY <2>1, <2>2
  <1>5. f.src # m
      BY <1>1, <1>4
  <1> QED
      BY <1>1, <1>3, <1>4, <1>5, SignedIs DEF ComesFrom

-----------------------------------------------------------------------------
(* RoutesInv, step by step.                                                *)

LEMMA RoutesTypes ==
    RoutesInv => /\ table \in [Peers -> [Peers -> PeerEntries]] /\ bootId \in [Peers -> Boots]
                 /\ bcastSeq \in [Peers -> SeqNumbers] /\ polling \in Peers \cup {Nobody}
                 /\ due \subseteq Alive /\ queue \in Queues /\ repeated \in BOOLEAN /\ events \in 0 .. MaxEvents
                 /\ events \in Nat /\ Alive \subseteq Peers
  BY TransportNumbers DEF RoutesInv, TransportTypeOK, Queues, Alive

LEMMA TablesShrink ==
    ASSUME RoutesInv,
           \A n, m \in Peers : table'[n][m].known =>
               /\ table[n][m].known /\ table'[n][m].link = table[n][m].link
               /\ table'[n][m].via = table[n][m].via
    PROVE  TablesFit' /\ \A n, m \in Peers : RouteLeads(n, m, table[n][m])'
  <1>1. ASSUME NEW n \in Peers PROVE Cardinality(KnownIn(table'[n])) <= MaxNodes
    <2>1. KnownIn(table'[n]) \subseteq KnownIn(table[n])
        BY DEF KnownIn
    <2>2. IsFiniteSet(KnownIn(table[n]))
        BY PeersAreFinite, FS_Subset DEF KnownIn
    <2>3. /\ Cardinality(KnownIn(table'[n])) <= Cardinality(KnownIn(table[n]))
          /\ IsFiniteSet(KnownIn(table'[n]))
        BY <2>1, <2>2, FS_Subset
    <2>4. Cardinality(KnownIn(table'[n])) \in Nat /\ Cardinality(KnownIn(table[n])) \in Nat
        BY <2>2, <2>3, FS_CardinalityType
    <2> QED
        BY <2>3, <2>4, TransportNumbers DEF RoutesInv, TablesFit
  <1>2. ASSUME NEW n \in Peers, NEW m \in Peers PROVE RouteLeads(n, m, table'[n][m])
      BY DEF RoutesInv, RouteLeads
  <1> QED
      BY <1>1, <1>2 DEF TablesFit

LEMMA TableLearns ==
    ASSUME RoutesInv, NEW n \in Peers, NEW s \in Peers, NEW e \in PeerEntries,
           table' = [table EXCEPT ![n][s] = e], RouteLeads(n, s, e),
           table[n][s].known \/ Cardinality(KnownIn(table[n])) < MaxNodes
    PROVE  /\ table' \in [Peers -> [Peers -> PeerEntries]]
           /\ TablesFit' /\ \A x, m \in Peers : RouteLeads(x, m, table[x][m])'
  <1>1. /\ table' \in [Peers -> [Peers -> PeerEntries]] /\ table'[n][s] = e
        /\ \A x, m \in Peers : x # n \/ m # s => table'[x][m] = table[x][m]
      BY RoutesTypes
  <1>2. ASSUME NEW x \in Peers PROVE Cardinality(KnownIn(table'[x])) <= MaxNodes
    <2>1. CASE x # n
      <3>1. KnownIn(table'[x]) = KnownIn(table[x])
          BY <1>1, <2>1 DEF KnownIn
      <3> QED
          BY <3>1 DEF RoutesInv, TablesFit
    <2>2. CASE x = n
      <3>1. IsFiniteSet(KnownIn(table[n])) /\ IsFiniteSet(KnownIn(table'[n]))
          BY PeersAreFinite, FS_Subset DEF KnownIn
      <3>2. KnownIn(table'[n]) \subseteq KnownIn(table[n]) \cup {s}
          BY <1>1 DEF KnownIn
      <3>3. /\ IsFiniteSet(KnownIn(table[n]) \cup {s})
            /\ Cardinality(KnownIn(table[n]) \cup {s}) =
                  IF s \in KnownIn(table[n]) THEN Cardinality(KnownIn(table[n]))
                  ELSE Cardinality(KnownIn(table[n])) + 1
          BY <3>1, FS_AddElement
      <3>4. Cardinality(KnownIn(table'[n])) <= Cardinality(KnownIn(table[n]) \cup {s})
          BY <3>2, <3>3, FS_Subset
      <3>5. Cardinality(KnownIn(table'[n])) \in Nat /\ Cardinality(KnownIn(table[n])) \in Nat
          BY <3>1, FS_CardinalityType
      <3>6. Cardinality(KnownIn(table[n])) <= MaxNodes
          BY DEF RoutesInv, TablesFit
      <3>7. s \notin KnownIn(table[n]) => Cardinality(KnownIn(table[n])) < MaxNodes
          BY DEF KnownIn
      <3> QED
          BY <2>2, <3>3, <3>4, <3>5, <3>6, <3>7, TransportNumbers
    <2> QED
        BY <2>1, <2>2
  <1>3. ASSUME NEW x \in Peers, NEW m \in Peers PROVE RouteLeads(x, m, table'[x][m])
      BY <1>1 DEF RoutesInv
  <1> QED
      BY <1>1, <1>2, <1>3 DEF TablesFit

LEMMA QueuesShrink ==
    ASSUME RoutesInv,
           \A n \in Peers : \A l \in Range(Links) : Range(queue'[n][l]) \subseteq Range(queue[n][l])
    PROVE  FramesComeFrom(queue)'
  BY DEF RoutesInv, FramesComeFrom

LEMMA LeavesIs ==
    ASSUME NEW n \in Peers, NEW l \in Range(Links), NEW to \in Peers \cup {Broadcast}, NEW f \in Frames
    PROVE  /\ Leaves(n, l, to, f) \in Departures /\ Leaves(n, l, to, f).by = n /\ Leaves(n, l, to, f).on = l
           /\ Leaves(n, l, to, f).to = to /\ Leaves(n, l, to, f).frame = f
  BY DEF Leaves, Departures

LEMMA EverywhereIs ==
    ASSUME NEW n \in Peers, NEW links \in SUBSET Range(Links), NEW f \in Frames
    PROVE  /\ Everywhere(n, links, f) \in SUBSET Departures
           /\ \A o \in Everywhere(n, links, f) : o.by = n /\ o.on \in links /\ o.frame = f
  <1> SUFFICES ASSUME NEW o \in Everywhere(n, links, f)
               PROVE  o \in Departures /\ o.by = n /\ o.on \in links /\ o.frame = f
      OBVIOUS
  <1>1. PICK l \in links : o = Leaves(n, l, Broadcast, f)
      BY DEF Everywhere
  <1> QED
      BY <1>1, LeavesIs

\* A node sends frames of its own on its links.
SendsOwn(n, f, out) ==
    /\ out \in SUBSET Departures /\ f.src = n
    /\ \A o \in out : o.by = n /\ o.on \in LinksOf(n) /\ o.frame = f
    /\ queue' = Transmit(queue, out)

LEMMA OwnFramesCome ==
    ASSUME RoutesInv, NEW n \in Peers, NEW f \in Frames, NEW out, SendsOwn(n, f, out)
    PROVE  queue' \in Queues /\ FramesComeFrom(queue)'
  <1>1. out \in SUBSET Departures /\ queue' = Transmit(queue, out) /\ queue \in Queues /\ FramesComeFrom(queue)
      BY RoutesTypes DEF SendsOwn, RoutesInv
  <1>2. ASSUME NEW o \in out, NEW m \in Attached[o.on] \ {o.by} PROVE ComesFrom(m, o.on, Signed(o))
      BY <1>2, OwnComes DEF SendsOwn
  <1>3. FramesComeFrom(Transmit(queue, out)) /\ Transmit(queue, out) \in Queues
      BY <1>1, <1>2, FramesStillCome, TransmitIs
  <1> QED
      BY <1>1, <1>3

LEMMA SendUnicastIs ==
    ASSUME RoutesInv, NEW n \in Peers, NEW d \in Peers, SendUnicast(n, d)
    PROVE  \E f \in Frames : \E out :
              SendsOwn(n, f, out) /\ f.payload = events + 1 /\ ~f.keepalive
  <1>1. /\ d \in KnownIn(table[n]) /\ events < MaxEvents
        /\ queue' = Transmit(queue, {Leaves(n, table[n][d].link, table[n][d].via,
                                            Frame(n, d, table[n][d].txSeq, FALSE, events + 1))})
      BY DEF SendUnicast, Event
  <1>2. PICK t \in PeerEntries : t = table[n][d]
      BY RoutesTypes
  <1>3. t.link \in LinksOf(n) /\ t.link \in Range(Links) /\ t.via \in Peers \cup {Broadcast} /\ t.txSeq \in SeqNumbers
      BY <1>1, <1>2 DEF RoutesInv, RouteLeads, KnownIn, LinksOf, PeerEntries
  <1>4. events + 1 \in 0 .. MaxEvents
      BY <1>1, RoutesTypes, TransportNumbers
  <1>5. PICK f \in Frames : /\ f = Frame(n, d, t.txSeq, FALSE, events + 1)
                            /\ f.src = n /\ f.payload = events + 1 /\ ~f.keepalive
    <2>1. d \in Peers \cup {Broadcast} /\ FALSE \in BOOLEAN
        OBVIOUS
    <2>2. /\ Frame(n, d, t.txSeq, FALSE, events + 1) \in Frames
          /\ Frame(n, d, t.txSeq, FALSE, events + 1).src = n
          /\ Frame(n, d, t.txSeq, FALSE, events + 1).payload = events + 1
          /\ Frame(n, d, t.txSeq, FALSE, events + 1).keepalive = FALSE
        BY <1>3, <1>4, <2>1, RoutesTypes, TransportNumbers DEF Frame, Frames
    <2> QED
        BY <2>2, Zenon
  <1>6. PICK o \in Departures : /\ o = Leaves(n, t.link, t.via, f)
                                /\ o.by = n /\ o.on = t.link /\ o.frame = f
      BY <1>3, LeavesIs
  <1>7. SendsOwn(n, f, {o})
      BY <1>1, <1>2, <1>3, <1>5, <1>6 DEF SendsOwn
  <1> QED
      BY <1>5, <1>7

LEMMA SendEverywhereIs ==
    ASSUME RoutesInv, NEW n \in Peers, NEW keepalive \in BOOLEAN, NEW p \in 0 .. MaxEvents,
           queue' = Transmit(queue, Everywhere(n, LinksOf(n), Frame(n, Broadcast, bcastSeq[n], keepalive, p)))
    PROVE  \E f \in Frames : \E out : SendsOwn(n, f, out) /\ f.payload = p /\ f.keepalive = keepalive
  <1>1. bcastSeq[n] \in SeqNumbers /\ LinksOf(n) \subseteq Range(Links)
      BY RoutesTypes, LinkFacts
  <1>2. PICK f \in Frames : /\ f = Frame(n, Broadcast, bcastSeq[n], keepalive, p)
                            /\ f.src = n /\ f.payload = p /\ f.keepalive = keepalive
    <2>1. Broadcast \in Peers \cup {Broadcast}
        OBVIOUS
    <2>2. /\ Frame(n, Broadcast, bcastSeq[n], keepalive, p) \in Frames
          /\ Frame(n, Broadcast, bcastSeq[n], keepalive, p).src = n
          /\ Frame(n, Broadcast, bcastSeq[n], keepalive, p).payload = p
          /\ Frame(n, Broadcast, bcastSeq[n], keepalive, p).keepalive = keepalive
        BY <1>1, <2>1, RoutesTypes, TransportNumbers DEF Frame, Frames
    <2> QED
        BY <2>2, Zenon
  <1>3. SendsOwn(n, f, Everywhere(n, LinksOf(n), f))
      BY <1>1, <1>2, EverywhereIs DEF SendsOwn
  <1> QED
      BY <1>2, <1>3

LEMMA SendUnicastKeeps ==
    ASSUME RoutesInv, NEW n \in Peers, NEW d \in Peers, SendUnicast(n, d)
    PROVE  RoutesInv'
  <1>1. queue' \in Queues /\ FramesComeFrom(queue)'
      BY SendUnicastIs, OwnFramesCome
  <1>2. /\ table' = [table EXCEPT ![n][d].txSeq = NextSeq(@)] /\ events < MaxEvents /\ events' = events + 1
        /\ UNCHANGED <<bootId, bcastSeq, polling, due, delivered, repeated>>
      BY DEF SendUnicast, Event
  <1>3. PICK t \in PeerEntries : t = table[n][d]
      BY RoutesTypes
  <1>4. PICK seq \in SeqNumbers : seq = NextSeq(t.txSeq)
      BY NextSeqIs DEF PeerEntries
  <1>5. PICK e \in PeerEntries : e = [t EXCEPT !.txSeq = seq] /\ e.known = t.known /\ e.link = t.link /\ e.via = t.via
    <2>1. PICK e : e = [t EXCEPT !.txSeq = seq]
        OBVIOUS
    <2>2. e \in PeerEntries /\ e.known = t.known /\ e.link = t.link /\ e.via = t.via
        BY <2>1 DEF PeerEntries
    <2> QED
        BY <2>1, <2>2, Zenon
  <1>6. table' = [table EXCEPT ![n][d] = e]
      BY <1>2, <1>3, <1>4, <1>5
  <1>7. /\ table' \in [Peers -> [Peers -> PeerEntries]] /\ table'[n][d] = e
        /\ \A x, m \in Peers : x # n \/ m # d => table'[x][m] = table[x][m]
      BY <1>6, RoutesTypes
  <1>8. TablesFit' /\ \A x, m \in Peers : RouteLeads(x, m, table[x][m])'
      BY <1>3, <1>5, <1>7, TablesShrink
  <1>9. events' \in 0 .. MaxEvents
      BY <1>2, RoutesTypes, TransportNumbers
  <1>10. TransportTypeOK'
      BY <1>1, <1>2, <1>7, <1>9, RoutesTypes DEF TransportTypeOK, Queues, Alive
  <1> QED
      BY <1>1, <1>8, <1>10 DEF RoutesInv

LEMMA SendBroadcastKeeps ==
    ASSUME RoutesInv, NEW n \in Peers, SendBroadcast(n)
    PROVE  RoutesInv'
  <1>1. /\ events < MaxEvents /\ events' = events + 1 /\ bcastSeq' = [bcastSeq EXCEPT ![n] = NextSeq(@)]
        /\ queue' = Transmit(queue, Everywhere(n, LinksOf(n), Frame(n, Broadcast, bcastSeq[n], FALSE, events + 1)))
        /\ UNCHANGED <<table, bootId, polling, due, delivered, repeated>>
      BY DEF SendBroadcast, Event
  <1>2. events + 1 \in 0 .. MaxEvents
      BY <1>1, RoutesTypes, TransportNumbers
  <1>3. queue' \in Queues /\ FramesComeFrom(queue)'
      BY <1>1, <1>2, SendEverywhereIs, OwnFramesCome
  <1>4. bcastSeq' \in [Peers -> SeqNumbers]
      BY <1>1, RoutesTypes, NextSeqIs
  <1>5. TablesFit' /\ \A x, m \in Peers : RouteLeads(x, m, table[x][m])'
      BY <1>1, TablesShrink
  <1>6. TransportTypeOK'
      BY <1>1, <1>2, <1>3, <1>4, RoutesTypes DEF TransportTypeOK, Queues, Alive
  <1> QED
      BY <1>3, <1>5, <1>6 DEF RoutesInv

\* expire()
LEMMA ExpiredKeeps ==
    ASSUME RoutesInv, NEW n \in Peers, table' = [table EXCEPT ![n] = Expired(@)]
    PROVE  /\ table' \in [Peers -> [Peers -> PeerEntries]]
           /\ TablesFit' /\ \A x, m \in Peers : RouteLeads(x, m, table[x][m])'
           /\ \A x \in Peers \ {n} : table'[x] = table[x]
  <1>1. /\ Expired(table[n]) \in [Peers -> PeerEntries]
        /\ \A m \in Peers : Expired(table[n])[m].known => Expired(table[n])[m] = table[n][m]
      BY RoutesTypes, EntryTypes DEF Expired
  <1>2. /\ table' \in [Peers -> [Peers -> PeerEntries]] /\ table'[n] = Expired(table[n])
        /\ \A x \in Peers \ {n} : table'[x] = table[x]
      BY <1>1, RoutesTypes
  <1>3. \A x, m \in Peers : table'[x][m].known => table'[x][m] = table[x][m]
      BY <1>1, <1>2
  <1> QED
      BY <1>2, <1>3, TablesShrink

LEMMA OnTimeIs ==
    RoutesInv /\ OnTime => events' \in 0 .. MaxEvents /\ events' >= events
  BY RoutesTypes, TransportNumbers DEF OnTime, Event

LEMMA KeepaliveKeeps ==
    ASSUME RoutesInv, NEW n \in Peers, Keepalive(n)
    PROVE  RoutesInv'
  <1>1. /\ OnTime /\ bcastSeq' = [bcastSeq EXCEPT ![n] = NextSeq(@)] /\ due' = due \ {n}
        /\ table' = [table EXCEPT ![n] = Expired(@)]
        /\ queue' = Transmit(queue, Everywhere(n, LinksOf(n), Frame(n, Broadcast, bcastSeq[n], TRUE, 0)))
        /\ UNCHANGED <<bootId, polling, delivered, repeated>>
      BY DEF Keepalive
  <1>2. queue' \in Queues /\ FramesComeFrom(queue)'
      BY <1>1, SendEverywhereIs, OwnFramesCome, TransportNumbers
  <1>3. bcastSeq' \in [Peers -> SeqNumbers]
      BY <1>1, RoutesTypes, NextSeqIs
  <1>4. /\ table' \in [Peers -> [Peers -> PeerEntries]]
        /\ TablesFit' /\ \A x, m \in Peers : RouteLeads(x, m, table[x][m])'
      BY <1>1, ExpiredKeeps
  <1>5. TransportTypeOK'
      BY <1>1, <1>2, <1>3, <1>4, RoutesTypes, OnTimeIs DEF TransportTypeOK, Queues, Alive
  <1> QED
      BY <1>2, <1>4, <1>5 DEF RoutesInv

\* The frame a poll takes.
LEMMA TakenIs ==
    ASSUME RoutesInv, NEW n \in Peers, NEW i \in DOMAIN Links, FirstWaiting(n, i)
    PROVE  /\ Links[i] \in LinksOf(n) /\ Links[i] \in Range(Links)
           /\ queue[n][Links[i]] \in Seq(Frames) /\ queue[n][Links[i]] # <<>>
           /\ Head(queue[n][Links[i]]) \in Frames /\ Head(queue[n][Links[i]]) \in Range(queue[n][Links[i]])
           /\ ComesFrom(n, Links[i], Head(queue[n][Links[i]]))
           /\ Head(queue[n][Links[i]]).src \in Peers /\ Head(queue[n][Links[i]]).src # n
  <1>1. Links[i] \in Range(Links)
      BY LinkFacts
  <1>2. queue[n][Links[i]] \in Seq(Frames) /\ queue[n][Links[i]] # <<>>
      BY <1>1, RoutesTypes DEF Queues, FirstWaiting
  <1>3. Head(queue[n][Links[i]]) \in Frames /\ Head(queue[n][Links[i]]) \in Range(queue[n][Links[i]])
      BY <1>2, RangeFacts
  <1>4. ComesFrom(n, Links[i], Head(queue[n][Links[i]]))
      BY <1>1, <1>3 DEF RoutesInv, FramesComeFrom
  <1>5. Links[i] \in LinksOf(n)
      BY <1>1, <1>4 DEF ComesFrom, LinksOf
  <1>6. Head(queue[n][Links[i]]).src # n
      BY <1>4, <1>5, NoLoop DEF ComesFrom
  <1> QED
      BY <1>1, <1>2, <1>3, <1>4, <1>5, <1>6 DEF Frames

LEMMA QueueTailIs ==
    ASSUME RoutesInv, NEW n \in Peers, NEW l \in Range(Links), queue[n][l] # <<>>,
           NEW q, q = [queue EXCEPT ![n][l] = Tail(@)]
    PROVE  /\ q \in Queues /\ q[n][l] = Tail(queue[n][l])
           /\ \A m \in Peers : \A k \in Range(Links) : m # n \/ k # l => q[m][k] = queue[m][k]
           /\ \A m \in Peers : \A k \in Range(Links) : Range(q[m][k]) \subseteq Range(queue[m][k])
  <1>1. queue[n][l] \in Seq(Frames)
      BY RoutesTypes DEF Queues
  <1>2. PICK t \in Seq(Frames) : t = Tail(queue[n][l]) /\ Range(t) \subseteq Range(queue[n][l])
      BY <1>1, RangeFacts
  <1>3. q = [queue EXCEPT ![n][l] = t]
      BY <1>2
  <1>4. /\ q \in Queues /\ q[n][l] = t
        /\ \A m \in Peers : \A k \in Range(Links) : m # n \/ k # l => q[m][k] = queue[m][k]
      BY <1>3, RoutesTypes DEF Queues
  <1> QED
      BY <1>2, <1>4

LEMMA DropFrameIs ==
    ASSUME RoutesInv, NEW n \in Peers, NEW i \in DOMAIN Links, DropFrame(n, i)
    PROVE  \E f \in Frames : \E l \in LinksOf(n) :
              /\ l = Links[i] /\ f = Head(queue[n][l]) /\ queue[n][l] # <<>>
              /\ table' \in [Peers -> [Peers -> PeerEntries]]
              /\ \A x, m \in Peers :
                    /\ table'[x][m].known <=> table[x][m].known
                    /\ table'[x][m].known => /\ table'[x][m].link = table[x][m].link
                                             /\ table'[x][m].via = table[x][m].via
                                             /\ table'[x][m].unicast = table[x][m].unicast
                                             /\ table'[x][m].broadcast = table[x][m].broadcast
              /\ queue' = [queue EXCEPT ![n][l] = Tail(@)]
  <1>1. FirstWaiting(n, i) /\ queue' = [queue EXCEPT ![n][Links[i]] = Tail(@)]
      BY DEF DropFrame
  <1>2. PICK l \in LinksOf(n), f \in Frames :
            /\ l = Links[i] /\ f = Head(queue[n][l]) /\ queue[n][l] # <<>> /\ f.src \in Peers
      BY <1>1, TakenIs
  <1>3. PICK t \in PeerEntries : t = table[n][f.src]
      BY <1>2, RoutesTypes
  <1>4. Full(table[n], f) \/ Duplicate(n, Heard(t), f)
      BY <1>2, <1>3 DEF DropFrame
  <1>5. PICK e \in PeerEntries : e = IF Full(table[n], f) THEN t ELSE Heard(t)
      BY HeardIs
  <1>6. table' = [table EXCEPT ![n][f.src] = e]
      BY <1>2, <1>3, <1>5 DEF DropFrame
  <1>7. /\ table' \in [Peers -> [Peers -> PeerEntries]] /\ table'[n][f.src] = e
        /\ \A x, m \in Peers : x # n \/ m # f.src => table'[x][m] = table[x][m]
      BY <1>2, <1>6, RoutesTypes
  <1>8. ~Full(table[n], f) => t.known
    <2> SUFFICES ASSUME ~t.known, Duplicate(n, Heard(t), f) PROVE FALSE
        BY <1>4
    <2>1. Heard(t).unicast = Unheard /\ Heard(t).broadcast = Unheard
        BY LinkFacts DEF Heard, NewNode, NoNode
    <2>2. f.seq \in SeqNumbers /\ Unheard \notin SeqNumbers
        BY TransportNumbers DEF Frames, SeqNumbers, Unheard
    <2> QED
        BY <2>1, <2>2 DEF Duplicate, Stream
  <1>9. /\ e.known <=> t.known
        /\ e.known => /\ e.link = t.link /\ e.via = t.via /\ e.unicast = t.unicast /\ e.broadcast = t.broadcast
      BY <1>5, <1>8, HeardIs
  <1>10. \A x, m \in Peers :
            /\ table'[x][m].known <=> table[x][m].known
            /\ table'[x][m].known => /\ table'[x][m].link = table[x][m].link
                                     /\ table'[x][m].via = table[x][m].via
                                     /\ table'[x][m].unicast = table[x][m].unicast
                                     /\ table'[x][m].broadcast = table[x][m].broadcast
      BY <1>3, <1>7, <1>9
  <1> QED
      BY <1>1, <1>2, <1>7, <1>10

LEMMA DropFrameKeeps ==
    ASSUME RoutesInv, NEW n \in Peers, NEW i \in DOMAIN Links, DropFrame(n, i)
    PROVE  RoutesInv'
  <1>1. PICK f \in Frames, l \in LinksOf(n) :
            /\ queue[n][l] # <<>> /\ table' \in [Peers -> [Peers -> PeerEntries]]
            /\ \A x, m \in Peers : table'[x][m].known =>
                  /\ table[x][m].known /\ table'[x][m].link = table[x][m].link
                  /\ table'[x][m].via = table[x][m].via
            /\ queue' = [queue EXCEPT ![n][l] = Tail(@)]
      BY DropFrameIs
  <1>2. /\ queue' \in Queues
        /\ \A m \in Peers : \A k \in Range(Links) : Range(queue'[m][k]) \subseteq Range(queue[m][k])
      BY <1>1, QueueTailIs, LinkFacts
  <1>3. FramesComeFrom(queue)'
      BY <1>2, QueuesShrink
  <1>4. TablesFit' /\ \A x, m \in Peers : RouteLeads(x, m, table[x][m])'
      BY <1>1, TablesShrink
  <1>5. polling' = n /\ UNCHANGED <<bootId, bcastSeq, due, delivered, repeated, events>>
      BY DEF DropFrame
  <1>6. TransportTypeOK'
      BY <1>1, <1>2, <1>5, RoutesTypes DEF TransportTypeOK, Queues, Alive
  <1> QED
      BY <1>3, <1>4, <1>6 DEF RoutesInv

\* relay(): on another link, and unchanged but for the hop.
LEMMA RelayIs ==
    ASSUME RoutesInv, NEW n \in Peers, NEW l \in LinksOf(n), NEW f \in Frames
    PROVE  /\ Relay(n, table[n], l, f) \in SUBSET Departures
           /\ \A o \in Relay(n, table[n], l, f) :
                 /\ o.by = n /\ o.on \in LinksOf(n) \ {l}
                 /\ o.frame.src = f.src /\ o.frame.dst = f.dst /\ o.frame.seq = f.seq
                 /\ o.frame.keepalive = f.keepalive /\ o.frame.payload = f.payload
  <1>1. CASE f.dst = n \/ f.hops >= MaxHops
      BY <1>1 DEF Relay
  <1>2. CASE ~(f.dst = n \/ f.hops >= MaxHops)
    <2>1. PICK g : g = [f EXCEPT !.hops = @ + 1]
        OBVIOUS
    <2>2. f.hops + 1 \in 0 .. MaxHops
        BY <1>2, TransportNumbers DEF Frames
    <2>3. /\ g \in Frames /\ g.src = f.src /\ g.dst = f.dst /\ g.seq = f.seq
          /\ g.keepalive = f.keepalive /\ g.payload = f.payload
        BY <2>1, <2>2 DEF Frames
    <2>4. CASE f.dst = Broadcast
      <3>1. Relay(n, table[n], l, f) = Everywhere(n, LinksOf(n) \ {l}, g)
          BY <1>2, <2>1, <2>4 DEF Relay
      <3>2. LinksOf(n) \ {l} \in SUBSET Range(Links)
          BY LinkFacts
      <3> QED
          BY <2>3, <3>1, <3>2, EverywhereIs
    <2>5. CASE f.dst # Broadcast /\ (~table[n][f.dst].known \/ table[n][f.dst].link = l)
        BY <1>2, <2>5 DEF Relay
    <2>6. CASE f.dst # Broadcast /\ ~(~table[n][f.dst].known \/ table[n][f.dst].link = l)
      <3>1. f.dst \in Peers
          BY <2>6 DEF Frames
      <3>2. PICK t \in PeerEntries : t = table[n][f.dst]
          BY <3>1, RoutesTypes
      <3>3. Relay(n, table[n], l, f) = {Leaves(n, t.link, t.via, g)}
          BY <1>2, <2>1, <2>6, <3>2 DEF Relay
      <3>4. t.link \in Range(Links) /\ t.via \in Peers \cup {Broadcast} /\ t.link \in LinksOf(n) \ {l}
          BY <2>6, <3>1, <3>2 DEF RoutesInv, RouteLeads, LinksOf, PeerEntries
      <3> QED
          BY <2>3, <3>3, <3>4, LeavesIs
    <2> QED
        BY <2>4, <2>5, <2>6
  <1> QED
      BY <1>1, <1>2

\* What a node sends when it takes f from l: a welcome on that link, f on others.
Answers(n, l, f, out) ==
    /\ out \in SUBSET Departures
    /\ \A o \in out :
          /\ o.by = n /\ o.on \in LinksOf(n)
          /\ \/ o.on = l /\ o.frame.src = n /\ o.frame.keepalive /\ o.frame.payload = 0
             \/ /\ o.on # l /\ o.frame.src = f.src /\ o.frame.dst = f.dst /\ o.frame.seq = f.seq
                /\ o.frame.keepalive = f.keepalive /\ o.frame.payload = f.payload

\* The frame f of link l is learnt as entry e and answered with out.
Takes(n, i, f, l, e, out) ==
    /\ l = Links[i] /\ f = Head(queue[n][l]) /\ queue[n][l] # <<>> /\ ComesFrom(n, l, f)
    /\ f.src \in Peers /\ f.src # n
    /\ table' = [table EXCEPT ![n][f.src] = e]
    /\ e.known /\ e.link = l /\ e.via = f.by
    /\ ~f.keepalive /\ Stream(n, f) # "none" => e[Stream(n, f)] = f.seq
    /\ ~Full(table[n], f) /\ ~Duplicate(n, Heard(table[n][f.src]), f)
    /\ Answers(n, l, f, out)
    /\ queue' = Transmit([queue EXCEPT ![n][l] = Tail(@)], out)

LEMMA OnFrameIs ==
    ASSUME RoutesInv, NEW n \in Peers, NEW i \in DOMAIN Links, OnFrame(n, i)
    PROVE  \E f \in Frames, l \in LinksOf(n), e \in PeerEntries, out \in SUBSET Departures :
              Takes(n, i, f, l, e, out)
  <1>1. FirstWaiting(n, i)
      BY DEF OnFrame
  <1>2. PICK l \in LinksOf(n), f \in Frames :
            /\ l = Links[i] /\ f = Head(queue[n][l]) /\ queue[n][l] # <<>> /\ f.src \in Peers /\ f.src # n
            /\ ComesFrom(n, l, f) /\ l \in Range(Links)
      BY <1>1, TakenIs
  <1>3. PICK old \in PeerEntries : old = table[n][f.src]
      BY <1>2, RoutesTypes
  <1>4. PICK learnt \in PeerEntries :
            /\ learnt = Learn(n, old, l, f) /\ learnt.known /\ learnt.link = l /\ learnt.via = f.by
            /\ Stream(n, f) # "none" => learnt[Stream(n, f)] = f.seq
      BY <1>2, LearnIs
  <1>5. PICK booted \in PeerEntries :
            /\ booted = IF f.keepalive THEN OnBootId(n, learnt, f) ELSE learnt
            /\ booted.known /\ booted.link = l /\ booted.via = f.by
            /\ ~f.keepalive /\ Stream(n, f) # "none" => booted[Stream(n, f)] = f.seq
      BY <1>4, OnBootIdIs
  <1>6. PICK e \in PeerEntries :
            /\ e = IF ~old.known THEN [booted EXCEPT !.txSeq = NextSeq(@)] ELSE booted
            /\ e.known /\ e.link = l /\ e.via = f.by
            /\ ~f.keepalive /\ Stream(n, f) # "none" => e[Stream(n, f)] = f.seq
    <2>1. PICK u : u = [booted EXCEPT !.txSeq = NextSeq(@)]
        OBVIOUS
    <2>2. NextSeq(booted.txSeq) \in SeqNumbers
        BY NextSeqIs DEF PeerEntries
    <2>3. /\ u \in PeerEntries /\ u.known = booted.known /\ u.link = booted.link /\ u.via = booted.via
          /\ u.unicast = booted.unicast /\ u.broadcast = booted.broadcast
        BY <2>1, <2>2 DEF PeerEntries
    <2>4. Stream(n, f) # "none" => u[Stream(n, f)] = booted[Stream(n, f)]
        BY <2>3 DEF Stream
    <2> QED
        BY <1>5, <2>1, <2>3, <2>4
  <1>7. table' = [table EXCEPT ![n][f.src] = e]
      BY <1>2, <1>3, <1>4, <1>5, <1>6 DEF OnFrame
  <1>8. PICK out : out = (IF ~old.known THEN {Welcome(n, booted, f)} ELSE {}) \cup Relay(n, table[n], l, f)
      OBVIOUS
  <1>9. queue' = Transmit([queue EXCEPT ![n][l] = Tail(@)], out)
      BY <1>2, <1>3, <1>4, <1>5, <1>8 DEF OnFrame
  <1>10. /\ Welcome(n, booted, f) \in Departures /\ Welcome(n, booted, f).by = n /\ Welcome(n, booted, f).on = l
         /\ Welcome(n, booted, f).frame.src = n /\ Welcome(n, booted, f).frame.keepalive
         /\ Welcome(n, booted, f).frame.payload = 0
    <2>1. PICK g : g = Frame(n, f.src, booted.txSeq, TRUE, 0)
        OBVIOUS
    <2>2. booted.txSeq \in SeqNumbers /\ booted.via \in Peers \cup {Broadcast}
        BY DEF PeerEntries
    <2>3. g \in Frames /\ g.src = n /\ g.keepalive /\ g.payload = 0
        BY <1>2, <2>1, <2>2, RoutesTypes, TransportNumbers DEF Frame, Frames
    <2>4. Welcome(n, booted, f) = Leaves(n, l, booted.via, g)
        BY <1>5, <2>1 DEF Welcome
    <2> QED
        BY <1>2, <2>2, <2>3, <2>4, LeavesIs
  <1>11. Answers(n, l, f, out)
    <2>1. out \in SUBSET Departures
        BY <1>8, <1>10, RelayIs
    <2>2. ASSUME NEW o \in out
          PROVE  /\ o.by = n /\ o.on \in LinksOf(n)
                 /\ \/ o.on = l /\ o.frame.src = n /\ o.frame.keepalive /\ o.frame.payload = 0
                    \/ /\ o.on # l /\ o.frame.src = f.src /\ o.frame.dst = f.dst /\ o.frame.seq = f.seq
                       /\ o.frame.keepalive = f.keepalive /\ o.frame.payload = f.payload
      <3>1. CASE o = Welcome(n, booted, f)
          BY <1>10, <3>1
      <3>2. CASE o \in Relay(n, table[n], l, f)
          BY <3>2, RelayIs
      <3> QED
          BY <1>8, <3>1, <3>2
    <2> QED
        BY <2>1, <2>2 DEF Answers
  <1>12. ~Full(table[n], f) /\ ~Duplicate(n, Heard(table[n][f.src]), f)
      BY <1>2 DEF OnFrame
  <1> QED
    <2>1. Takes(n, i, f, l, e, out)
        BY <1>2, <1>6, <1>7, <1>9, <1>11, <1>12 DEF Takes
    <2>2. out \in SUBSET Departures
        BY <1>11 DEF Answers
    <2> QED
        BY <2>1, <2>2, Zenon

LEMMA OnFrameKeeps ==
    ASSUME RoutesInv, NEW n \in Peers, NEW i \in DOMAIN Links, OnFrame(n, i)
    PROVE  RoutesInv'
  <1>0. PICK f \in Frames, l \in LinksOf(n), e \in PeerEntries, out \in SUBSET Departures :
            Takes(n, i, f, l, e, out)
      BY OnFrameIs, Zenon
  <1>1. /\ queue[n][l] # <<>> /\ ComesFrom(n, l, f) /\ f.src \in Peers
        /\ table' = [table EXCEPT ![n][f.src] = e] /\ e.link = l /\ e.via = f.by
        /\ ~Full(table[n], f) /\ Answers(n, l, f, out)
        /\ queue' = Transmit([queue EXCEPT ![n][l] = Tail(@)], out)
      BY <1>0 DEF Takes
  <1>2. PICK q : q = [queue EXCEPT ![n][l] = Tail(@)]
      OBVIOUS
  <1>3. q \in Queues /\ \A m \in Peers : \A k \in Range(Links) : Range(q[m][k]) \subseteq Range(queue[m][k])
      BY <1>1, <1>2, QueueTailIs, LinkFacts
  <1>4. FramesComeFrom(q)
      BY <1>3 DEF RoutesInv, FramesComeFrom
  <1>5. ASSUME NEW o \in out, NEW m \in Attached[o.on] \ {o.by} PROVE ComesFrom(m, o.on, Signed(o))
    <2>1. o \in Departures /\ o.by = n /\ o.on \in LinksOf(n)
        BY <1>1 DEF Answers
    <2>2. CASE o.on = l /\ o.frame.src = n
        BY <1>5, <2>1, <2>2, OwnComes
    <2>3. CASE o.on # l /\ o.frame.src = f.src
        BY <1>1, <1>5, <2>1, <2>3, RelayedComes, LinkFacts
    <2> QED
        BY <1>1, <2>2, <2>3 DEF Answers
  <1>6. queue' \in Queues /\ FramesComeFrom(queue)'
    <2>1. out \in SUBSET Departures
        BY <1>1 DEF Answers
    <2>2. FramesComeFrom(Transmit(q, out)) /\ Transmit(q, out) \in Queues
        BY <1>3, <1>4, <1>5, <2>1, FramesStillCome, TransmitIs
    <2> QED
        BY <1>1, <1>2, <2>2
  <1>7. RouteLeads(n, f.src, e)
      BY <1>1 DEF RouteLeads, ComesFrom
  <1>8. table[n][f.src].known \/ Cardinality(KnownIn(table[n])) < MaxNodes
    <2>1. IsFiniteSet(KnownIn(table[n]))
        BY PeersAreFinite, FS_Subset DEF KnownIn
    <2>2. Cardinality(KnownIn(table[n])) \in Nat
        BY <2>1, FS_CardinalityType
    <2> QED
        BY <1>1, <2>2, TransportNumbers DEF Full
  <1>9. /\ table' \in [Peers -> [Peers -> PeerEntries]]
        /\ TablesFit' /\ \A x, m \in Peers : RouteLeads(x, m, table[x][m])'
      BY <1>1, <1>7, <1>8, TableLearns
  <1>10. polling' = n /\ UNCHANGED <<bootId, bcastSeq, due, events>> /\ repeated' \in BOOLEAN
      BY RoutesTypes DEF OnFrame
  <1>11. TransportTypeOK'
      BY <1>6, <1>9, <1>10, RoutesTypes DEF TransportTypeOK, Queues, Alive
  <1> QED
      BY <1>6, <1>9, <1>11 DEF RoutesInv

LEMMA EndPollKeeps ==
    ASSUME RoutesInv, NEW n \in Peers, EndPoll(n)
    PROVE  RoutesInv'
  <1>1. /\ polling' = Nobody /\ table' = [table EXCEPT ![n] = Expired(@)]
        /\ UNCHANGED <<bootId, bcastSeq, due, queue, delivered, repeated, events>>
      BY DEF EndPoll
  <1>2. /\ table' \in [Peers -> [Peers -> PeerEntries]]
        /\ TablesFit' /\ \A x, m \in Peers : RouteLeads(x, m, table[x][m])'
      BY <1>1, ExpiredKeeps
  <1>3. FramesComeFrom(queue)'
      BY <1>1, QueuesShrink
  <1>4. TransportTypeOK'
      BY <1>1, <1>2, RoutesTypes DEF TransportTypeOK, Queues, Alive
  <1> QED
      BY <1>2, <1>3, <1>4 DEF RoutesInv

\* Lose() and Double(): the end of one queue.
LEMMA QueueEndIs ==
    ASSUME RoutesInv, NEW n \in Peers, NEW l \in Range(Links), NEW s \in Seq(Frames),
           Range(s) \subseteq Range(queue[n][l]), queue' = [queue EXCEPT ![n][l] = s]
    PROVE  /\ queue' \in Queues /\ queue'[n][l] = s
           /\ \A m \in Peers : \A k \in Range(Links) : m # n \/ k # l => queue'[m][k] = queue[m][k]
           /\ \A m \in Peers : \A k \in Range(Links) : Range(queue'[m][k]) \subseteq Range(queue[m][k])
  <1>1. /\ queue' \in Queues /\ queue'[n][l] = s
        /\ \A m \in Peers : \A k \in Range(Links) : m # n \/ k # l => queue'[m][k] = queue[m][k]
      BY RoutesTypes DEF Queues
  <1> QED
      BY <1>1

LEMMA MishapIs ==
    ASSUME RoutesInv, NEW n \in Peers, NEW l \in Range(Links), Lose(n, l) \/ Double(n, l)
    PROVE  \E s \in Seq(Frames) : /\ s = Front(queue[n][l]) \/ s = Append(queue[n][l], Last(queue[n][l]))
                                  /\ queue' = [queue EXCEPT ![n][l] = s] /\ queue[n][l] # <<>>
                                  /\ Range(s) \subseteq Range(queue[n][l])
  <1>1. queue[n][l] \in Seq(Frames) /\ queue[n][l] # <<>>
      BY RoutesTypes DEF Queues, Lose, Double
  <1>2. CASE Lose(n, l)
    <2>1. PICK s \in Seq(Frames) : s = Front(queue[n][l]) /\ Range(s) \subseteq Range(queue[n][l])
        BY <1>1, RangeFacts
    <2>2. queue' = [queue EXCEPT ![n][l] = s]
        BY <1>2, <2>1 DEF Lose
    <2> QED
        BY <1>1, <2>1, <2>2
  <1>3. CASE Double(n, l)
    <2>1. Last(queue[n][l]) \in Frames /\ Last(queue[n][l]) \in Range(queue[n][l])
        BY <1>1, RangeFacts
    <2>2. PICK s \in Seq(Frames) : /\ s = Append(queue[n][l], Last(queue[n][l]))
                                   /\ Range(s) \subseteq Range(queue[n][l])
      <3>1. /\ Append(queue[n][l], Last(queue[n][l])) \in Seq(Frames)
            /\ Range(Append(queue[n][l], Last(queue[n][l]))) = Range(queue[n][l]) \cup {Last(queue[n][l])}
          BY <1>1, <2>1, RangeFacts
      <3> QED
          BY <2>1, <3>1
    <2>3. queue' = [queue EXCEPT ![n][l] = s]
        BY <1>3, <2>2 DEF Double
    <2> QED
        BY <1>1, <2>2, <2>3
  <1> QED
      BY <1>2, <1>3

LEMMA MishapKeeps ==
    ASSUME RoutesInv, NEW n \in Peers, NEW l \in Range(Links), Lose(n, l) \/ Double(n, l)
    PROVE  RoutesInv'
  <1>1. PICK s \in Seq(Frames) : Range(s) \subseteq Range(queue[n][l]) /\ queue' = [queue EXCEPT ![n][l] = s]
      BY MishapIs
  <1>2. /\ queue' \in Queues
        /\ \A m \in Peers : \A k \in Range(Links) : Range(queue'[m][k]) \subseteq Range(queue[m][k])
      BY <1>1, QueueEndIs
  <1>3. FramesComeFrom(queue)'
      BY <1>2, QueuesShrink
  <1>4. /\ events < MaxEvents /\ events' = events + 1
        /\ UNCHANGED <<table, bootId, bcastSeq, polling, due, delivered, repeated>>
      BY DEF Lose, Double, Event
  <1>5. TablesFit' /\ \A x, m \in Peers : RouteLeads(x, m, table[x][m])'
      BY <1>4, TablesShrink
  <1>6. events' \in 0 .. MaxEvents
      BY <1>4, RoutesTypes, TransportNumbers
  <1>7. TransportTypeOK'
      BY <1>2, <1>4, <1>6, RoutesTypes DEF TransportTypeOK, Queues, Alive
  <1> QED
      BY <1>3, <1>5, <1>7 DEF RoutesInv

LEMMA PeriodIs ==
    ASSUME RoutesInv, Period
    PROVE  /\ table' \in [Peers -> [Peers -> PeerEntries]]
           /\ \A n, m \in Peers : /\ table'[n][m].known = table[n][m].known
                                  /\ table'[n][m].link = table[n][m].link
                                  /\ table'[n][m].via = table[n][m].via
                                  /\ table'[n][m].unicast = table[n][m].unicast
                                  /\ table'[n][m].broadcast = table[n][m].broadcast
  <1>1. table' = [n \in Peers |-> [m \in Peers |->
                    IF table[n][m].known /\ table[n][m].age < Expiry
                    THEN [table[n][m] EXCEPT !.age = @ + 1] ELSE table[n][m]]]
      BY DEF Period
  <1>2. ASSUME NEW n \in Peers, NEW m \in Peers
        PROVE  /\ table'[n][m] \in PeerEntries
               /\ table'[n][m].known = table[n][m].known /\ table'[n][m].link = table[n][m].link
               /\ table'[n][m].via = table[n][m].via /\ table'[n][m].unicast = table[n][m].unicast
               /\ table'[n][m].broadcast = table[n][m].broadcast
    <2>1. PICK t \in PeerEntries : t = table[n][m]
        BY RoutesTypes
    <2>2. table'[n][m] = IF t.known /\ t.age < Expiry THEN [t EXCEPT !.age = @ + 1] ELSE t
        BY <1>1, <2>1
    <2>3. t.age < Expiry => t.age + 1 \in 0 .. Expiry
        BY TransportNumbers DEF PeerEntries
    <2> QED
        BY <2>1, <2>2, <2>3 DEF PeerEntries
  <1>3. table' = [n \in Peers |-> [m \in Peers |-> table'[n][m]]]
      BY <1>1
  <1>4. table' \in [Peers -> [Peers -> PeerEntries]]
      BY <1>2, <1>3, Zenon
  <1> QED
      BY <1>2, <1>4

LEMMA PeriodKeeps == RoutesInv /\ Period => RoutesInv'
  <1> SUFFICES ASSUME RoutesInv, Period PROVE RoutesInv'
      OBVIOUS
  <1>1. OnTime /\ due' = Alive /\ UNCHANGED <<bootId, bcastSeq, polling, queue, delivered, repeated>>
      BY DEF Period
  <1>2. TablesFit' /\ \A x, m \in Peers : RouteLeads(x, m, table[x][m])'
      BY PeriodIs, TablesShrink
  <1>3. FramesComeFrom(queue)'
      BY <1>1, QueuesShrink
  <1>4. TransportTypeOK'
      BY <1>1, PeriodIs, RoutesTypes, OnTimeIs DEF TransportTypeOK, Queues, Alive
  <1> QED
      BY <1>2, <1>3, <1>4 DEF RoutesInv

LEMMA CrashIs ==
    ASSUME RoutesInv, NEW n \in Peers, Crash(n)
    PROVE  /\ queue' \in Queues /\ \A l \in Range(Links) : queue'[n][l] = <<>>
           /\ \A m \in Peers \ {n} : queue'[m] = queue[m]
           /\ table' \in [Peers -> [Peers -> PeerEntries]] /\ \A m \in Peers : ~table'[n][m].known
           /\ \A m \in Peers \ {n} : table'[m] = table[m]
  <1>1. /\ table' = [table EXCEPT ![n] = [m \in Peers |-> NoNode]]
        /\ queue' = [queue EXCEPT ![n] = [l \in Range(Links) |-> <<>>]]
      BY DEF Crash
  <1>2. [l \in Range(Links) |-> <<>>] \in [Range(Links) -> Seq(Frames)]
      OBVIOUS
  <1>3. [m \in Peers |-> NoNode] \in [Peers -> PeerEntries]
      BY EntryTypes
  <1>4. /\ queue' \in Queues /\ \A l \in Range(Links) : queue'[n][l] = <<>>
        /\ \A m \in Peers \ {n} : queue'[m] = queue[m]
      BY <1>1, <1>2, RoutesTypes DEF Queues
  <1>5. /\ table' \in [Peers -> [Peers -> PeerEntries]] /\ \A m \in Peers : table'[n][m] = NoNode
        /\ \A m \in Peers \ {n} : table'[m] = table[m]
      BY <1>1, <1>3, RoutesTypes
  <1> QED
      BY <1>4, <1>5, EntryTypes

LEMMA CrashKeeps ==
    ASSUME RoutesInv, NEW n \in Peers, Crash(n)
    PROVE  RoutesInv'
  <1>1. /\ events < MaxEvents /\ events' = events + 1 /\ due' = due \ {n} /\ bootId' = [bootId EXCEPT ![n] = 0]
        /\ UNCHANGED <<bcastSeq, polling, delivered, repeated>>
      BY DEF Crash, Event
  <1>2. \A m \in Peers : \A k \in Range(Links) : Range(queue'[m][k]) \subseteq Range(queue[m][k])
    <2>1. Range(<<>>) = {}
        BY DEF Range
    <2> QED
        BY <2>1, CrashIs
  <1>3. FramesComeFrom(queue)'
      BY <1>2, QueuesShrink
  <1>4. TablesFit' /\ \A x, m \in Peers : RouteLeads(x, m, table[x][m])'
    <2>1. \A x, m \in Peers : table'[x][m].known => table'[x][m] = table[x][m]
        BY CrashIs
    <2> QED
        BY <2>1, TablesShrink
  <1>5. events' \in 0 .. MaxEvents /\ bootId' \in [Peers -> Boots] /\ due' \subseteq Alive'
      BY <1>1, RoutesTypes, TransportNumbers DEF Alive
  <1>6. TransportTypeOK'
      BY <1>1, <1>5, CrashIs, RoutesTypes DEF TransportTypeOK, Queues
  <1> QED
      BY <1>3, <1>4, <1>6 DEF RoutesInv

LEMMA BootKeeps ==
    ASSUME RoutesInv, NEW n \in Peers, Boot(n)
    PROVE  RoutesInv'
  <1>1. /\ bootId' = [bootId EXCEPT ![n] = events + 1] /\ bcastSeq' = [bcastSeq EXCEPT ![n] = 0]
        /\ due' = due \cup {n} /\ UNCHANGED <<table, polling, queue, delivered, repeated, events>>
      BY DEF Boot
  <1>2. TablesFit' /\ FramesComeFrom(queue)' /\ \A x, m \in Peers : RouteLeads(x, m, table[x][m])'
      BY <1>1, TablesShrink, QueuesShrink
  <1>3. events + 1 \in Boots /\ events + 1 # 0
      BY RoutesTypes, TransportNumbers DEF Boots
  <1>4. bootId' \in [Peers -> Boots] /\ bcastSeq' \in [Peers -> SeqNumbers] /\ due' \subseteq Alive'
      BY <1>1, <1>3, RoutesTypes, TransportNumbers DEF Alive
  <1>5. TransportTypeOK'
      BY <1>1, <1>4, RoutesTypes DEF TransportTypeOK, Queues
  <1> QED
      BY <1>2, <1>5 DEF RoutesInv

LEMMA RoutesInit == Init => RoutesInv
  <1> SUFFICES ASSUME Init PROVE RoutesInv
      OBVIOUS
  <1> USE DEF Init
  <1>1. \A n, m \in Peers : table[n][m] = NoNode
      OBVIOUS
  <1>2. TransportTypeOK
    <2>1. table \in [Peers -> [Peers -> PeerEntries]]
        BY EntryTypes
    <2>2. bootId \in [Peers -> Boots] /\ bcastSeq \in [Peers -> SeqNumbers] /\ events \in 0 .. MaxEvents
        BY TransportNumbers
    <2>3. due \subseteq Alive
        BY DEF Alive
    <2>4. queue \in [Peers -> [Range(Links) -> Seq(Frames)]]
      <3>1. [l \in Range(Links) |-> <<>>] \in [Range(Links) -> Seq(Frames)]
          OBVIOUS
      <3> QED
          BY <3>1
    <2>5. polling \in Peers \cup {Nobody} /\ repeated \in BOOLEAN
        OBVIOUS
    <2> QED
        BY <2>1, <2>2, <2>3, <2>4, <2>5 DEF TransportTypeOK
  <1>3. FramesComeFrom(queue)
    <2>1. Range(<<>>) = {}
        BY DEF Range
    <2>2. \A n \in Peers : \A l \in Range(Links) : queue[n][l] = <<>>
        OBVIOUS
    <2> QED
        BY <2>1, <2>2 DEF FramesComeFrom
  <1>4. TablesFit
    <2> SUFFICES ASSUME NEW n \in Peers PROVE Cardinality(KnownIn(table[n])) <= MaxNodes
        BY DEF TablesFit
    <2>1. KnownIn(table[n]) = {}
        BY <1>1, EntryTypes DEF KnownIn
    <2>2. Cardinality(KnownIn(table[n])) = 0
        BY <2>1, FS_EmptySet, Zenon
    <2> QED
        BY <2>2, TransportNumbers
  <1>5. \A n, m \in Peers : RouteLeads(n, m, table[n][m])
      BY <1>1, EntryTypes DEF RouteLeads
  <1> QED
      BY <1>2, <1>3, <1>4, <1>5 DEF RoutesInv

LEMMA RoutesStep == RoutesInv /\ [Next]_vars => RoutesInv'
  <1> SUFFICES ASSUME RoutesInv, [Next]_vars PROVE RoutesInv'
      OBVIOUS
  <1>1. CASE Period
      BY <1>1, PeriodKeeps
  <1>2. ASSUME NEW n \in Peers, Poll(n) PROVE RoutesInv'
      BY <1>2, DropFrameKeeps, OnFrameKeeps, EndPollKeeps, KeepaliveKeeps DEF Poll
  <1>3. ASSUME NEW n \in Peers, SendBroadcast(n) \/ Boot(n) \/ Crash(n) PROVE RoutesInv'
      BY <1>3, SendBroadcastKeeps, BootKeeps, CrashKeeps
  <1>4. ASSUME NEW n \in Peers, NEW d \in Peers, SendUnicast(n, d) PROVE RoutesInv'
      BY <1>4, SendUnicastKeeps
  <1>5. ASSUME NEW n \in Peers, NEW l \in Range(Links), Lose(n, l) \/ Double(n, l) PROVE RoutesInv'
      BY <1>5, MishapKeeps
  <1>6. CASE UNCHANGED vars
    <2>1. UNCHANGED <<table, bootId, bcastSeq, polling, due, queue, delivered, repeated, events>>
        BY <1>6 DEF vars
    <2>2. TransportTypeOK'
        BY <2>1 DEF RoutesInv, TransportTypeOK, Alive
    <2>3. TablesFit' /\ FramesComeFrom(queue)' /\ \A x, m \in Peers : RouteLeads(x, m, table[x][m])'
        BY <2>1, TablesShrink, QueuesShrink
    <2> QED
        BY <2>2, <2>3 DEF RoutesInv
  <1> QED
      BY <1>1, <1>2, <1>3, <1>4, <1>5, <1>6 DEF Next

\* The transport's inductive invariant, on links that form no loop: a frame
\* comes over a link from a neighbour and from where its sender is (relay()),
\* every route leads there (learn()), and the table keeps its limit.
THEOREM TransportRoutesInvariant == Spec => []RoutesInv
  BY RoutesInit, RoutesStep, PTL DEF Spec

\* Every route of every table leads towards its node, no frame is offered to
\* its own sender, and table and hop count keep their limits (learn(), relay()).
THEOREM TransportRoutesLead == Spec => []RoutesLead
  <1>1. RoutesInv => RoutesLead
    <2> SUFFICES ASSUME RoutesInv PROVE RoutesLead
        OBVIOUS
    <2>1. TypeOK
      <3>1. ASSUME NEW n \in Peers, NEW m \in Peers
            PROVE  /\ table[n][m].age \in 0 .. Expiry
                   /\ {table[n][m].unicast, table[n][m].broadcast} \subseteq Unheard .. SeqCount - 1
                   /\ table[n][m].txSeq \in 0 .. SeqCount - 1 /\ table[n][m].boot \in 0 .. MaxEvents + 1
        <4>1. PICK t \in PeerEntries : t = table[n][m]
            BY RoutesTypes
        <4>2. SeqNumbers \cup {Unheard} \subseteq Unheard .. SeqCount - 1
            BY TransportNumbers DEF SeqNumbers, Unheard
        <4> QED
            BY <4>1, <4>2 DEF PeerEntries, SeqNumbers, Boots
      <3> QED
          BY <3>1, RoutesTypes DEF TypeOK, SeqNumbers, Boots
    <2>2. ASSUME NEW n \in Peers, NEW m \in KnownIn(table[n])
          PROVE  /\ n # m /\ n \in Attached[table[n][m].link] /\ m \in Beyond(n, table[n][m].link)
                 /\ table[n][m].via = (IF m \in Attached[table[n][m].link] THEN m ELSE table[n][m].via)
                 /\ table[n][m].via # n
      <3>1. m \in Peers /\ table[n][m].known
          BY DEF KnownIn
      <3>2. table[n][m].link \in Range(Links)
          BY <3>1, RoutesTypes DEF PeerEntries
      <3>3. /\ n \in Attached[table[n][m].link] /\ m \in Beyond(n, table[n][m].link)
            /\ table[n][m].via \in Attached[table[n][m].link] \ {n}
            /\ m \in Attached[table[n][m].link] => table[n][m].via = m
          BY <3>1 DEF RoutesInv, RouteLeads
      <3>4. n # m
          BY <3>2, <3>3, NoLoop DEF LinksOf
      <3> QED
          BY <3>3, <3>4
    <2>3. ASSUME NEW n \in Peers, NEW l \in Range(Links), NEW i \in DOMAIN queue[n][l]
          PROVE  queue[n][l][i].hops <= MaxHops /\ queue[n][l][i].src # n
      <3>1. queue[n][l][i] \in Frames /\ queue[n][l][i] \in Range(queue[n][l])
        <4>1. queue[n][l] \in Seq(Frames)
            BY RoutesTypes DEF Queues
        <4> QED
            BY <4>1 DEF Range
      <3>2. ComesFrom(n, l, queue[n][l][i])
          BY <3>1 DEF RoutesInv, FramesComeFrom
      <3> QED
          BY <3>1, <3>2, NoLoop DEF ComesFrom, LinksOf, Frames
    <2>4. TablesFit
        BY DEF RoutesInv
    <2> QED
        BY <2>1, <2>2, <2>3, <2>4 DEF RoutesLead, TablesFit
  <1> QED
      BY <1>1, TransportRoutesInvariant, PTL

-----------------------------------------------------------------------------
(* Copies of a payload in a queue.                                         *)

LEMMA TailCopies ==
    ASSUME NEW q \in Seq(Frames), q # <<>>
    PROVE  /\ \A p : Has(Tail(q), p) => Has(q, p)
           /\ \A p : Leading(q, p) => Leading(Tail(q), p)
           /\ Together(q) => Together(Tail(q))
           /\ Together(q) /\ Head(q).payload # 0 => Leading(q, Head(q).payload)
           /\ \A p : Leading(q, p) /\ Has(q, p) => Head(q).payload = p
           /\ Has(q, Head(q).payload)
  <1>0. /\ Len(q) \in Nat \ {0} /\ Len(Tail(q)) = Len(q) - 1 /\ Tail(q) \in Seq(Frames)
        /\ \A i \in 1 .. Len(q) - 1 : Tail(q)[i] = q[i + 1]
        /\ Head(q) = q[1] /\ DOMAIN q = 1 .. Len(q) /\ DOMAIN Tail(q) = 1 .. Len(q) - 1
      OBVIOUS
  <1>1. PICK t : t = Tail(q)
      OBVIOUS
  <1>2. PICK n \in Nat \ {0} : n = Len(q)
      BY <1>0
  <1>3. /\ DOMAIN t = 1 .. n - 1 /\ DOMAIN q = 1 .. n /\ \A i \in 1 .. n - 1 : t[i] = q[i + 1]
      BY <1>0, <1>1, <1>2
  <1>4. ASSUME NEW p, Has(t, p) PROVE Has(q, p)
    <2>1. PICK i \in 1 .. n - 1 : q[i + 1].payload = p
        BY <1>3, <1>4 DEF Has
    <2> QED
        BY <1>3, <2>1 DEF Has
  <1>5. ASSUME NEW p, Leading(q, p) PROVE Leading(t, p)
    <2> SUFFICES ASSUME NEW i \in 1 .. n - 1, t[i].payload = p, NEW j \in 1 .. i PROVE t[j].payload = p
        BY <1>3 DEF Leading
    <2>1. i + 1 \in 1 .. n /\ j + 1 \in 1 .. i + 1 /\ j \in 1 .. n - 1
        OBVIOUS
    <2>2. q[i + 1].payload = p
        BY <1>3
    <2>3. q[j + 1].payload = p
        BY <1>3, <1>5, <2>1, <2>2 DEF Leading
    <2> QED
        BY <1>3, <2>1, <2>3
  <1>6. ASSUME Together(q) PROVE Together(t)
    <2> SUFFICES ASSUME NEW i \in 1 .. n - 1, NEW j \in 1 .. n - 1, NEW k \in 1 .. n - 1, i < j, j < k,
                        t[i].payload # 0, t[i].payload = t[k].payload
                 PROVE  t[j].payload = t[i].payload
        BY <1>3 DEF Together
    <2>1. i + 1 \in 1 .. n /\ j + 1 \in 1 .. n /\ k + 1 \in 1 .. n /\ i + 1 < j + 1 /\ j + 1 < k + 1
        OBVIOUS
    <2>2. t[i] = q[i + 1] /\ t[j] = q[j + 1] /\ t[k] = q[k + 1]
        BY <1>3
    <2>3. q[j + 1].payload = q[i + 1].payload
        BY <1>3, <1>6, <2>1, <2>2 DEF Together
    <2> QED
        BY <2>2, <2>3
  <1>7. ASSUME Together(q), q[1].payload # 0 PROVE Leading(q, q[1].payload)
    <2> SUFFICES ASSUME NEW i \in 1 .. n, q[i].payload = q[1].payload, NEW j \in 1 .. i
                 PROVE  q[j].payload = q[1].payload
        BY <1>3 DEF Leading
    <2>1. CASE j = 1 \/ j = i
        BY <2>1
    <2>2. CASE j # 1 /\ j # i
      <3>1. 1 \in 1 .. n /\ j \in 1 .. n /\ 1 < j /\ j < i
          BY <2>2
      <3> QED
          BY <1>3, <1>7, <3>1 DEF Together
    <2> QED
        BY <2>1, <2>2
  <1>8. ASSUME NEW p, Leading(q, p), Has(q, p) PROVE q[1].payload = p
    <2>1. PICK i \in 1 .. n : q[i].payload = p
        BY <1>3, <1>8 DEF Has
    <2>2. 1 \in 1 .. i
        OBVIOUS
    <2> QED
        BY <1>3, <1>8, <2>1, <2>2 DEF Leading
  <1>9. Has(q, q[1].payload)
      BY <1>3 DEF Has
  <1> QED
      BY <1>0, <1>1, <1>4, <1>5, <1>6, <1>7, <1>8, <1>9

LEMMA AppendCopies ==
    ASSUME NEW q \in Seq(Frames), NEW f \in Frames
    PROVE  /\ \A p : Has(Append(q, f), p) <=> Has(q, p) \/ f.payload = p
           /\ \A p : Leading(q, p) /\ f.payload # p => Leading(Append(q, f), p)
           /\ Append(q, f) # <<>> /\ Last(Append(q, f)) = f
           /\ Together(q) /\ (\/ f.payload = 0 \/ ~Has(q, f.payload)
                              \/ q # <<>> /\ Last(q).payload = f.payload) => Together(Append(q, f))
  <1>0. Append(q, f) \in Seq(Frames)
      OBVIOUS
  <1>1. PICK t \in Seq(Frames) : t = Append(q, f)
      BY <1>0, Zenon
  <1>2. PICK n \in Nat : n = Len(q)
      OBVIOUS
  <1>3. /\ DOMAIN t = 1 .. n + 1 /\ DOMAIN q = 1 .. n /\ \A i \in 1 .. n : t[i] = q[i]
        /\ t[n + 1] = f /\ t # <<>> /\ Len(t) = n + 1
      BY <1>1, <1>2
  <1>4. ASSUME NEW p PROVE Has(t, p) <=> Has(q, p) \/ f.payload = p
    <2>1. \A i \in 1 .. n + 1 : i \in 1 .. n \/ i = n + 1
        OBVIOUS
    <2>2. \A i \in 1 .. n : i \in 1 .. n + 1
        OBVIOUS
    <2>3. n + 1 \in 1 .. n + 1
        OBVIOUS
    <2> QED
        BY <1>3, <2>1, <2>2, <2>3, Zenon DEF Has
  <1>5. ASSUME NEW p, Leading(q, p), f.payload # p PROVE Leading(t, p)
    <2> SUFFICES ASSUME NEW i \in 1 .. n + 1, t[i].payload = p, NEW j \in 1 .. i PROVE t[j].payload = p
        BY <1>3 DEF Leading
    <2>1. i \in 1 .. n /\ j \in 1 .. n
        BY <1>3, <1>5
    <2> QED
        BY <1>3, <1>5, <2>1 DEF Leading
  <1>6. Last(t) = f
      BY <1>3 DEF Last
  <1>7. ASSUME Together(q), \/ f.payload = 0 \/ ~Has(q, f.payload)
                            \/ q # <<>> /\ Last(q).payload = f.payload
        PROVE  Together(t)
    <2> SUFFICES ASSUME NEW i \in 1 .. n + 1, NEW j \in 1 .. n + 1, NEW k \in 1 .. n + 1, i < j, j < k,
                        t[i].payload # 0, t[i].payload = t[k].payload
                 PROVE  t[j].payload = t[i].payload
        BY <1>3 DEF Together
    <2>1. i \in 1 .. n /\ j \in 1 .. n /\ t[i] = q[i] /\ t[j] = q[j]
        BY <1>3
    <2>2. CASE k \in 1 .. n
        BY <1>3, <1>7, <2>1, <2>2 DEF Together
    <2>3. CASE k = n + 1
      <3>1. f.payload # 0 /\ q[i].payload = f.payload
          BY <1>3, <2>1, <2>3
      <3>2. Has(q, f.payload)
          BY <1>3, <2>1, <3>1 DEF Has
      <3>3. q[n].payload = f.payload /\ n \in 1 .. n
          BY <1>2, <1>7, <2>1, <3>1, <3>2 DEF Last
      <3>4. CASE j = n
          BY <2>1, <3>1, <3>3, <3>4
      <3>5. CASE j # n
        <4>1. j < n
            BY <2>1, <3>5
        <4> QED
            BY <1>3, <1>7, <2>1, <3>1, <3>3, <4>1 DEF Together
      <3> QED
          BY <3>4, <3>5
    <2> QED
        BY <2>2, <2>3
  <1> QED
      BY <1>1, <1>3, <1>4, <1>5, <1>6, <1>7

LEMMA FrontCopies ==
    ASSUME NEW q \in Seq(Frames), q # <<>>
    PROVE  /\ \A p : Has(Front(q), p) => Has(q, p)
           /\ \A p : Leading(q, p) => Leading(Front(q), p)
           /\ Together(q) => Together(Front(q))
  <1>1. PICK t \in Seq(Frames) : t = Front(q)
      BY RangeFacts
  <1>2. PICK n \in Nat \ {0} : n = Len(q)
      OBVIOUS
  <1>3. DOMAIN t = 1 .. n - 1 /\ DOMAIN q = 1 .. n /\ \A i \in 1 .. n - 1 : t[i] = q[i]
      BY <1>1, <1>2 DEF Front
  <1>4. \A i \in 1 .. n - 1 : i \in 1 .. n /\ \A j \in 1 .. i : j \in 1 .. n - 1
      OBVIOUS
  <1>5. ASSUME NEW p, Has(t, p) PROVE Has(q, p)
      BY <1>3, <1>4, <1>5, Zenon DEF Has
  <1>6. ASSUME NEW p, Leading(q, p) PROVE Leading(t, p)
      BY <1>3, <1>4, <1>6 DEF Leading
  <1>7. ASSUME Together(q) PROVE Together(t)
      BY <1>3, <1>4, <1>7 DEF Together
  <1> QED
      BY <1>1, <1>5, <1>6, <1>7

\* The last frame of a queue comes again.
LEMMA DoubleCopies ==
    ASSUME NEW q \in Seq(Frames), q # <<>>
    PROVE  /\ \A p : Has(Append(q, Last(q)), p) => Has(q, p)
           /\ \A p : Leading(q, p) => Leading(Append(q, Last(q)), p)
           /\ Together(q) => Together(Append(q, Last(q)))
  <1>1. PICK f \in Frames : f = Last(q) /\ f \in Range(q)
      BY RangeFacts
  <1>2. Has(q, f.payload)
      BY <1>1 DEF Has, Range
  <1>3. \A p : Has(Append(q, f), p) => Has(q, p)
      BY <1>2, AppendCopies
  <1>4. Together(q) => Together(Append(q, f))
      BY <1>1, AppendCopies
  <1>5. ASSUME NEW p, Leading(q, p), f.payload = p PROVE Leading(Append(q, f), p)
    <2>0. Append(q, f) \in Seq(Frames)
        OBVIOUS
    <2>1. PICK t \in Seq(Frames) : t = Append(q, f)
        BY <2>0, Zenon
    <2>2. PICK n \in Nat \ {0} : n = Len(q)
        OBVIOUS
    <2>3. /\ DOMAIN t = 1 .. n + 1 /\ DOMAIN q = 1 .. n /\ \A i \in 1 .. n : t[i] = q[i]
          /\ t[n + 1] = f /\ q[n] = f
        BY <1>1, <2>1, <2>2 DEF Last
    <2>4. \A j \in 1 .. n : q[j].payload = p
        BY <1>5, <2>3 DEF Leading
    <2>5. \A j \in 1 .. n + 1 : t[j].payload = p
        BY <1>5, <2>3, <2>4
    <2>6. \A i \in 1 .. n + 1 : \A j \in 1 .. i : j \in 1 .. n + 1
        OBVIOUS
    <2>7. Leading(t, p)
        BY <2>3, <2>5, <2>6 DEF Leading
    <2> QED
        BY <2>1, <2>7
  <1> QED
      BY <1>1, <1>3, <1>4, <1>5, AppendCopies

LEMMA HasIs ==
    ASSUME NEW q \in Seq(Frames)
    PROVE  /\ \A p : Has(q, p) <=> \E f \in Range(q) : f.payload = p
           /\ q = <<>> <=> Range(q) = {}
  <1>1. \A p : Has(q, p) <=> \E f \in Range(q) : f.payload = p
      BY Zenon DEF Has, Range
  <1>2. q # <<>> => Head(q) \in Range(q)
      BY RangeFacts
  <1>3. Range(<<>>) = {}
      BY DEF Range
  <1> QED
      BY <1>1, <1>2, <1>3

\* A queue only lost frames, or repeated its last one.
Dwindles(s, q) ==
    /\ Range(s) \subseteq Range(q) /\ (Together(q) => Together(s))
    /\ \A p \in 0 .. MaxEvents : Leading(q, p) => Leading(s, p)

LEMMA DwindlesIs ==
    ASSUME NEW q \in Seq(Frames)
    PROVE  /\ Dwindles(q, q)
           /\ q # <<>> => Dwindles(Tail(q), q) /\ Dwindles(Front(q), q) /\ Dwindles(Append(q, Last(q)), q)
           /\ Dwindles(<<>>, q)
  <1>1. q # <<>> => Dwindles(Tail(q), q)
      BY TailCopies, RangeFacts DEF Dwindles
  <1>2. q # <<>> => Dwindles(Front(q), q)
      BY FrontCopies, RangeFacts DEF Dwindles
  <1>3. q # <<>> => Dwindles(Append(q, Last(q)), q)
    <2> SUFFICES ASSUME q # <<>> PROVE Dwindles(Append(q, Last(q)), q)
        OBVIOUS
    <2>1. Last(q) \in Range(q) /\ Last(q) \in Frames
        BY RangeFacts
    <2>2. Range(Append(q, Last(q))) \subseteq Range(q)
        BY <2>1, RangeFacts
    <2> QED
        BY <2>2, DoubleCopies DEF Dwindles
  <1>4. Dwindles(<<>>, q)
    <2>1. Range(<<>>) = {} /\ Together(<<>>) /\ \A p : Leading(<<>>, p)
        BY DEF Range, Together, Leading
    <2> QED
        BY <2>1 DEF Dwindles
  <1>5. Dwindles(q, q)
      BY DEF Dwindles
  <1> QED
      BY <1>1, <1>2, <1>3, <1>4, <1>5

\* What a step that sends and hands over nothing may do.
Quiet ==
    /\ \A n \in Peers : \A l \in Range(Links) : Dwindles(queue'[n][l], queue[n][l])
    /\ \A n, m \in Peers : table[n][m].known /\ (\E l \in Range(Links) : queue'[n][l] # <<>>) =>
          /\ table'[n][m].known /\ table'[n][m].unicast = table[n][m].unicast
          /\ table'[n][m].broadcast = table[n][m].broadcast
    /\ \A n \in Peers : polling = n =>
          Idle(n) \/ (polling' = n /\ \A m \in Peers \ {n} : queue'[m] = queue[m])
    /\ delivered' = delivered /\ repeated' = repeated /\ events' >= events

LEMMA FlightIs ==
    /\ \A n \in Peers : \A l \in Range(Links) : Range(queue[n][l]) \subseteq InFlight
    /\ \A f \in InFlight : \E n \in Peers : \E l \in Range(Links) : f \in Range(queue[n][l])
  BY DEF InFlight

LEMMA WaitingIsNumbered ==
    ASSUME RoutesInv, CopiesInv, NEW n \in Peers, NEW l \in Range(Links), NEW p, Has(queue[n][l], p)
    PROVE  p \in 0 .. events
  <1>1. queue[n][l] \in Seq(Frames)
      BY RoutesTypes DEF Queues
  <1>2. PICK f \in Range(queue[n][l]) : f.payload = p
      BY <1>1, HasIs
  <1>3. f \in Frames /\ f \in InFlight
      BY <1>1, FlightIs, RangeFacts
  <1>4. f.payload <= events /\ f.payload \in 0 .. MaxEvents
      BY <1>3 DEF CopiesInv, PayloadsAreNumbered, Frames
  <1> QED
      BY <1>2, <1>4, RoutesTypes

LEMMA QuietCopies ==
    ASSUME RoutesInv, RoutesInv', CopiesInv, Quiet
    PROVE  CopiesInv'
  <1>1. ASSUME NEW n \in Peers, NEW l \in Range(Links)
        PROVE  /\ queue[n][l] \in Seq(Frames) /\ queue'[n][l] \in Seq(Frames)
               /\ Range(queue'[n][l]) \subseteq Range(queue[n][l]) /\ Range(queue'[n][l]) \subseteq Frames
               /\ \A p : Has(queue'[n][l], p) => Has(queue[n][l], p)
               /\ queue[n][l] = <<>> => queue'[n][l] = <<>>
    <2>1. queue[n][l] \in Seq(Frames) /\ queue'[n][l] \in Seq(Frames)
        BY RoutesTypes DEF Queues, RoutesInv, TransportTypeOK
    <2>2. Range(queue'[n][l]) \subseteq Range(queue[n][l]) /\ Range(queue'[n][l]) \subseteq Frames
        BY <2>1, RangeFacts DEF Quiet, Dwindles
    <2> QED
        BY <2>1, <2>2, HasIs
  <1>2. events \in Nat /\ events' \in Nat /\ events' >= events /\ events' <= MaxEvents
    <2>1. events' \in 0 .. MaxEvents
        BY DEF RoutesInv, TransportTypeOK
    <2> QED
        BY <2>1, RoutesTypes, TransportNumbers DEF Quiet
  <1>3. InFlight' \subseteq InFlight /\ InFlight \subseteq Frames
    <2>1. ASSUME NEW f \in InFlight' PROVE f \in InFlight
      <3>1. PICK n \in Peers, l \in Range(Links) : f \in Range(queue'[n][l])
          BY <2>1 DEF InFlight
      <3> QED
          BY <1>1, <3>1, FlightIs
    <2>2. ASSUME NEW f \in InFlight PROVE f \in Frames
        BY <1>1, <2>2, FlightIs, RangeFacts
    <2> QED
        BY <2>1, <2>2
  <1>4. PayloadsAreNumbered'
    <2>1. ASSUME NEW f \in InFlight' PROVE f.payload <= events' /\ (f.keepalive <=> f.payload = 0)
      <3>1. f \in Frames /\ f.payload <= events /\ (f.keepalive <=> f.payload = 0)
          BY <1>3, <2>1 DEF CopiesInv, PayloadsAreNumbered
      <3>2. f.payload \in Nat
          BY <3>1 DEF Frames
      <3> QED
          BY <1>2, <3>1, <3>2
    <2>2. \A f, g \in InFlight' : Alike(f, g)
        BY <1>3 DEF CopiesInv, PayloadsAreNumbered
    <2>3. delivered' \subseteq Peers \X (1 .. events')
      <3>1. 1 .. events \subseteq 1 .. events'
          BY <1>2
      <3>2. delivered \subseteq Peers \X (1 .. events) /\ delivered' = delivered
          BY DEF CopiesInv, PayloadsAreNumbered, Quiet
      <3> QED
          BY <3>1, <3>2
    <2> QED
        BY <2>1, <2>2, <2>3 DEF PayloadsAreNumbered
  <1>5. CopiesAreTogether'
      BY DEF CopiesInv, CopiesAreTogether, Quiet, Dwindles
  <1>6. CopiesAreKnown'
    <2> SUFFICES ASSUME NEW n \in Peers, NEW l \in Range(Links), NEW f \in Range(queue'[n][l]),
                        <<n, f.payload>> \in delivered'
                 PROVE  /\ Leading(queue'[n][l], f.payload)
                        /\ table'[n][f.src].known /\ Duplicate(n, table'[n][f.src], f)
        BY DEF CopiesAreKnown
    <2>1. f \in Range(queue[n][l]) /\ f \in Frames /\ <<n, f.payload>> \in delivered /\ queue'[n][l] # <<>>
        BY <1>1, HasIs DEF Quiet
    <2>2. /\ Leading(queue[n][l], f.payload)
          /\ table[n][f.src].known /\ Duplicate(n, table[n][f.src], f)
        BY <2>1 DEF CopiesInv, CopiesAreKnown
    <2>3. f.src \in Peers /\ f.payload \in 0 .. MaxEvents
        BY <2>1 DEF Frames
    <2>4. /\ table'[n][f.src].known /\ table'[n][f.src].unicast = table[n][f.src].unicast
          /\ table'[n][f.src].broadcast = table[n][f.src].broadcast
        BY <2>1, <2>2, <2>3 DEF Quiet
    <2>5. Leading(queue'[n][l], f.payload)
        BY <2>2, <2>3 DEF Quiet, Dwindles
    <2> QED
        BY <2>2, <2>4, <2>5 DEF Duplicate, Stream
  <1>7. NothingIsAhead'
    <2> SUFFICES ASSUME NEW n \in Peers, NEW l \in LinksOf(n), NEW p \in 1 .. events', Has(queue'[n][l], p),
                        NEW k \in LinksOf(n) \ {l}, NEW x \in Beyond(n, k)
                 PROVE  NotAt(x, p)' \/ (Relaying(n, l, p)' /\ x \in Attached[k] /\ JustAt(x, k, p)')
        BY DEF NothingIsAhead
    <2>1. l \in Range(Links) /\ k \in Range(Links) /\ x \in Peers /\ x # n
        BY LinkFacts, BeyondClosed, NoLoop
    <2>2. Has(queue[n][l], p)
        BY <1>1, <2>1
    <2>3. p \in 1 .. events
        BY <2>1, <2>2, WaitingIsNumbered
    <2>4. NotAt(x, p) \/ (Relaying(n, l, p) /\ x \in Attached[k] /\ JustAt(x, k, p))
        BY <2>2, <2>3 DEF CopiesInv, NothingIsAhead
    <2>5. CASE NotAt(x, p)
      <3>1. NotAt(x, p)'
          BY <1>1, <2>1, <2>5 DEF NotAt, Quiet
      <3> QED
          BY <3>1
    <2>6. CASE Relaying(n, l, p) /\ x \in Attached[k] /\ JustAt(x, k, p)
      <3>1. polling = n /\ Leading(queue[n][l], p)
          BY <2>6 DEF Relaying
      <3>2. PICK i \in DOMAIN Links : Links[i] = l /\ FirstWaiting(n, i)
          BY <2>6 DEF Relaying
      <3>3. ~Idle(n)
          BY <2>1, <3>2 DEF Idle, FirstWaiting
      <3>4. polling' = n /\ queue'[x] = queue[x]
          BY <2>1, <3>1, <3>3 DEF Quiet
      <3>5. JustAt(x, k, p)'
          BY <2>6, <3>4 DEF JustAt, Quiet
      <3>6. queue'[n][l] # <<>>
        <4>1. queue'[n][l] \in Seq(Frames)
            BY <1>1, <2>1
        <4> QED
            BY <4>1 DEF Has
      <3>7. FirstWaiting(n, i)'
        <4>1. ASSUME NEW j \in 1 .. i - 1 PROVE queue'[n][Links[j]] = <<>>
          <5>1. j \in DOMAIN Links /\ queue[n][Links[j]] = <<>>
              BY <3>2, TransportAssumption DEF FirstWaiting
          <5> QED
              BY <1>1, <5>1, LinkFacts
        <4> QED
            BY <3>2, <3>6, <4>1 DEF FirstWaiting
      <3>8. p \in 0 .. MaxEvents
          BY <1>2, TransportNumbers
      <3>9. Leading(queue'[n][l], p)
          BY <2>1, <3>1, <3>8 DEF Quiet, Dwindles
      <3>10. Relaying(n, l, p)'
          BY <3>2, <3>4, <3>7, <3>9 DEF Relaying
      <3> QED
          BY <2>6, <3>5, <3>10
    <2> QED
        BY <2>4, <2>5, <2>6
  <1>8. DeliveredOnce'
      BY DEF CopiesInv, DeliveredOnce, Quiet
  <1> QED
      BY <1>4, <1>5, <1>6, <1>7, <1>8 DEF CopiesInv

LEMMA DropFrameCopies ==
    ASSUME RoutesInv, RoutesInv', CopiesInv, NEW n \in Peers, NEW i \in DOMAIN Links, DropFrame(n, i)
    PROVE  CopiesInv'
  <1>1. PICK f \in Frames, l \in LinksOf(n) :
            /\ queue[n][l] # <<>>
            /\ \A x, m \in Peers :
                  /\ table'[x][m].known <=> table[x][m].known
                  /\ table'[x][m].known => /\ table'[x][m].unicast = table[x][m].unicast
                                           /\ table'[x][m].broadcast = table[x][m].broadcast
            /\ queue' = [queue EXCEPT ![n][l] = Tail(@)]
      BY DropFrameIs
  <1>2. l \in Range(Links)
      BY LinkFacts
  <1>3. /\ queue' \in Queues /\ queue'[n][l] = Tail(queue[n][l])
        /\ \A m \in Peers : \A k \in Range(Links) : m # n \/ k # l => queue'[m][k] = queue[m][k]
    <2>0. queue[n][l] \in Seq(Frames)
        BY <1>2, RoutesTypes DEF Queues
    <2>1. PICK t \in Seq(Frames) : t = Tail(queue[n][l])
        BY <1>1, <2>0, RangeFacts
    <2>2. queue' = [queue EXCEPT ![n][l] = t]
        BY <1>1, <2>1
    <2> QED
        BY <1>2, <2>1, <2>2, RoutesTypes DEF Queues
  <1>4. ASSUME NEW m \in Peers, NEW k \in Range(Links) PROVE Dwindles(queue'[m][k], queue[m][k])
    <2>1. queue[m][k] \in Seq(Frames)
        BY RoutesTypes DEF Queues
    <2> QED
        BY <1>1, <1>3, <2>1, DwindlesIs
  <1>5. polling \in {n, Nobody} /\ polling' = n /\ UNCHANGED <<delivered, repeated, events>>
      BY DEF DropFrame
  <1>6. \A m \in Peers \ {n} : queue'[m] = queue[m]
      BY <1>3, RoutesTypes DEF Queues
  <1>7. \A m \in Peers : polling = m => m = n
      BY <1>5, TransportNumbers DEF Nobody
  <1>8. Quiet
      BY <1>1, <1>4, <1>5, <1>6, <1>7, RoutesTypes DEF Quiet
  <1> QED
      BY <1>8, QuietCopies

LEMMA EndPollCopies ==
    ASSUME RoutesInv, RoutesInv', CopiesInv, NEW n \in Peers, EndPoll(n)
    PROVE  CopiesInv'
  <1>1. /\ polling = n /\ Idle(n) /\ table' = [table EXCEPT ![n] = Expired(@)]
        /\ UNCHANGED <<queue, delivered, repeated, events>>
      BY DEF EndPoll
  <1>2. \A x \in Peers \ {n} : table'[x] = table[x]
      BY <1>1, ExpiredKeeps
  <1>3. \A m \in Peers : \A k \in Range(Links) : Dwindles(queue'[m][k], queue[m][k])
      BY <1>1, RoutesTypes, DwindlesIs DEF Queues
  <1>4. \A l \in Range(Links) : queue'[n][l] = <<>>
      BY <1>1 DEF Idle
  <1>5. Quiet
      BY <1>1, <1>2, <1>3, <1>4, RoutesTypes DEF Quiet
  <1> QED
      BY <1>5, QuietCopies

LEMMA MishapCopies ==
    ASSUME RoutesInv, RoutesInv', CopiesInv, NEW n \in Peers, NEW l \in Range(Links), Lose(n, l) \/ Double(n, l)
    PROVE  CopiesInv'
  <1>1. PICK s \in Seq(Frames) :
            /\ s = Front(queue[n][l]) \/ s = Append(queue[n][l], Last(queue[n][l]))
            /\ queue' = [queue EXCEPT ![n][l] = s] /\ queue[n][l] # <<>>
            /\ Range(s) \subseteq Range(queue[n][l])
      BY MishapIs
  <1>2. /\ queue'[n][l] = s
        /\ \A m \in Peers : \A k \in Range(Links) : m # n \/ k # l => queue'[m][k] = queue[m][k]
    <2>1. queue' = [queue EXCEPT ![n][l] = s]
        BY <1>1
    <2> QED
        BY <2>1, RoutesTypes DEF Queues
  <1>3. ASSUME NEW m \in Peers, NEW k \in Range(Links) PROVE Dwindles(queue'[m][k], queue[m][k])
    <2>1. queue[m][k] \in Seq(Frames)
        BY RoutesTypes DEF Queues
    <2>2. CASE m = n /\ k = l
        BY <1>1, <1>2, <2>1, <2>2, DwindlesIs
    <2>3. CASE m # n \/ k # l
        BY <1>2, <2>1, <2>3, DwindlesIs
    <2> QED
        BY <2>2, <2>3
  <1>4. polling = Nobody /\ events' = events + 1 /\ UNCHANGED <<table, polling, delivered, repeated>>
      BY DEF Lose, Double, Event
  <1>5. Quiet
      BY <1>3, <1>4, RoutesTypes, TransportNumbers DEF Quiet, Nobody
  <1> QED
      BY <1>5, QuietCopies

LEMMA PeriodCopies == RoutesInv /\ RoutesInv' /\ CopiesInv /\ Period => CopiesInv'
  <1> SUFFICES ASSUME RoutesInv, RoutesInv', CopiesInv, Period PROVE CopiesInv'
      OBVIOUS
  <1>1. polling = Nobody /\ OnTime /\ UNCHANGED <<polling, queue, delivered, repeated>>
      BY DEF Period
  <1>2. \A m \in Peers : \A k \in Range(Links) : Dwindles(queue'[m][k], queue[m][k])
      BY <1>1, RoutesTypes, DwindlesIs DEF Queues
  <1>3. Quiet
      BY <1>1, <1>2, PeriodIs, OnTimeIs, TransportNumbers DEF Quiet, Nobody
  <1> QED
      BY <1>3, QuietCopies

LEMMA CrashCopies ==
    ASSUME RoutesInv, RoutesInv', CopiesInv, NEW n \in Peers, Crash(n)
    PROVE  CopiesInv'
  <1>1. polling = Nobody /\ events' = events + 1 /\ UNCHANGED <<polling, delivered, repeated>>
      BY DEF Crash, Event
  <1>2. ASSUME NEW m \in Peers, NEW k \in Range(Links) PROVE Dwindles(queue'[m][k], queue[m][k])
    <2>1. queue[m][k] \in Seq(Frames)
        BY RoutesTypes DEF Queues
    <2>2. queue'[m][k] = <<>> \/ queue'[m][k] = queue[m][k]
        BY CrashIs
    <2> QED
        BY <2>1, <2>2, DwindlesIs
  <1>3. \A x, m \in Peers : (\E l \in Range(Links) : queue'[x][l] # <<>>) => table'[x][m] = table[x][m]
      BY CrashIs
  <1>4. Quiet
      BY <1>1, <1>2, <1>3, RoutesTypes, TransportNumbers DEF Quiet, Nobody
  <1> QED
      BY <1>4, QuietCopies

LEMMA BootCopies ==
    ASSUME RoutesInv, RoutesInv', CopiesInv, NEW n \in Peers, Boot(n)
    PROVE  CopiesInv'
  <1>1. polling = Nobody /\ UNCHANGED <<table, polling, queue, delivered, repeated, events>>
      BY DEF Boot
  <1>2. \A m \in Peers : \A k \in Range(Links) : Dwindles(queue'[m][k], queue[m][k])
      BY <1>1, RoutesTypes, DwindlesIs DEF Queues
  <1>3. Quiet
      BY <1>1, <1>2, RoutesTypes, TransportNumbers DEF Quiet, Nobody
  <1> QED
      BY <1>3, QuietCopies

-----------------------------------------------------------------------------
(* A node sends a frame of its own.                                        *)

\* The queue of link k at x has not changed, or has got f from n.
Carries(n, f, x, k) ==
    \/ queue'[x][k] = queue[x][k]
    \/ /\ k \in LinksOf(n) /\ x \in Attached[k] \ {n}
       /\ \E g \in Frames : /\ queue'[x][k] = Append(queue[x][k], g)
                            /\ g.src = f.src /\ g.dst = f.dst /\ g.seq = f.seq
                            /\ g.keepalive = f.keepalive /\ g.payload = f.payload

LEMMA OwnFramesAreCarried ==
    ASSUME RoutesInv, NEW n \in Peers, NEW f \in Frames, NEW out, SendsOwn(n, f, out)
    PROVE  \A x \in Peers : \A k \in Range(Links) : Carries(n, f, x, k)
  <1> SUFFICES ASSUME NEW x \in Peers, NEW k \in Range(Links), queue'[x][k] # queue[x][k]
               PROVE  Carries(n, f, x, k)
      BY DEF Carries
  <1>1. /\ out \in SUBSET Departures /\ queue' = Transmit(queue, out) /\ queue \in Queues
        /\ \A o \in out : o.by = n /\ o.on \in LinksOf(n) /\ o.frame = f
      BY RoutesTypes DEF SendsOwn
  <1>2. PICK o \in out : Offered(o, x, k) /\ queue'[x][k] = Append(queue[x][k], Signed(o))
      BY <1>1, TransmitIs
  <1>3. k \in LinksOf(n) /\ x \in Attached[k] \ {n}
      BY <1>1, <1>2 DEF Offered
  <1>4. /\ Signed(o) \in Frames /\ Signed(o).src = f.src /\ Signed(o).dst = f.dst /\ Signed(o).seq = f.seq
        /\ Signed(o).keepalive = f.keepalive /\ Signed(o).payload = f.payload
      BY <1>1, <1>2, SignedIs
  <1> QED
      BY <1>2, <1>3, <1>4 DEF Carries

\* A payload that is sent for the first time, or a keepalive.
SendsFresh(n, f) ==
    /\ \A x \in Peers : \A k \in Range(Links) : Carries(n, f, x, k)
    /\ polling = Nobody /\ delivered' = delivered /\ repeated' = repeated /\ events' >= events
    /\ f.keepalive <=> f.payload = 0
    /\ f.payload = 0 \/ (f.payload = events + 1 /\ events' = events + 1)
    /\ \A x, m \in Peers : table[x][m].known /\ ~Idle(x) =>
          /\ table'[x][m].known /\ table'[x][m].unicast = table[x][m].unicast
          /\ table'[x][m].broadcast = table[x][m].broadcast

LEMMA FreshKeeps ==
    ASSUME RoutesInv, RoutesInv', CopiesInv, NEW n \in Peers, NEW f \in Frames, SendsFresh(n, f)
    PROVE  CopiesInv'
  <1>1. events \in Nat /\ events' \in Nat /\ events' >= events /\ f.payload \in Nat
        /\ (f.payload = 0 \/ (f.payload = events + 1 /\ events' = events + 1))
    <2>1. events' \in Nat
        BY TransportNumbers DEF RoutesInv, TransportTypeOK
    <2> QED
        BY <2>1, RoutesTypes DEF SendsFresh, Frames
  <1>2. ASSUME NEW x \in Peers, NEW k \in Range(Links)
        PROVE  queue[x][k] \in Seq(Frames) /\ Range(queue[x][k]) \subseteq Frames \cap InFlight
    <2>1. queue[x][k] \in Seq(Frames)
        BY RoutesTypes DEF Queues
    <2> QED
        BY <2>1, RangeFacts, FlightIs
  <1>3. ASSUME NEW x \in Peers, NEW k \in Range(Links), NEW g \in Range(queue'[x][k])
        PROVE  /\ g \in Frames
               /\ \/ g \in Range(queue[x][k])
                  \/ /\ k \in LinksOf(n) /\ x \in Attached[k] \ {n}
                     /\ g.src = f.src /\ g.dst = f.dst /\ g.seq = f.seq
                     /\ g.keepalive = f.keepalive /\ g.payload = f.payload
    <2>1. CASE queue'[x][k] = queue[x][k]
        BY <1>2, <1>3, <2>1
    <2>2. CASE queue'[x][k] # queue[x][k]
      <3>1. k \in LinksOf(n) /\ x \in Attached[k] \ {n}
          BY <2>2 DEF SendsFresh, Carries
      <3>2. PICK h \in Frames : /\ queue'[x][k] = Append(queue[x][k], h)
                                /\ h.src = f.src /\ h.dst = f.dst /\ h.seq = f.seq
                                /\ h.keepalive = f.keepalive /\ h.payload = f.payload
          BY <2>2 DEF SendsFresh, Carries
      <3>3. g \in Range(queue[x][k]) \cup {h}
          BY <1>2, <1>3, <3>2, RangeFacts
      <3> QED
          BY <1>2, <3>1, <3>2, <3>3
    <2> QED
        BY <2>1, <2>2
  <1>4. ASSUME NEW g \in InFlight, NEW p \in Nat, p = g.payload PROVE p <= events /\ g \in Frames
      BY <1>2, <1>4, FlightIs DEF CopiesInv, PayloadsAreNumbered
  <1>5. ASSUME NEW g \in InFlight'
        PROVE  /\ g \in Frames
               /\ \/ g \in InFlight
                  \/ /\ g.src = f.src /\ g.dst = f.dst /\ g.seq = f.seq
                     /\ g.keepalive = f.keepalive /\ g.payload = f.payload
    <2>1. PICK x \in Peers, k \in Range(Links) : g \in Range(queue'[x][k])
        BY <1>5 DEF InFlight
    <2> QED
        BY <1>2, <1>3, <2>1
  <1>6. PayloadsAreNumbered'
    <2>1. ASSUME NEW g \in InFlight' PROVE g.payload <= events' /\ (g.keepalive <=> g.payload = 0)
      <3>1. g.payload \in Nat
          BY <1>5, <2>1 DEF Frames
      <3>2. CASE g \in InFlight
          BY <1>1, <3>1, <3>2 DEF CopiesInv, PayloadsAreNumbered
      <3>3. CASE g.keepalive = f.keepalive /\ g.payload = f.payload
          BY <1>1, <3>1, <3>3 DEF SendsFresh
      <3> QED
          BY <1>5, <2>1, <3>2, <3>3
    <2>2. ASSUME NEW g \in InFlight', NEW h \in InFlight' PROVE Alike(g, h)
      <3>1. CASE g \in InFlight /\ h \in InFlight
          BY <3>1 DEF CopiesInv, PayloadsAreNumbered
      <3>2. g.payload \in Nat /\ h.payload \in Nat
          BY <1>5, <2>2 DEF Frames
      <3>3. CASE g \in InFlight /\ h \notin InFlight
        <4>1. g.payload <= events /\ h.payload = f.payload
            BY <1>4, <1>5, <2>2, <3>2, <3>3
        <4> QED
            BY <1>1, <3>2, <4>1 DEF Alike
      <3>4. CASE g \notin InFlight /\ h \in InFlight
        <4>1. h.payload <= events /\ g.payload = f.payload
            BY <1>4, <1>5, <2>2, <3>2, <3>4
        <4> QED
            BY <1>1, <3>2, <4>1 DEF Alike
      <3>5. CASE g \notin InFlight /\ h \notin InFlight
          BY <1>5, <2>2, <3>5 DEF Alike
      <3> QED
          BY <3>1, <3>3, <3>4, <3>5
    <2>3. delivered' \subseteq Peers \X (1 .. events')
      <3>1. 1 .. events \subseteq 1 .. events'
          BY <1>1
      <3>2. delivered \subseteq Peers \X (1 .. events) /\ delivered' = delivered
          BY DEF CopiesInv, PayloadsAreNumbered, SendsFresh
      <3> QED
          BY <3>1, <3>2
    <2> QED
        BY <2>1, <2>2, <2>3 DEF PayloadsAreNumbered
  <1>7. ASSUME NEW x \in Peers, NEW k \in Range(Links) PROVE ~Has(queue[x][k], f.payload) \/ f.payload = 0
    <2> SUFFICES ASSUME Has(queue[x][k], f.payload) PROVE f.payload = 0
        OBVIOUS
    <2>1. f.payload \in 0 .. events
        BY WaitingIsNumbered
    <2> QED
        BY <1>1, <2>1
  <1>8. CopiesAreTogether'
    <2> SUFFICES ASSUME NEW x \in Peers, NEW k \in Range(Links) PROVE Together(queue'[x][k])
        BY DEF CopiesAreTogether
    <2>1. Together(queue[x][k])
        BY DEF CopiesInv, CopiesAreTogether
    <2>2. ASSUME NEW g \in Frames, queue'[x][k] = Append(queue[x][k], g), g.payload = f.payload
          PROVE  Together(queue'[x][k])
        BY <1>2, <1>7, <2>1, <2>2, AppendCopies
    <2> QED
        BY <2>1, <2>2 DEF SendsFresh, Carries
  <1>9. CopiesAreKnown'
    <2> SUFFICES ASSUME NEW x \in Peers, NEW k \in Range(Links), NEW g \in Range(queue'[x][k]),
                        <<x, g.payload>> \in delivered'
                 PROVE  /\ Leading(queue'[x][k], g.payload)
                        /\ table'[x][g.src].known /\ Duplicate(x, table'[x][g.src], g)
        BY DEF CopiesAreKnown
    <2>1. <<x, g.payload>> \in delivered /\ g.payload \in 1 .. events
        BY DEF SendsFresh, CopiesInv, PayloadsAreNumbered
    <2>2. g.payload # f.payload
        BY <1>1, <2>1
    <2>3. g \in Range(queue[x][k]) /\ g \in Frames
        BY <1>3, <2>2
    <2>4. /\ Leading(queue[x][k], g.payload)
          /\ table[x][g.src].known /\ Duplicate(x, table[x][g.src], g)
        BY <2>1, <2>3 DEF CopiesInv, CopiesAreKnown
    <2>5. ~Idle(x)
        BY <1>2, <2>3, HasIs DEF Idle
    <2>6. /\ table'[x][g.src].known /\ table'[x][g.src].unicast = table[x][g.src].unicast
          /\ table'[x][g.src].broadcast = table[x][g.src].broadcast
        BY <2>3, <2>4, <2>5 DEF SendsFresh, Frames
    <2>7. ASSUME NEW h \in Frames, queue'[x][k] = Append(queue[x][k], h), h.payload = f.payload
          PROVE  Leading(queue'[x][k], g.payload)
        BY <1>2, <2>2, <2>4, <2>7, AppendCopies
    <2>8. Leading(queue'[x][k], g.payload)
        BY <2>4, <2>7 DEF SendsFresh, Carries
    <2> QED
        BY <2>4, <2>6, <2>8 DEF Duplicate, Stream
  <1>10. ASSUME NEW x \in Peers, NEW k \in Range(Links), NEW p, Has(queue'[x][k], p)
         PROVE  \/ Has(queue[x][k], p)
                \/ p = f.payload /\ k \in LinksOf(n) /\ x \in Attached[k] \ {n}
    <2>1. queue'[x][k] \in Seq(Frames)
        BY DEF RoutesInv, TransportTypeOK
    <2>2. PICK g \in Range(queue'[x][k]) : g.payload = p
        BY <1>10, <2>1, HasIs
    <2> QED
        BY <1>2, <1>3, <2>2, HasIs
  <1>11. NothingIsAhead'
    <2> SUFFICES ASSUME NEW a \in Peers, NEW l \in LinksOf(a), NEW p \in 1 .. events', Has(queue'[a][l], p),
                        NEW k \in LinksOf(a) \ {l}, NEW x \in Beyond(a, k)
                 PROVE  NotAt(x, p)'
        BY DEF NothingIsAhead
    <2>1. l \in Range(Links) /\ k \in Range(Links) /\ x \in Peers /\ x # a /\ delivered' = delivered
        BY LinkFacts, BeyondClosed, NoLoop DEF SendsFresh
    <2>2. CASE p # f.payload
      <3>1. Has(queue[a][l], p)
          BY <1>10, <2>1, <2>2
      <3>2. p \in 1 .. events
          BY <2>1, <3>1, WaitingIsNumbered
      <3>3. ~Relaying(a, l, p)
          BY TransportNumbers DEF Relaying, SendsFresh, Nobody
      <3>4. NotAt(x, p)
          BY <3>1, <3>2, <3>3 DEF CopiesInv, NothingIsAhead
      <3> QED
          BY <1>10, <2>1, <2>2, <3>4 DEF NotAt
    <2>3. CASE p = f.payload
      <3>1. p \notin 0 .. events
          BY <1>1, <2>3
      <3>2. l \in LinksOf(n) /\ a \in Attached[l] \ {n}
          BY <1>10, <2>1, <2>3, <3>1, WaitingIsNumbered
      <3>3. <<x, p>> \notin delivered
          BY <1>1, <3>1 DEF CopiesInv, PayloadsAreNumbered
      <3>4. ASSUME NEW j \in Range(Links), Has(queue'[x][j], p) PROVE FALSE
        <4>1. j \in LinksOf(n) /\ x \in Attached[j] \ {n}
            BY <1>10, <2>1, <3>1, <3>4, WaitingIsNumbered
        <4>2. x \in Beyond(n, l)
            BY <3>2, BeyondFurther
        <4>3. x \in Beyond(n, j)
            BY <4>1, BeyondClosed
        <4>4. j = l
            BY <3>2, <4>1, <4>2, <4>3, BeyondApart
        <4>5. x \in Beyond(a, l)
            BY <2>1, <4>1, <4>4, BeyondClosed
        <4> QED
            BY <4>5, BeyondApart
      <3> QED
          BY <2>1, <3>3, <3>4 DEF NotAt
    <2> QED
        BY <2>2, <2>3
  <1>12. DeliveredOnce'
      BY DEF CopiesInv, DeliveredOnce, SendsFresh
  <1> QED
      BY <1>6, <1>8, <1>9, <1>11, <1>12 DEF CopiesInv

LEMMA SendUnicastCopies ==
    ASSUME RoutesInv, RoutesInv', CopiesInv, NEW n \in Peers, NEW d \in Peers, SendUnicast(n, d)
    PROVE  CopiesInv'
  <1>1. PICK f \in Frames : \E out : SendsOwn(n, f, out) /\ f.payload = events + 1 /\ ~f.keepalive
      BY SendUnicastIs
  <1>2. \A x \in Peers : \A k \in Range(Links) : Carries(n, f, x, k)
      BY <1>1, OwnFramesAreCarried
  <1>3. /\ polling = Nobody /\ events' = events + 1 /\ delivered' = delivered /\ repeated' = repeated
        /\ table' = [table EXCEPT ![n][d].txSeq = NextSeq(@)]
      BY DEF SendUnicast, Event
  <1>4. \A x, m \in Peers : /\ table'[x][m].known = table[x][m].known
                            /\ table'[x][m].unicast = table[x][m].unicast
                            /\ table'[x][m].broadcast = table[x][m].broadcast
    <2>1. PICK t \in PeerEntries : t = table[n][d]
        BY RoutesTypes
    <2>2. PICK e : e = [t EXCEPT !.txSeq = NextSeq(t.txSeq)]
        OBVIOUS
    <2>3. e.known = t.known /\ e.unicast = t.unicast /\ e.broadcast = t.broadcast
        BY <2>2 DEF PeerEntries
    <2>4. table' = [table EXCEPT ![n][d] = e]
        BY <1>3, <2>1, <2>2
    <2>5. table'[n][d] = e /\ \A x, m \in Peers : x # n \/ m # d => table'[x][m] = table[x][m]
        BY <2>4, RoutesTypes
    <2> QED
        BY <2>1, <2>3, <2>5
  <1>5. SendsFresh(n, f)
    <2>1. events \in Nat
        BY RoutesTypes
    <2>2. f.keepalive <=> f.payload = 0
        BY <1>1, <2>1
    <2>3. events' >= events
        BY <1>3, <2>1
    <2> QED
        BY <1>1, <1>2, <1>3, <1>4, <2>2, <2>3 DEF SendsFresh
  <1> QED
      BY <1>5, FreshKeeps

LEMMA SendBroadcastCopies ==
    ASSUME RoutesInv, RoutesInv', CopiesInv, NEW n \in Peers, SendBroadcast(n)
    PROVE  CopiesInv'
  <1>1. /\ polling = Nobody /\ events < MaxEvents /\ events' = events + 1
        /\ queue' = Transmit(queue, Everywhere(n, LinksOf(n), Frame(n, Broadcast, bcastSeq[n], FALSE, events + 1)))
        /\ UNCHANGED <<table, delivered, repeated>>
      BY DEF SendBroadcast, Event
  <1>2. events \in Nat /\ events + 1 \in 0 .. MaxEvents
      BY <1>1, RoutesTypes, TransportNumbers
  <1>3. PICK f \in Frames : \E out : SendsOwn(n, f, out) /\ f.payload = events + 1 /\ f.keepalive = FALSE
      BY <1>1, <1>2, SendEverywhereIs
  <1>4. \A x \in Peers : \A k \in Range(Links) : Carries(n, f, x, k)
      BY <1>3, OwnFramesAreCarried
  <1>5. SendsFresh(n, f)
    <2>1. f.keepalive <=> f.payload = 0
        BY <1>2, <1>3
    <2>2. events' >= events
        BY <1>1, <1>2
    <2> QED
        BY <1>1, <1>3, <1>4, <2>1, <2>2 DEF SendsFresh
  <1> QED
      BY <1>5, FreshKeeps

LEMMA KeepaliveCopies ==
    ASSUME RoutesInv, RoutesInv', CopiesInv, NEW n \in Peers, Keepalive(n)
    PROVE  CopiesInv'
  <1>1. /\ polling = Nobody /\ Idle(n) /\ OnTime /\ delivered' = delivered /\ repeated' = repeated
        /\ queue' = Transmit(queue, Everywhere(n, LinksOf(n), Frame(n, Broadcast, bcastSeq[n], TRUE, 0)))
        /\ table' = [table EXCEPT ![n] = Expired(@)]
      BY DEF Keepalive
  <1>2. PICK f \in Frames : \E out : SendsOwn(n, f, out) /\ f.payload = 0 /\ f.keepalive = TRUE
      BY <1>1, SendEverywhereIs, TransportNumbers
  <1>3. \A x \in Peers : \A k \in Range(Links) : Carries(n, f, x, k)
      BY <1>2, OwnFramesAreCarried
  <1>4. \A x \in Peers \ {n} : table'[x] = table[x]
      BY <1>1, ExpiredKeeps
  <1>5. events' >= events
      BY <1>1, OnTimeIs
  <1>6. SendsFresh(n, f)
      BY <1>1, <1>2, <1>3, <1>4, <1>5 DEF SendsFresh
  <1> QED
      BY <1>6, FreshKeeps

-----------------------------------------------------------------------------
(* A node takes a frame.                                                   *)

\* The queue of link k at x has not changed, or has got a welcome or the frame
\* f that n took from l.
Passes(n, l, f, x, k) ==
    \/ queue'[x][k] = queue[x][k]
    \/ /\ k \in LinksOf(n) /\ x \in Attached[k] \ {n}
       /\ \E g \in Frames :
             /\ queue'[x][k] = Append(queue[x][k], g)
             /\ \/ k = l /\ g.keepalive /\ g.payload = 0
                \/ /\ k # l /\ g.src = f.src /\ g.dst = f.dst /\ g.seq = f.seq
                   /\ g.keepalive = f.keepalive /\ g.payload = f.payload

LEMMA TakenIsPassed ==
    ASSUME RoutesInv, NEW n \in Peers, NEW i \in DOMAIN Links, NEW f \in Frames, NEW l \in LinksOf(n),
           NEW e \in PeerEntries, NEW out \in SUBSET Departures, Takes(n, i, f, l, e, out)
    PROVE  /\ queue'[n][l] = Tail(queue[n][l])
           /\ \A k \in Range(Links) \ {l} : queue'[n][k] = queue[n][k]
           /\ \A x \in Peers \ {n} : \A k \in Range(Links) : Passes(n, l, f, x, k)
  <1>1. /\ queue[n][l] # <<>> /\ Answers(n, l, f, out) /\ l \in Range(Links)
        /\ queue' = Transmit([queue EXCEPT ![n][l] = Tail(@)], out)
      BY LinkFacts DEF Takes
  <1>2. PICK q : q = [queue EXCEPT ![n][l] = Tail(@)]
      OBVIOUS
  <1>3. /\ q \in Queues /\ q[n][l] = Tail(queue[n][l])
        /\ \A m \in Peers : \A k \in Range(Links) : m # n \/ k # l => q[m][k] = queue[m][k]
    <2>1. queue[n][l] \in Seq(Frames)
        BY <1>1, RoutesTypes DEF Queues
    <2>2. PICK t \in Seq(Frames) : t = Tail(queue[n][l])
        BY <1>1, <2>1, RangeFacts
    <2>3. q = [queue EXCEPT ![n][l] = t]
        BY <1>2, <2>2
    <2> QED
        BY <1>1, <2>2, <2>3, RoutesTypes DEF Queues
  <1>4. queue' = Transmit(q, out)
      BY <1>1, <1>2
  <1>5. ASSUME NEW x \in Peers, NEW k \in Range(Links)
        PROVE  \/ queue'[x][k] = q[x][k]
               \/ \E o \in out : Offered(o, x, k) /\ queue'[x][k] = Append(q[x][k], Signed(o))
      BY <1>3, <1>4, TransmitIs
  <1>6. ASSUME NEW k \in Range(Links) PROVE queue'[n][k] = q[n][k]
    <2>1. \A o \in out : ~Offered(o, n, k)
        BY <1>1 DEF Offered, Answers
    <2> QED
        BY <1>5, <2>1
  <1>7. ASSUME NEW x \in Peers \ {n}, NEW k \in Range(Links) PROVE Passes(n, l, f, x, k)
    <2>1. q[x][k] = queue[x][k]
        BY <1>3
    <2>2. ASSUME NEW o \in out, Offered(o, x, k), queue'[x][k] = Append(queue[x][k], Signed(o))
          PROVE  Passes(n, l, f, x, k)
      <3>1. o \in Departures /\ o.by = n /\ o.on = k /\ k \in LinksOf(n) /\ x \in Attached[k] \ {n}
          BY <1>1, <2>2 DEF Offered, Answers
      <3>2. /\ Signed(o) \in Frames /\ Signed(o).src = o.frame.src
            /\ Signed(o).dst = o.frame.dst /\ Signed(o).seq = o.frame.seq
            /\ Signed(o).keepalive = o.frame.keepalive /\ Signed(o).payload = o.frame.payload
          BY <3>1, SignedIs
      <3>3. \/ k = l /\ o.frame.keepalive /\ o.frame.payload = 0
            \/ /\ k # l /\ o.frame.src = f.src /\ o.frame.dst = f.dst /\ o.frame.seq = f.seq
               /\ o.frame.keepalive = f.keepalive /\ o.frame.payload = f.payload
          BY <1>1, <3>1 DEF Answers
      <3>4. PICK g \in Frames : g = Signed(o)
          BY <3>2
      <3> QED
          BY <2>2, <3>1, <3>2, <3>3, <3>4 DEF Passes
    <2> QED
        BY <1>5, <2>1, <2>2 DEF Passes
  <1> QED
      BY <1>1, <1>3, <1>6, <1>7

\* What the queues hold then.
LEMMA PassedIs ==
    ASSUME RoutesInv, NEW n \in Peers, NEW l \in LinksOf(n), NEW f \in Frames, NEW x \in Peers \ {n},
           NEW k \in Range(Links), Passes(n, l, f, x, k)
    PROVE  /\ \A p : p # 0 /\ Has(queue'[x][k], p) =>
                 \/ Has(queue[x][k], p)
                 \/ p = f.payload /\ k \in LinksOf(n) \ {l} /\ x \in Attached[k] \ {n}
           /\ \A g \in Range(queue'[x][k]) :
                 \/ g \in Range(queue[x][k])
                 \/ g \in Frames /\ g.keepalive /\ g.payload = 0
                 \/ /\ g \in Frames /\ k \in LinksOf(n) \ {l} /\ x \in Attached[k] \ {n}
                    /\ g.src = f.src /\ g.dst = f.dst /\ g.seq = f.seq
                    /\ g.keepalive = f.keepalive /\ g.payload = f.payload
           /\ \A p : Leading(queue[x][k], p) /\ p # 0 /\ p # f.payload => Leading(queue'[x][k], p)
  <1>1. queue[x][k] \in Seq(Frames)
      BY RoutesTypes DEF Queues
  <1>2. CASE queue'[x][k] = queue[x][k]
      BY <1>2
  <1>3. CASE queue'[x][k] # queue[x][k]
    <2>1. PICK g \in Frames :
              /\ queue'[x][k] = Append(queue[x][k], g) /\ k \in LinksOf(n) /\ x \in Attached[k] \ {n}
              /\ \/ k = l /\ g.keepalive /\ g.payload = 0
                 \/ /\ k # l /\ g.src = f.src /\ g.dst = f.dst /\ g.seq = f.seq
                    /\ g.keepalive = f.keepalive /\ g.payload = f.payload
        BY <1>3 DEF Passes
    <2>2. \A p : Has(queue'[x][k], p) <=> Has(queue[x][k], p) \/ g.payload = p
        BY <1>1, <2>1, AppendCopies
    <2>3. \A p : Leading(queue[x][k], p) /\ g.payload # p => Leading(queue'[x][k], p)
        BY <1>1, <2>1, AppendCopies
    <2>4. Range(queue'[x][k]) = Range(queue[x][k]) \cup {g}
        BY <1>1, <2>1, RangeFacts
    <2>5. CASE k = l /\ g.keepalive /\ g.payload = 0
        BY <2>1, <2>2, <2>3, <2>4, <2>5
    <2>6. CASE /\ k # l /\ g.src = f.src /\ g.dst = f.dst /\ g.seq = f.seq
               /\ g.keepalive = f.keepalive /\ g.payload = f.payload
        BY <2>1, <2>2, <2>3, <2>4, <2>6
    <2> QED
        BY <2>1, <2>5, <2>6
  <1> QED
      BY <1>2, <1>3

LEMMA OnlyOneFirst ==
    ASSUME NEW n \in Peers, NEW i \in DOMAIN Links, NEW j \in DOMAIN Links, FirstWaiting(n, i), FirstWaiting(n, j)
    PROVE  i = j
  <1>1. i \in Nat /\ j \in Nat /\ i > 0 /\ j > 0
      BY TransportAssumption
  <1>2. ~(i < j) /\ ~(j < i)
      BY <1>1 DEF FirstWaiting
  <1> QED
      BY <1>1, <1>2

LEMMA OnFrameCopies ==
    ASSUME RoutesInv, RoutesInv', CopiesInv, NEW n \in Peers, NEW i \in DOMAIN Links, OnFrame(n, i)
    PROVE  CopiesInv'
  <1>0. PICK f \in Frames, l \in LinksOf(n), e \in PeerEntries, out \in SUBSET Departures :
            Takes(n, i, f, l, e, out)
      BY OnFrameIs, Zenon
  <1>1. /\ l = Links[i] /\ f = Head(queue[n][l]) /\ queue[n][l] # <<>> /\ ComesFrom(n, l, f)
        /\ f.src \in Peers /\ f.src # n /\ table' = [table EXCEPT ![n][f.src] = e] /\ e.known
        /\ (~f.keepalive /\ Stream(n, f) # "none" => e[Stream(n, f)] = f.seq)
        /\ ~Duplicate(n, Heard(table[n][f.src]), f) /\ l \in Range(Links)
      BY <1>0, LinkFacts DEF Takes
  <1>2. /\ queue'[n][l] = Tail(queue[n][l]) /\ \A k \in Range(Links) \ {l} : queue'[n][k] = queue[n][k]
        /\ \A x \in Peers \ {n} : \A k \in Range(Links) : Passes(n, l, f, x, k)
      BY <1>0, TakenIsPassed
  <1>3. PICK p0 \in 0 .. events : p0 = f.payload
    <2>1. Has(queue[n][l], f.payload)
        BY <1>1, TailCopies, RoutesTypes DEF Queues
    <2> QED
        BY <1>1, <2>1, WaitingIsNumbered
  <1>4. /\ FirstWaiting(n, i) /\ polling \in {n, Nobody} /\ polling' = n /\ events' = events
        /\ delivered' = delivered \cup (IF Delivers(n, f) THEN {<<n, f.payload>>} ELSE {})
        /\ repeated' = (repeated \/ (IF Delivers(n, f) THEN {<<n, f.payload>>} ELSE {}) \cap delivered # {})
      BY <1>1 DEF OnFrame
  <1>5. ASSUME NEW x \in Peers, NEW k \in Range(Links)
        PROVE  /\ queue[x][k] \in Seq(Frames) /\ Range(queue[x][k]) \subseteq Frames \cap InFlight
               /\ queue'[x][k] \in Seq(Frames)
    <2>1. queue[x][k] \in Seq(Frames) /\ queue'[x][k] \in Seq(Frames)
        BY DEF RoutesInv, TransportTypeOK
    <2> QED
        BY <2>1, RangeFacts, FlightIs
  <1>6. f \in InFlight /\ f \in Range(queue[n][l]) /\ (f.keepalive <=> f.payload = 0)
    <2>1. f \in Range(queue[n][l])
        BY <1>1, <1>5, RangeFacts
    <2> QED
        BY <1>1, <1>5, <2>1 DEF CopiesInv, PayloadsAreNumbered
  <1>7. <<n, f.payload>> \notin delivered
    <2> SUFFICES ASSUME <<n, f.payload>> \in delivered PROVE FALSE
        OBVIOUS
    <2>1. table[n][f.src].known /\ Duplicate(n, table[n][f.src], f)
        BY <1>1, <1>6 DEF CopiesInv, CopiesAreKnown
    <2>2. /\ Heard(table[n][f.src]).unicast = table[n][f.src].unicast
          /\ Heard(table[n][f.src]).broadcast = table[n][f.src].broadcast
      <3>1. table[n][f.src] \in PeerEntries
          BY <1>1, RoutesTypes
      <3> QED
          BY <2>1, <3>1, HeardIs
    <2> QED
        BY <1>1, <2>1, <2>2 DEF Duplicate, Stream
  <1>8. DeliveredOnce'
      BY <1>4, <1>7 DEF CopiesInv, DeliveredOnce
  <1>9. \A x \in Peers : \A p : <<x, p>> \in delivered' <=>
            <<x, p>> \in delivered \/ (x = n /\ p = f.payload /\ Delivers(n, f))
      BY <1>4
  \* Frames of f's payload wait in no other queue of n.
  <1>10. ASSUME NEW k \in LinksOf(n), NEW g \in Range(queue[n][k]), g.src = f.src PROVE k = l
    <2>1. ComesFrom(n, k, g)
        BY <1>10, LinkFacts DEF RoutesInv, FramesComeFrom
    <2> QED
        BY <1>1, <1>10, <2>1, BeyondApart DEF ComesFrom
  <1>11. ASSUME NEW k \in Range(Links), NEW g \in Range(queue[n][k]) PROVE k \in LinksOf(n)
      BY <1>11 DEF RoutesInv, FramesComeFrom, ComesFrom, LinksOf
  <1>12. ASSUME NEW x \in Peers, NEW k \in Range(Links), NEW p, p # 0, Has(queue'[x][k], p)
         PROVE  \/ Has(queue[x][k], p)
                \/ p = f.payload /\ k \in LinksOf(n) \ {l} /\ x \in Attached[k] \ {n}
    <2>1. CASE x = n
        BY <1>1, <1>2, <1>5, <1>12, <2>1, TailCopies
    <2>2. CASE x # n
        BY <1>2, <1>12, <2>2, PassedIs
    <2> QED
        BY <2>1, <2>2
  <1>13. f.payload # 0 => /\ Leading(queue[n][l], f.payload) /\ Leading(queue'[n][l], f.payload)
                          /\ \A k \in LinksOf(n) \ {l} : \A x \in Beyond(n, k) :
                                NotAt(x, f.payload) \/ (x \in Attached[k] /\ JustAt(x, k, f.payload))
    <2> SUFFICES ASSUME f.payload # 0
                 PROVE  /\ Leading(queue[n][l], f.payload) /\ Leading(queue'[n][l], f.payload)
                        /\ \A k \in LinksOf(n) \ {l} : \A x \in Beyond(n, k) :
                              NotAt(x, f.payload) \/ (x \in Attached[k] /\ JustAt(x, k, f.payload))
        OBVIOUS
    <2>1. Together(queue[n][l])
        BY <1>1 DEF CopiesInv, CopiesAreTogether
    <2>2. /\ Leading(queue[n][l], f.payload) /\ Leading(queue'[n][l], f.payload)
          /\ Has(queue[n][l], f.payload)
        BY <1>1, <1>2, <1>5, <2>1, TailCopies
    <2>3. f.payload \in 1 .. events
        BY <1>3, RoutesTypes
    <2> QED
        BY <2>2, <2>3 DEF CopiesInv, NothingIsAhead
  <1>14. PayloadsAreNumbered'
    <2>1. ASSUME NEW g \in InFlight'
          PROVE  /\ g \in Frames
                 /\ \/ g \in InFlight
                    \/ g.keepalive /\ g.payload = 0
                    \/ /\ g.src = f.src /\ g.dst = f.dst /\ g.seq = f.seq
                       /\ g.keepalive = f.keepalive /\ g.payload = f.payload
      <3>1. PICK x \in Peers, k \in Range(Links) : g \in Range(queue'[x][k])
          BY <2>1 DEF InFlight
      <3>2. CASE x = n
        <4>1. g \in Range(queue[n][k])
            BY <1>1, <1>2, <1>5, <3>1, <3>2, RangeFacts
        <4> QED
            BY <1>5, <4>1
      <3>3. CASE x # n
          BY <1>2, <1>5, <3>1, <3>3, PassedIs
      <3> QED
          BY <3>2, <3>3
    <2>2. \A g \in InFlight : g.payload <= events /\ (g.keepalive <=> g.payload = 0)
        BY DEF CopiesInv, PayloadsAreNumbered
    <2>3. ASSUME NEW g \in InFlight' PROVE g.payload <= events' /\ (g.keepalive <=> g.payload = 0)
      <3>1. events \in Nat /\ f.payload <= events
          BY <1>6, <2>2, RoutesTypes
      <3> QED
          BY <1>4, <1>6, <2>1, <2>2, <2>3, <3>1
    <2>4. ASSUME NEW g \in InFlight', NEW h \in InFlight', g.payload # 0, g.payload = h.payload PROVE Alike(g, h)
      <3>1. \A u, v \in InFlight : Alike(u, v)
          BY DEF CopiesInv, PayloadsAreNumbered
      <3>2. CASE g \in InFlight /\ h \in InFlight
          BY <3>1, <3>2
      <3>3. CASE g \in InFlight /\ h \notin InFlight
          BY <1>6, <2>1, <2>4, <3>1, <3>3 DEF Alike
      <3>4. CASE g \notin InFlight /\ h \in InFlight
          BY <1>6, <2>1, <2>4, <3>1, <3>4 DEF Alike
      <3>5. CASE g \notin InFlight /\ h \notin InFlight
          BY <2>1, <2>4, <3>5 DEF Alike
      <3> QED
          BY <3>2, <3>3, <3>4, <3>5
    <2>5. \A g, h \in InFlight' : Alike(g, h)
        BY <2>4 DEF Alike
    <2>6. delivered' \subseteq Peers \X (1 .. events')
      <3>1. delivered \subseteq Peers \X (1 .. events)
          BY DEF CopiesInv, PayloadsAreNumbered
      <3>2. Delivers(n, f) => f.payload \in 1 .. events
          BY <1>3, <1>6, RoutesTypes DEF Delivers
      <3> QED
          BY <1>4, <3>1, <3>2
    <2> QED
        BY <2>3, <2>5, <2>6 DEF PayloadsAreNumbered
  <1>15. CopiesAreTogether'
    <2> SUFFICES ASSUME NEW x \in Peers, NEW k \in Range(Links) PROVE Together(queue'[x][k])
        BY DEF CopiesAreTogether
    <2>1. Together(queue[x][k])
        BY DEF CopiesInv, CopiesAreTogether
    <2>2. CASE x = n
        BY <1>1, <1>2, <1>5, <2>1, <2>2, TailCopies
    <2>3. CASE x # n
      <3>1. ASSUME NEW g \in Frames, queue'[x][k] = Append(queue[x][k], g), g.payload = 0
            PROVE  Together(queue'[x][k])
          BY <1>5, <2>1, <3>1, AppendCopies
      <3>2. ASSUME NEW g \in Frames, queue'[x][k] = Append(queue[x][k], g), g.payload = f.payload, f.payload # 0,
                   k \in LinksOf(n), k # l, x \in Attached[k]
            PROVE  Together(queue'[x][k])
        <4>1. x \in Beyond(n, k)
            BY <2>3, <3>2, BeyondClosed
        <4>2. NotAt(x, f.payload) \/ JustAt(x, k, f.payload)
            BY <1>13, <3>2, <4>1
        <4>3. ~Has(queue[x][k], f.payload) \/ (queue[x][k] # <<>> /\ Last(queue[x][k]).payload = f.payload)
            BY <4>2 DEF NotAt, JustAt
        <4> QED
            BY <1>5, <2>1, <3>2, <4>3, AppendCopies
      <3>3. Passes(n, l, f, x, k)
          BY <1>2, <2>3
      <3> QED
          BY <2>1, <3>1, <3>2, <3>3 DEF Passes
    <2> QED
        BY <2>2, <2>3
  <1>16. table'[n][f.src] = e /\ \A x, m \in Peers : x # n \/ m # f.src => table'[x][m] = table[x][m]
      BY <1>1, RoutesTypes
  <1>17. CopiesAreKnown'
    <2> SUFFICES ASSUME NEW x \in Peers, NEW k \in Range(Links), NEW g \in Range(queue'[x][k]),
                        <<x, g.payload>> \in delivered'
                 PROVE  /\ Leading(queue'[x][k], g.payload)
                        /\ table'[x][g.src].known /\ Duplicate(x, table'[x][g.src], g)
        BY DEF CopiesAreKnown
    <2>1. g.payload # 0
        BY <1>4, <1>14 DEF PayloadsAreNumbered
    <2>2. CASE x # n
      <3>1. <<x, g.payload>> \in delivered
          BY <1>9, <2>2
      <3>2. ~(g.payload = f.payload /\ k \in LinksOf(n) \ {l} /\ x \in Attached[k] \ {n})
        <4> SUFFICES ASSUME g.payload = f.payload, k \in LinksOf(n) \ {l}, x \in Attached[k] \ {n} PROVE FALSE
            OBVIOUS
        <4>1. x \in Beyond(n, k)
            BY BeyondClosed
        <4>2. NotAt(x, f.payload) \/ JustAt(x, k, f.payload)
            BY <1>13, <2>1, <4>1
        <4> QED
            BY <3>1, <4>2 DEF NotAt, JustAt
      <3>3. g \in Range(queue[x][k]) /\ g \in Frames
          BY <1>2, <1>5, <2>1, <2>2, <3>2, PassedIs
      <3>4. /\ Leading(queue[x][k], g.payload)
            /\ table[x][g.src].known /\ Duplicate(x, table[x][g.src], g)
          BY <3>1, <3>3 DEF CopiesInv, CopiesAreKnown
      <3>5. table'[x][g.src] = table[x][g.src]
          BY <1>16, <2>2, <3>3 DEF Frames
      <3>6. Leading(queue'[x][k], g.payload)
        <4>1. CASE queue'[x][k] = queue[x][k]
            BY <3>4, <4>1
        <4>2. ASSUME NEW h \in Frames, queue'[x][k] = Append(queue[x][k], h), h.payload # g.payload
              PROVE  Leading(queue'[x][k], g.payload)
            BY <1>5, <3>4, <4>2, AppendCopies
        <4>3. Passes(n, l, f, x, k)
            BY <1>2, <2>2
        <4> QED
            BY <2>1, <3>2, <4>1, <4>2, <4>3 DEF Passes
      <3> QED
          BY <3>4, <3>5, <3>6
    <2>3. CASE x = n
      <3>1. g \in Range(queue[n][k]) /\ g \in Frames /\ k \in LinksOf(n)
        <4>1. g \in Range(queue[n][k])
            BY <1>1, <1>2, <1>5, <2>3, RangeFacts
        <4> QED
            BY <1>5, <1>11, <4>1
      <3>2. CASE <<n, g.payload>> \in delivered
        <4>1. /\ Leading(queue[n][k], g.payload)
              /\ table[n][g.src].known /\ Duplicate(n, table[n][g.src], g)
            BY <3>1, <3>2 DEF CopiesInv, CopiesAreKnown
        <4>2. k # l
          <5> SUFFICES ASSUME k = l PROVE FALSE
              OBVIOUS
          <5>1. Has(queue[n][l], g.payload)
              BY <1>5, <3>1, HasIs
          <5>2. f.payload = g.payload
              BY <1>1, <1>5, <4>1, <5>1, TailCopies
          <5> QED
              BY <1>7, <3>2, <5>2
        <4>3. g.src # f.src
            BY <1>10, <3>1, <4>2
        <4>4. table'[n][g.src] = table[n][g.src] /\ queue'[n][k] = queue[n][k]
            BY <1>2, <1>16, <3>1, <4>2, <4>3 DEF Frames
        <4> QED
            BY <2>3, <4>1, <4>4
      <3>3. CASE <<n, g.payload>> \notin delivered
        <4>1. g.payload = f.payload /\ Delivers(n, f)
            BY <1>9, <2>3, <3>3
        <4>2. g.src = f.src /\ g.dst = f.dst /\ g.seq = f.seq
          <5>1. Alike(g, f)
              BY <1>5, <1>6, <3>1 DEF CopiesInv, PayloadsAreNumbered
          <5> QED
              BY <2>1, <4>1, <5>1 DEF Alike
        <4>3. k = l
            BY <1>10, <3>1, <4>2
        <4>4. Stream(n, f) # "none" /\ Stream(n, g) = Stream(n, f) /\ ~f.keepalive
            BY <4>1, <4>2 DEF Stream, Delivers
        <4>5. Duplicate(n, e, g)
            BY <1>1, <4>2, <4>4 DEF Duplicate
        <4>6. Leading(queue'[n][k], g.payload)
            BY <1>13, <2>1, <4>1, <4>3
        <4> QED
            BY <1>1, <1>16, <2>3, <4>2, <4>5, <4>6
      <3> QED
          BY <3>2, <3>3
    <2> QED
        BY <2>2, <2>3
  <1>18. NothingIsAhead'
    <2> SUFFICES ASSUME NEW a \in Peers, NEW j \in LinksOf(a), NEW p \in 1 .. events', Has(queue'[a][j], p),
                        NEW k \in LinksOf(a) \ {j}, NEW x \in Beyond(a, k)
                 PROVE  NotAt(x, p)' \/ (Relaying(a, j, p)' /\ x \in Attached[k] /\ JustAt(x, k, p)')
        BY DEF NothingIsAhead
    <2>1. j \in Range(Links) /\ k \in Range(Links) /\ x \in Peers /\ x # a /\ p \in 1 .. events /\ p # 0
        BY <1>4, LinkFacts, BeyondClosed, NoLoop, RoutesTypes
    <2>2. CASE p # f.payload
      <3>1. Has(queue[a][j], p)
          BY <1>12, <2>1, <2>2
      <3>2. ~Relaying(a, j, p)
        <4> SUFFICES ASSUME Relaying(a, j, p) PROVE FALSE
            OBVIOUS
        <4>1. a = n /\ Leading(queue[n][j], p)
            BY <1>4, TransportNumbers DEF Relaying, Nobody
        <4>2. PICK h \in DOMAIN Links : Links[h] = j /\ FirstWaiting(n, h)
            BY <4>1 DEF Relaying
        <4>3. j = l
            BY <1>1, <1>4, <4>2, OnlyOneFirst
        <4>4. f.payload = p
            BY <1>1, <1>5, <3>1, <4>1, <4>3, TailCopies
        <4> QED
            BY <2>2, <4>4
      <3>3. NotAt(x, p)
          BY <2>1, <3>1, <3>2 DEF CopiesInv, NothingIsAhead
      <3>4. NotAt(x, p)'
          BY <1>9, <1>12, <2>1, <2>2, <3>3 DEF NotAt
      <3> QED
          BY <3>4
    <2>3. CASE p = f.payload /\ a = n
      <3>1. j = l
        <4>1. Has(queue[n][j], p)
            BY <1>12, <2>1, <2>3
        <4>2. PICK g \in Range(queue[n][j]) : g.payload = p
            BY <1>5, <2>1, <4>1, HasIs
        <4>3. Alike(g, f)
            BY <1>5, <1>6, <2>1, <4>2 DEF CopiesInv, PayloadsAreNumbered
        <4>4. g.src = f.src
            BY <2>1, <2>3, <4>2, <4>3 DEF Alike
        <4> QED
            BY <1>10, <2>3, <4>2, <4>4
      <3>2. NotAt(x, p) \/ (x \in Attached[k] /\ JustAt(x, k, p))
          BY <1>13, <2>1, <2>3, <3>1
      <3>3. Relaying(n, l, p)'
        <4>1. queue'[n][l] # <<>>
          <5>1. queue'[n][l] \in Seq(Frames) /\ Has(queue'[n][l], p)
              BY <1>1, <1>5, <2>3, <3>1
          <5> QED
              BY <5>1 DEF Has
        <4>2. ASSUME NEW h \in 1 .. i - 1 PROVE queue'[n][Links[h]] = <<>>
          <5>1. h \in DOMAIN Links /\ queue[n][Links[h]] = <<>>
              BY <1>4, TransportAssumption DEF FirstWaiting
          <5>2. Links[h] \in Range(Links) /\ Links[h] # l
              BY <1>1, <5>1, LinkFacts
          <5> QED
              BY <1>2, <5>1, <5>2
        <4>3. FirstWaiting(n, i)'
            BY <1>1, <4>1, <4>2 DEF FirstWaiting
        <4> QED
            BY <1>1, <1>4, <1>13, <2>1, <2>3, <4>3 DEF Relaying
      <3>4. \A y \in Range(Links) : ~Has(queue[x][y], p) \/ y = k
          BY <3>2 DEF NotAt, JustAt
      <3>5. <<x, p>> \notin delivered'
          BY <1>9, <2>1, <2>3, <3>2 DEF NotAt, JustAt
      <3>6. ASSUME NEW y \in Range(Links), y # k PROVE ~Has(queue'[x][y], p)
        <4> SUFFICES ASSUME Has(queue'[x][y], p) PROVE FALSE
            OBVIOUS
        <4>1. y \in LinksOf(n) /\ x \in Attached[y] \ {n}
            BY <1>12, <2>1, <3>4, <3>6
        <4>2. x \in Beyond(n, y)
            BY <4>1, BeyondClosed
        <4> QED
            BY <2>3, <3>6, <4>1, <4>2, BeyondApart
      <3>7. CASE Has(queue'[x][k], p)
        <4>1. JustAt(x, k, p)' /\ x \in Attached[k]
          <5>1. CASE queue'[x][k] = queue[x][k]
              BY <2>1, <3>2, <3>5, <3>6, <3>7, <5>1 DEF JustAt, NotAt
          <5>2. ASSUME NEW g \in Frames, queue'[x][k] = Append(queue[x][k], g), x \in Attached[k],
                       k # l, g.payload = f.payload
                PROVE  JustAt(x, k, p)' /\ x \in Attached[k]
            <6>0. Append(queue[x][k], g) # <<>> /\ Last(Append(queue[x][k], g)) = g
                BY <1>5, <2>1, AppendCopies
            <6>1. queue'[x][k] # <<>> /\ Last(queue'[x][k]).payload = p
                BY <2>3, <5>2, <6>0
            <6> QED
                BY <3>5, <3>6, <5>2, <6>1 DEF JustAt
          <5>3. Passes(n, l, f, x, k)
              BY <1>2, <2>1, <2>3
          <5> QED
              BY <3>1, <5>1, <5>2, <5>3 DEF Passes
        <4> QED
            BY <2>3, <3>1, <3>3, <4>1
      <3>8. CASE ~Has(queue'[x][k], p)
        <4>1. NotAt(x, p)'
            BY <3>5, <3>6, <3>8 DEF NotAt
        <4> QED
            BY <4>1
      <3> QED
          BY <3>7, <3>8
    <2>4. CASE p = f.payload /\ a # n /\ Has(queue[a][j], p)
      <3>1. \A y \in LinksOf(a) \ {j} : \A z \in Beyond(a, y) : NotAt(z, p)
        <4>1. ~Relaying(a, j, p)
            BY <1>4, <2>4, TransportNumbers DEF Relaying, Nobody
        <4> QED
            BY <2>1, <2>4, <4>1 DEF CopiesInv, NothingIsAhead
      <3>2. Has(queue[n][l], p)
          BY <1>1, <1>5, <1>6, <2>4, HasIs
      <3>3. n \notin Beyond(a, k)
          BY <1>1, <3>1, <3>2 DEF NotAt
      <3>4. <<x, p>> \notin delivered'
        <4>1. x # n /\ NotAt(x, p)
            BY <3>1, <3>3
        <4> QED
            BY <1>9, <2>1, <4>1 DEF NotAt
      <3>5. ASSUME NEW y \in Range(Links), Has(queue'[x][y], p) PROVE FALSE
        <4>1. ~Has(queue[x][y], p)
            BY <3>1 DEF NotAt
        <4>2. y \in LinksOf(n) /\ x \in Attached[y] \ {n}
            BY <1>12, <2>1, <3>5, <4>1
        <4>3. n \in Attached[y] \ {a}
            BY <2>4, <4>2, LinkFacts
        <4> QED
            BY <3>3, <4>2, <4>3, BeyondShares
      <3>6. NotAt(x, p)'
          BY <3>4, <3>5 DEF NotAt
      <3> QED
          BY <3>6
    <2>5. CASE p = f.payload /\ a # n /\ ~Has(queue[a][j], p)
      <3>1. j \in LinksOf(n) \ {l} /\ a \in Attached[j] \ {n}
          BY <1>12, <2>1, <2>5
      <3>2. x \in Beyond(n, j)
          BY <3>1, BeyondFurther
      <3>3. x \notin Attached[j]
        <4> SUFFICES ASSUME x \in Attached[j] PROVE FALSE
            OBVIOUS
        <4>1. x \in Beyond(a, j)
            BY <2>1, BeyondClosed
        <4> QED
            BY <4>1, BeyondApart
      <3>4. NotAt(x, p)
          BY <1>13, <2>1, <2>5, <3>1, <3>2, <3>3
      <3>5. x # n
          BY <3>1, <3>2, NoLoop
      <3>6. <<x, p>> \notin delivered'
          BY <1>9, <2>1, <3>4, <3>5 DEF NotAt
      <3>7. ASSUME NEW y \in Range(Links), Has(queue'[x][y], p) PROVE FALSE
        <4>1. y \in LinksOf(n) /\ x \in Attached[y] \ {n}
            BY <1>12, <2>1, <3>4, <3>7 DEF NotAt
        <4>2. x \in Beyond(n, y)
            BY <4>1, BeyondClosed
        <4>3. y # j
            BY <3>3, <4>1
        <4> QED
            BY <3>1, <3>2, <4>1, <4>2, <4>3, BeyondApart
      <3>8. NotAt(x, p)'
          BY <3>6, <3>7 DEF NotAt
      <3> QED
          BY <3>8
    <2> QED
        BY <2>2, <2>3, <2>4, <2>5
  <1> QED
      BY <1>8, <1>14, <1>15, <1>17, <1>18 DEF CopiesInv

LEMMA CopiesInit == Init => CopiesInv
  <1> SUFFICES ASSUME Init PROVE CopiesInv
      OBVIOUS
  <1>1. /\ \A n \in Peers : \A l \in Range(Links) : queue[n][l] = <<>>
        /\ delivered = {} /\ repeated = FALSE /\ events = 0
      BY DEF Init
  <1>2. Range(<<>>) = {} /\ Together(<<>>) /\ \A p : ~Has(<<>>, p)
      BY DEF Range, Together, Has
  <1>3. InFlight = {}
      BY <1>1, <1>2, FlightIs
  <1>4. PayloadsAreNumbered
      BY <1>1, <1>3 DEF PayloadsAreNumbered
  <1>5. CopiesAreTogether /\ CopiesAreKnown
      BY <1>1, <1>2 DEF CopiesAreTogether, CopiesAreKnown
  <1>6. NothingIsAhead
      BY <1>1 DEF NothingIsAhead
  <1> QED
      BY <1>1, <1>4, <1>5, <1>6 DEF CopiesInv, DeliveredOnce

LEMMA CopiesStep == RoutesInv /\ RoutesInv' /\ CopiesInv /\ [Next]_vars => CopiesInv'
  <1> SUFFICES ASSUME RoutesInv, RoutesInv', CopiesInv, [Next]_vars PROVE CopiesInv'
      OBVIOUS
  <1>1. CASE Period
      BY <1>1, PeriodCopies
  <1>2. ASSUME NEW n \in Peers, Poll(n) PROVE CopiesInv'
      BY <1>2, DropFrameCopies, OnFrameCopies, EndPollCopies, KeepaliveCopies DEF Poll
  <1>3. ASSUME NEW n \in Peers, SendBroadcast(n) \/ Boot(n) \/ Crash(n) PROVE CopiesInv'
      BY <1>3, SendBroadcastCopies, BootCopies, CrashCopies
  <1>4. ASSUME NEW n \in Peers, NEW d \in Peers, SendUnicast(n, d) PROVE CopiesInv'
      BY <1>4, SendUnicastCopies
  <1>5. ASSUME NEW n \in Peers, NEW l \in Range(Links), Lose(n, l) \/ Double(n, l) PROVE CopiesInv'
      BY <1>5, MishapCopies
  <1>6. CASE UNCHANGED vars
    <2>1. UNCHANGED <<table, polling, queue, delivered, repeated, events>>
        BY <1>6 DEF vars
    <2>2. \A m \in Peers : \A k \in Range(Links) : Dwindles(queue'[m][k], queue[m][k])
        BY <2>1, RoutesTypes, DwindlesIs DEF Queues
    <2>3. Quiet
        BY <2>1, <2>2, RoutesTypes DEF Quiet
    <2> QED
        BY <2>3, QuietCopies
  <1> QED
      BY <1>1, <1>2, <1>3, <1>4, <1>5, <1>6 DEF Next

\* The inductive invariant of relaying, on links that form no loop: copies of a
\* payload stay next to each other in a queue, a copy of what was handed over is
\* recognised by its number (track()), and nothing of a payload that waits at a
\* node is further on (relay()).
THEOREM TransportInvariant == Spec => []TransportInv
  <1>1. Init => TransportInv
      BY RoutesInit, CopiesInit DEF TransportInv
  <1>2. TransportInv /\ [Next]_vars => TransportInv'
      BY RoutesStep, CopiesStep DEF TransportInv
  <1> QED
      BY <1>1, <1>2, PTL DEF Spec

\* A payload is handed to the application of a node at most once, whatever is
\* relayed, lost, doubled or restarted (track(), onBootId()).
THEOREM TransportDeliversOnce == Spec => []DeliveredOnce
  <1>1. TransportInv => DeliveredOnce
      BY DEF TransportInv, CopiesInv
  <1> QED
      BY <1>1, TransportInvariant, PTL
=============================================================================
