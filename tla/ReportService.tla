--------------------------- MODULE ReportService ---------------------------
(***************************************************************************)
(* The transport reports: the consumer of a ground node                    *)
(* (transport/consumer.hpp), which holds every node's reports while they   *)
(* are wanted, and the provider of a node (transport/provider.hpp), which  *)
(* sends a report as pages of its peer table.  A peer is described by its  *)
(* place in the table and the report it was read for.                      *)
(***************************************************************************)
EXTENDS ServiceWire, TLC

CONSTANT MaxReports          \* bound on the reports of a boot

VARIABLES rpEntry, rpNode
rpVars == <<rpEntry, rpNode>>

\* wanted is the consumer's, for every node.
NoRpEntry(wanted) ==
    [open |-> FALSE, subscribed |-> FALSE, request |-> 0, hasReport |-> FALSE,
     peers |-> <<>>, staging |-> <<>>, stagingValid |-> FALSE, wanted |-> wanted]
NewRpNode == [subscribers |-> {}, reports |-> 0]

RpInit == rpEntry = NoRpEntry(FALSE) /\ rpNode = NewRpNode

-----------------------------------------------------------------------------
(* The consumer *)
Closed == NoRpEntry(rpEntry.wanted)

RpOpened(ok) ==
    [Closed EXCEPT !.open = TRUE, !.request = IF rpEntry.wanted THEN Id(1, ok) ELSE 0]

RpOnIdentity == \E ok \in BOOLEAN :
    /\ presence = "up" /\ ~rpEntry.open
    /\ IF rpEntry.wanted THEN Asks(ok, "subscribe", [enabled |-> TRUE]) ELSE ok /\ Sends({})
    /\ rpEntry' = RpOpened(ok)
    /\ UNCHANGED rpNode

SetWanted == \E wanted, ok \in BOOLEAN :
    LET dropped == [rpEntry EXCEPT !.wanted = FALSE, !.hasReport = FALSE, !.peers = <<>>,
                                   !.staging = <<>>, !.stagingValid = FALSE]
        asks == rpEntry.open /\ (wanted \/ rpEntry.subscribed)
        moved == IF wanted \/ ~rpEntry.open THEN [rpEntry EXCEPT !.wanted = wanted] ELSE dropped
    IN /\ rpEntry.wanted # wanted
       /\ IF asks THEN /\ Asks(ok, "subscribe", [enabled |-> wanted])
                       /\ rpEntry' = [moved EXCEPT !.request = Id(1, ok)]
                  ELSE ok /\ Sends({}) /\ rpEntry' = moved
       /\ UNCHANGED rpNode

(* accept() of one page. *)
Continues(page) ==
    page.cursor = 0 \/ (rpEntry.stagingValid /\ page.cursor = Len(rpEntry.staging))
Accept(page) ==
    LET kept == IF page.cursor = 0 THEN <<>> ELSE rpEntry.staging
        joined == kept \o page.items
        staging == SubSeq(joined, 1, Least(MaxItems, Len(joined)))
        whole == page.cursor + Len(page.items) >= page.total
    IN IF ~Continues(page) THEN [rpEntry EXCEPT !.stagingValid = FALSE]
       ELSE IF whole THEN [rpEntry EXCEPT !.staging = staging, !.stagingValid = FALSE,
                                          !.peers = staging, !.hasReport = TRUE]
       ELSE [rpEntry EXCEPT !.staging = staging, !.stagingValid = TRUE]

(* The pages of a node arrive in the order it sent them, when they do. *)
Overtakes(m) == \E e \in wire \ {m} :
    /\ e.kind = "report"
    /\ \/ e.arg.report < m.arg.report
       \/ (e.arg.report = m.arg.report /\ e.arg.cursor < m.arg.cursor)

RpOnMessage == \E m \in wire, again \in BOOLEAN :
    /\ m.kind = "report" => ~Overtakes(m)
    /\ Hears(m, again, FALSE, TRUE, m.kind, 0)
    /\ rpEntry' = IF ~rpEntry.open THEN rpEntry
                  ELSE IF m.kind = "subscription"
                       THEN [rpEntry EXCEPT !.subscribed = m.arg.enabled, !.request = 0]
                       ELSE Accept(m.arg)
    /\ UNCHANGED rpNode

RpOnNodeDown == NodeDown /\ rpEntry' = Closed /\ UNCHANGED rpNode

RpOnRequestFailed == \E m \in wire :
    /\ RequestLost(m)
    /\ rpEntry' = IF rpEntry.open /\ rpEntry.request = m.id
                  THEN [rpEntry EXCEPT !.request = 0] ELSE rpEntry
    /\ UNCHANGED rpNode

-----------------------------------------------------------------------------
(* The provider *)
RpSubscribed(src, enabled) == [rpNode EXCEPT !.subscribers = Subscribe(@, src, enabled)]

RpServe == \E m \in wire, again \in BOOLEAN :
    LET subscribed == RpSubscribed(Hub, m.arg.enabled)
    IN /\ Serves(m, again, SubscriptionAnswer(m.arg.enabled, subscribed.subscribers))
       /\ rpNode' = subscribed /\ UNCHANGED rpEntry

RpOther == \E enabled \in BOOLEAN :
    Sends({}) /\ rpNode' = RpSubscribed(Other, enabled) /\ UNCHANGED rpEntry

(* fillPage() of the report number r, and tick() when a report is due: all  *)
(* its pages leave at once.                                                 *)
FillPage(r, cursor) ==
    [report |-> r] @@ Page(cursor, [i \in 0 .. total - 1 |-> [id |-> i, report |-> r]])

RpTick ==
    LET r == rpNode.reports + 1
        cursors == {c \in 0 .. total : c % PageSize = 0 /\ (c < total \/ c = 0)}
    IN /\ rpNode.subscribers # {} /\ r <= MaxReports
       /\ Sends(UNION {Stream(rpNode.subscribers, "report", FillPage(r, c)) : c \in cursors})
       /\ rpNode' = [rpNode EXCEPT !.reports = r]
       /\ UNCHANGED rpEntry

RpHubDown == HubDown /\ rpNode' = [rpNode EXCEPT !.subscribers = @ \ {Hub}] /\ UNCHANGED rpEntry
RpReboot == Reboot /\ rpNode' = NewRpNode /\ UNCHANGED rpEntry

RpNext ==
    \/ RpOnIdentity \/ SetWanted \/ RpOnMessage \/ RpOnNodeDown \/ RpOnRequestFailed
    \/ RpServe \/ RpOther \/ RpTick \/ RpHubDown \/ RpReboot
    \/ (NodeUp /\ UNCHANGED rpVars)
    \/ (\E m \in wire : AnswerLost(m) /\ UNCHANGED rpVars)
=============================================================================
