------------------------------ MODULE Services ------------------------------
(***************************************************************************)
(* The services a ground node and another node run over the messenger, one *)
(* at a time: they share no state but the presence of the node.            *)
(***************************************************************************)
EXTENDS TelemetryService, LogService, TuningService, StatusService, ReportService

CONSTANTS Running,           \* the services looked at
          Spent              \* how much of each bound is not for a service
ASSUME SpentAssumption == \A s \in Running : {Spent[s].calls, Spent[s].faults} \subseteq Nat

VARIABLE service             \* the one this behaviour is about

vars == <<wireVars, tlVars, lgVars, tnVars, stVars, rpVars, service>>

Init ==
    /\ service \in Running
    /\ wire = {} /\ presence = "up"
    /\ calls = Spent[service].calls /\ faults = Spent[service].faults
    /\ total \in Totals /\ gaveUp = FALSE /\ cutOff = FALSE
    /\ TlInit /\ LgInit /\ TnInit /\ StInit /\ RpInit

Next ==
    /\ \/ service = "telemetry" /\ TlNext /\ UNCHANGED <<lgVars, tnVars, stVars, rpVars>>
       \/ service = "log" /\ LgNext /\ UNCHANGED <<tlVars, tnVars, stVars, rpVars>>
       \/ service = "lines" /\ LgWrite /\ UNCHANGED <<tlVars, tnVars, stVars, rpVars>>
       \/ service = "tuning" /\ TnNext /\ UNCHANGED <<tlVars, lgVars, stVars, rpVars>>
       \/ service = "status" /\ StNext /\ UNCHANGED <<tlVars, lgVars, tnVars, rpVars>>
       \/ service = "report" /\ RpNext /\ UNCHANGED <<tlVars, lgVars, tnVars, stVars>>
    /\ UNCHANGED service

Spec == Init /\ [][Next]_vars

-----------------------------------------------------------------------------
(* A table the consumer calls complete is the node's whole table, as far as *)
(* the consumer has room, in its order, whatever pages were lost, repeated  *)
(* or left over from an earlier walk or an earlier presence of the node.    *)
TablesAreWhole ==
    presence = "up" =>
        InOrder(tlEntry.table) /\ InOrder(lgEntry.modules) /\ InOrder(tnEntry.table)

(* A walk or a subscribe that the consumer still waits on is under way: its *)
(* request or its answer is in flight, unless the node gave up on an answer;*)
(* a request the hub gave up on is never waited on any longer.              *)
NothingIsForgotten ==
    presence = "up" =>
        /\ PageComes(tlEntry.table, "list", "descriptors")
        /\ PageComes(lgEntry.modules, "list", "modules")
        /\ PageComes(tnEntry.table, "list", "infos")
        /\ \A entry \in {tlEntry, lgEntry, stEntry, rpEntry} :
              SubscriptionComes(entry.request, "subscribe", "subscription")

(* A log or status stream the consumer believes it holds is sent to it,     *)
(* even when the provider had no room for it at first, unless the node      *)
(* itself lost sight of the hub since.                                      *)
SubscribedIsServed ==
    presence = "up" /\ ~cutOff =>
        /\ lgEntry.subscribed => Hub \in lgNode.subscribers
        /\ stEntry.subscribed => Hub \in stNode.subscribers

(* The rate limit of the lines lets no more than MaxLines through in a      *)
(* window, and every line it dropped is told of, once.                      *)
EveryLineCounted ==
    /\ lgNode.window <= MaxLines
    /\ lgNode.dropped = lgNode.reported + lgNode.windowDropped

-----------------------------------------------------------------------------
(* provider.hpp says of a configuration that it is stamped so that "the     *)
(* first sample goes out on the very next frame".                           *)
FirstSampleIsPrompt ==
    [][(tlNode.fresh /\ tlNode.subscribers # {} /\ tlNode'.frame > tlNode.frame)
          => tlNode'.lastSample = tlNode'.frame]_vars

(* consumer.hpp says of a write that it moves the value in the table, "so   *)
(* what the consumer holds is what flies": once nothing is in flight any    *)
(* more, and no other ground node wrote, a whole table has the values of    *)
(* the node.                                                                *)
HoldsWhatFlies ==
    /\ presence = "up" /\ faults = Spent[service].faults /\ wire = {}
    /\ tnEntry.table.complete /\ ~tnNode.theirs
    => \A i \in 1 .. Len(tnEntry.table.items) :
          LET item == tnEntry.table.items[i] IN item.value = tnNode.value[item.id]

(* consumer.hpp says that "a report that lost a page is abandoned and the   *)
(* next one starts over": the peers of a report were read for one report.   *)
ReportIsOne ==
    rpEntry.hasReport =>
        Cardinality({rpEntry.peers[i].report : i \in 1 .. Len(rpEntry.peers)}) <= 1

-----------------------------------------------------------------------------
(* The inductive invariant (Services_proof).                               *)

\* Requests go to the node, answers and the messages of a stream to the hub.
Asked == {"list", "configure", "subscribe", "setLevel", "set", "get"}
Streamed == {"status", "report"}

MessageIsSound(m) ==
    /\ IF m.kind \in Asked THEN m.to = "node" /\ m.id \in 1 .. calls
       ELSE m.to = "hub" /\ (IsStream(m) <=> m.kind \in Streamed) /\ m.id <= 0
    /\ m.kind = "list" => m.arg.cursor \in Nat

WireIsSound == \A m \in wire : MessageIsSound(m)

TlItems == [id : Nat]
LgItems == [id : Nat, level : Levels \cup {DefaultLevel}]
TnItems == [id : Nat, value : Values \cup {Default}]
Pulls(items) == [items : Seq(items), cursor : Nat, total : Nat, request : Nat,
                 complete : BOOLEAN, abandoned : BOOLEAN]

PageIsWhole(page, items) ==
    /\ page.total = total /\ page.cursor \in Nat /\ page.items \in Seq(items)
    /\ page.cursor <= total =>
           /\ Len(page.items) = Least(PageSize, total - page.cursor)
           /\ \A i \in 1 .. Len(page.items) : page.items[i].id = page.cursor + i - 1

\* The walk has read the table up to its cursor.
Walked(pull) ==
    /\ pull.cursor <= total /\ Len(pull.items) = Least(MaxItems, pull.cursor)
    /\ \A i \in 1 .. Len(pull.items) : pull.items[i].id = i - 1
    /\ pull.complete => Len(pull.items) = Least(MaxItems, total)

\* A page is of the build that runs; the request of the walk asks for the page
\* the walk wants, and that page comes.
WalkInv(pull, answer, items) ==
    /\ pull \in Pulls(items) /\ pull.request <= calls
    /\ \A m \in wire : m.kind = answer => PageIsWhole(m.arg, items)
    /\ presence = "up" =>
           /\ Walked(pull) /\ PageComes(pull, "list", answer)
           /\ \A m \in wire : m.kind = "list" /\ m.id = pull.request => m.arg.cursor = pull.cursor

SubscriptionInv(request) ==
    /\ request \in 0 .. calls
    /\ presence = "up" => SubscriptionComes(request, "subscribe", "subscription")

\* An entry is there from the identity of the node to its loss.
EntryInv(entry, none) ==
    /\ DOMAIN entry = DOMAIN none
    /\ ~entry.open => entry = none
    /\ entry.open => presence # "down"

\* The hub is answered that it is subscribed only while it is: it never asks to
\* leave, and is dropped by a reboot or with its presence, answers and all.
ServedInv(entry, node) ==
    /\ \A m \in wire : /\ m.kind = "subscribe" => m.arg.enabled = TRUE
                       /\ m.kind = "subscription" /\ m.arg.enabled => Hub \in node.subscribers
    /\ presence = "up" /\ ~cutOff /\ entry.subscribed => Hub \in node.subscribers

TlInv ==
    /\ EntryInv(tlEntry, NoTlEntry)
    /\ WalkInv(tlEntry.table, "descriptors", TlItems) /\ SubscriptionInv(tlEntry.request)
    /\ tlEntry.request # 0 => tlEntry.request # tlEntry.table.request

LgInv ==
    /\ EntryInv(lgEntry, NoLgEntry)
    /\ WalkInv(lgEntry.modules, "modules", LgItems) /\ SubscriptionInv(lgEntry.request)
    /\ lgEntry.request # 0 => lgEntry.request # lgEntry.modules.request
    /\ lgNode.level \in [0 .. total - 1 -> Levels \cup {DefaultLevel}]
    /\ \A m \in wire : /\ m.kind = "setLevel" => m.arg.id \in Nat
                       /\ m.kind = "moduleInfo" => m.arg \in LgItems
    /\ ServedInv(lgEntry, lgNode)

TnInv ==
    /\ EntryInv(tnEntry, NoTnEntry)
    /\ WalkInv(tnEntry.table, "infos", TnItems)
    /\ DOMAIN tnNode = DOMAIN NewTnNode(total)
    /\ tnNode.value \in [0 .. total - 1 -> Values \cup {Default}]
    /\ \A m \in wire : /\ m.kind \in {"set", "get"} => m.arg.id \in Nat
                       /\ m.kind = "ack" => /\ m.arg.id \in Nat
                                            /\ m.arg.value \in Values \cup {Default}

StInv ==
    /\ EntryInv(stEntry, NoStEntry) /\ SubscriptionInv(stEntry.request)
    /\ DOMAIN stNode = DOMAIN NewStNode
    /\ \A m \in wire : m.kind \in {"subscribe", "subscription", "status"}
    /\ ServedInv(stEntry, stNode)

RpInv ==
    /\ EntryInv(rpEntry, NoRpEntry(rpEntry.wanted)) /\ SubscriptionInv(rpEntry.request)
    /\ \A m \in wire : m.kind \in {"subscribe", "subscription", "report"}

LinesInv ==
    /\ DOMAIN lgNode = DOMAIN NewLgNode(0)
    /\ {lgNode.window, lgNode.windowDropped, lgNode.dropped, lgNode.reported} \subseteq Nat
    /\ EveryLineCounted

ServicesInv ==
    /\ calls \in Nat /\ total \in Totals /\ presence \in {"up", "down", "stale"}
    /\ WireIsSound /\ LinesInv
    /\ IF service = "telemetry" THEN TlInv ELSE tlEntry = NoTlEntry
    /\ IF service = "log" THEN LgInv ELSE lgEntry = NoLgEntry
    /\ IF service = "tuning" THEN TnInv ELSE tnEntry = NoTnEntry
    /\ IF service = "status" THEN StInv ELSE stEntry = NoStEntry
    /\ IF service = "report" THEN RpInv ELSE rpEntry = NoRpEntry(FALSE)
=============================================================================
