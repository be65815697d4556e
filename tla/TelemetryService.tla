-------------------------- MODULE TelemetryService --------------------------
(***************************************************************************)
(* The telemetry service: the consumer a ground node keeps                 *)
(* (telemetry/consumer.hpp) and the provider of a drone                    *)
(* (telemetry/provider.hpp).  The node's configuration (which measures, how*)
(* often) is one for all its subscribers; samples are paced by the flight  *)
(* frames, whose timestamps are the numbers 0 .. MaxFrames.                *)
(***************************************************************************)
EXTENDS ServiceWire

CONSTANTS MaxFrames,         \* bound on the flight frames
          Configs,           \* configurations a ground node asks for
          MinPeriod, MaxPeriod, MaxEnabled

VARIABLES tlEntry, tlNode
tlVars == <<tlEntry, tlNode>>

NoTlEntry == [open |-> FALSE, table |-> NoPull, config |-> {}, period |-> 0,
              hasConfig |-> FALSE, subscribed |-> FALSE, request |-> 0]

\* fresh is history: no frame has been sampled since the configuration.
NewTlNode == [subscribers |-> {}, enabled |-> {}, period |-> 0, streaming |-> FALSE,
              frame |-> 0, lastConfig |-> 0, lastSample |-> 0, fresh |-> FALSE]

TlInit == tlEntry = NoTlEntry /\ tlNode = NewTlNode

-----------------------------------------------------------------------------
(* The consumer *)
TlOpened(ok) == [NoTlEntry EXCEPT !.open = TRUE, !.table = AskPage(NoPull, 1, ok)]

TlOnIdentity == \E ok \in BOOLEAN :
    /\ presence = "up" /\ ~tlEntry.open
    /\ Asks(ok, "list", [cursor |-> 0])
    /\ tlEntry' = TlOpened(ok)
    /\ UNCHANGED tlNode

TlRefresh == \E ok \in BOOLEAN :
    /\ tlEntry.open
    /\ Asks(ok, "list", [cursor |-> 0])
    /\ tlEntry' = [tlEntry EXCEPT !.table = AskPage(NoPull, 1, ok)]
    /\ UNCHANGED tlNode

TlConfigure == \E config \in Configs, ok \in BOOLEAN :
    /\ presence # "down"
    /\ Asks(ok, "configure", config)
    /\ UNCHANGED tlVars

TlSubscribe == \E enabled, ok \in BOOLEAN :
    /\ tlEntry.open
    /\ Asks(ok, "subscribe", [enabled |-> enabled])
    /\ tlEntry' = [tlEntry EXCEPT !.request = Id(1, ok)]
    /\ UNCHANGED tlNode

TlOnPage == \E m \in wire, again, ok \in BOOLEAN :
    LET table == ApplyPage(tlEntry.table, m.arg)
        asks == tlEntry.open /\ Wanted(tlEntry.table, m.arg) /\ ~table.complete
    IN /\ m.kind = "descriptors"
       /\ Hears(m, again, asks, ok, "list", [cursor |-> table.cursor])
       /\ tlEntry' = IF tlEntry.open
                     THEN [tlEntry EXCEPT !.table = IF asks THEN AskPage(table, 1, ok) ELSE table]
                     ELSE tlEntry
       /\ UNCHANGED tlNode

TlOnMessage == \E m \in wire, again \in BOOLEAN :
    /\ m.kind \in {"config", "subscription"}
    /\ Hears(m, again, FALSE, TRUE, m.kind, 0)
    /\ tlEntry' = IF ~tlEntry.open THEN tlEntry
                  ELSE IF m.kind = "config"
                       THEN [tlEntry EXCEPT !.config = m.arg.ids, !.period = m.arg.period,
                                            !.hasConfig = TRUE]
                       ELSE [tlEntry EXCEPT !.subscribed = m.arg.enabled, !.request = 0]
    /\ UNCHANGED tlNode

TlOnNodeDown == NodeDown /\ tlEntry' = NoTlEntry /\ UNCHANGED tlNode

TlFailed(id) ==
    IF ~tlEntry.open THEN tlEntry
    ELSE IF tlEntry.table.request = id THEN [tlEntry EXCEPT !.table = Abandon(tlEntry.table)]
    ELSE IF tlEntry.request = id THEN [tlEntry EXCEPT !.request = 0] ELSE tlEntry

TlOnRequestFailed == \E m \in wire :
    RequestLost(m) /\ tlEntry' = TlFailed(m.id) /\ UNCHANGED tlNode

-----------------------------------------------------------------------------
(* The provider *)
ClampPeriod(period) ==
    IF period < MinPeriod THEN MinPeriod ELSE IF period > MaxPeriod THEN MaxPeriod ELSE period

(* The ids the table has, at most MaxEnabled of them: the ones named first;  *)
(* the set is kept ascending whatever order the request named them in.       *)
Enabled(ids) ==
    LET known == {i \in DOMAIN ids : ids[i] < total}
    IN {ids[i] : i \in {j \in known : Cardinality({ids[k] : k \in {l \in known : l < j}})
                                          < MaxEnabled}}

Configured(config) ==
    LET enabled == Enabled(config.ids)
    IN IF config.period = 0 \/ enabled = {}
       THEN [tlNode EXCEPT !.streaming = FALSE, !.enabled = {}, !.period = 0, !.fresh = FALSE]
       ELSE [tlNode EXCEPT !.enabled = enabled, !.period = ClampPeriod(config.period),
                           !.lastConfig = tlNode.frame, !.streaming = TRUE, !.fresh = TRUE]

TellConfig(node, requester) ==
    UNION {Answer(dst, "config", [ids |-> node.enabled, period |-> node.period])
              : dst \in node.subscribers \cup {requester}}

TlSubscribed(src, enabled) ==
    [tlNode EXCEPT !.subscribers = Subscribe(@, src, enabled)]

Descriptors == [i \in 0 .. total - 1 |-> [id |-> i]]

TlServe == \E m \in wire, again \in BOOLEAN :
    LET configured == Configured(m.arg)
        subscribed == TlSubscribed(Hub, m.arg.enabled)
    IN \/ /\ m.kind = "list"
          /\ Serves(m, again, Answer(Hub, "descriptors", Page(m.arg.cursor, Descriptors)))
          /\ UNCHANGED tlVars
       \/ /\ m.kind = "configure"
          /\ Serves(m, again, TellConfig(configured, Hub))
          /\ tlNode' = configured /\ UNCHANGED tlEntry
       \/ /\ m.kind = "subscribe"
          /\ Serves(m, again, SubscriptionAnswer(m.arg.enabled, subscribed.subscribers))
          /\ tlNode' = subscribed /\ UNCHANGED tlEntry

(* The same requests from another ground node. *)
TlOther ==
    \/ \E config \in Configs :
          LET configured == Configured(config)
          IN Sends(TellConfig(configured, Other)) /\ tlNode' = configured /\ UNCHANGED tlEntry
    \/ \E enabled \in BOOLEAN :
          /\ Sends({})
          /\ tlNode' = TlSubscribed(Other, enabled) /\ UNCHANGED tlEntry

(* sample(), once per flight frame; the samples change nothing at the hub.   *)
Due(now) ==
    ~(/\ tlNode.lastSample >= tlNode.lastConfig
      /\ now - tlNode.lastSample < tlNode.period)

TlSample ==
    LET now == tlNode.frame + 1
        emits == tlNode.streaming /\ tlNode.subscribers # {} /\ Due(now)
    IN /\ now <= MaxFrames
       /\ Sends({})
       /\ tlNode' = [tlNode EXCEPT !.frame = now, !.fresh = FALSE,
                                   !.lastSample = IF emits THEN now ELSE @]
       /\ UNCHANGED tlEntry

TlHubDown == HubDown /\ tlNode' = [tlNode EXCEPT !.subscribers = @ \ {Hub}] /\ UNCHANGED tlEntry
TlReboot == Reboot /\ tlNode' = NewTlNode /\ UNCHANGED tlEntry

TlNext ==
    \/ TlOnIdentity \/ TlRefresh \/ TlConfigure \/ TlSubscribe \/ TlOnPage \/ TlOnMessage
    \/ TlOnNodeDown \/ TlOnRequestFailed
    \/ TlServe \/ TlOther \/ TlSample \/ TlHubDown \/ TlReboot
    \/ (NodeUp /\ UNCHANGED tlVars)
    \/ (\E m \in wire : AnswerLost(m) /\ UNCHANGED tlVars)
=============================================================================
