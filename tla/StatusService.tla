--------------------------- MODULE StatusService ---------------------------
(***************************************************************************)
(* The status service: the consumer of a ground node (status/consumer.hpp) *)
(* and the provider of a drone (status/status_provider.hpp), which reports *)
(* every StatusPeriod-th flight frame to its subscribers.                  *)
(***************************************************************************)
EXTENDS ServiceWire

CONSTANT StatusPeriod        \* STATUS_PERIOD_FRAMES

VARIABLES stEntry, stNode
stVars == <<stEntry, stNode>>

NoStEntry == [open |-> FALSE, subscribed |-> FALSE, request |-> 0, hasStatus |-> FALSE]

\* The frame count matters modulo the period.
NewStNode == [subscribers |-> {}, frames |-> 0]

StInit == stEntry = NoStEntry /\ stNode = NewStNode

StOpened(ok) == [NoStEntry EXCEPT !.open = TRUE, !.request = Id(1, ok)]

StOnIdentity == \E ok \in BOOLEAN :
    /\ presence = "up" /\ ~stEntry.open
    /\ Asks(ok, "subscribe", [enabled |-> TRUE])
    /\ stEntry' = StOpened(ok)
    /\ UNCHANGED stNode

StOnMessage == \E m \in wire, again \in BOOLEAN :
    /\ Hears(m, again, FALSE, TRUE, m.kind, 0)
    /\ stEntry' = IF ~stEntry.open THEN stEntry
                  ELSE IF m.kind = "subscription"
                       THEN [stEntry EXCEPT !.subscribed = m.arg.enabled, !.request = 0]
                       ELSE [stEntry EXCEPT !.hasStatus = TRUE]
    /\ UNCHANGED stNode

StOnNodeDown == NodeDown /\ stEntry' = NoStEntry /\ UNCHANGED stNode

StOnRequestFailed == \E m \in wire :
    /\ RequestLost(m)
    /\ stEntry' = IF stEntry.open /\ stEntry.request = m.id
                  THEN [stEntry EXCEPT !.request = 0] ELSE stEntry
    /\ UNCHANGED stNode

-----------------------------------------------------------------------------
StSubscribed(src, enabled) == [stNode EXCEPT !.subscribers = Subscribe(@, src, enabled)]

StServe == \E m \in wire, again \in BOOLEAN :
    LET subscribed == StSubscribed(Hub, m.arg.enabled)
    IN /\ Serves(m, again, SubscriptionAnswer(m.arg.enabled, subscribed.subscribers))
       /\ stNode' = subscribed /\ UNCHANGED stEntry

StOther == \E enabled \in BOOLEAN :
    Sends({}) /\ stNode' = StSubscribed(Other, enabled) /\ UNCHANGED stEntry

StPublish ==
    LET frames == (stNode.frames + 1) % StatusPeriod
    IN /\ Sends(IF frames = 0 THEN Stream(stNode.subscribers, "status", [frame |-> 0]) ELSE {})
       /\ stNode' = [stNode EXCEPT !.frames = frames]
       /\ UNCHANGED stEntry

StHubDown == HubDown /\ stNode' = [stNode EXCEPT !.subscribers = @ \ {Hub}] /\ UNCHANGED stEntry
StReboot == Reboot /\ stNode' = NewStNode /\ UNCHANGED stEntry

StNext ==
    \/ StOnIdentity \/ StOnMessage \/ StOnNodeDown \/ StOnRequestFailed
    \/ StServe \/ StOther \/ StPublish \/ StHubDown \/ StReboot
    \/ (NodeUp /\ UNCHANGED stVars)
    \/ (\E m \in wire : AnswerLost(m) /\ UNCHANGED stVars)
=============================================================================
