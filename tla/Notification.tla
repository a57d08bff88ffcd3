------------------------------ MODULE Notification ------------------------------
(***************************************************************************)
(* Notifications: the dispatcher publishes on a Redis channel named after   *)
(* the addressee, the subscriber of every process hears it and the SSE      *)
(* manager writes it to the browser tabs it has under that routing id. One  *)
(* process; who notifies whom of what is left to the handlers.              *)
(***************************************************************************)
EXTENDS Naturals, FiniteSets

CONSTANTS
    Members,     \* staff of one institution
    Tabs,        \* browser tabs; each is opened at most once
    MaxMessages  \* bound: notifications dispatched

ASSUME NotificationAssumption == MaxMessages \in Nat

VARIABLES
    tab,       \* whose each tab is, and whether its stream is open
    clients,   \* the SSE manager: the tabs under each routing id
    published, \* channel of each notification on its way in Redis
    shown      \* the notifications each tab has been written

sseVars == <<tab, clients, published, shown>>

Messages == 1 .. MaxMessages

Institution == "institution"

(* notify:member:<id>, notify:entity:<id>; without the prefix, member:<id>   *)
NotificationChannel(role, id) == [prefixed |-> TRUE, role |-> role, id |-> id]
ExtractRoutingId(channel) == [channel EXCEPT !.prefixed = FALSE]

Channels ==
    {NotificationChannel("member", m) : m \in Members} \cup {NotificationChannel("entity", Institution)}
RoutingIds == Channels \cup {ExtractRoutingId(c) : c \in Channels}

NoTab == [of |-> Institution, stream |-> "closed"]
NoMessage == [to |-> NotificationChannel("entity", Institution), at |-> "none"]

SseInit ==
    /\ tab = [b \in Tabs |-> NoTab]
    /\ clients = [i \in RoutingIds |-> {}]
    /\ published = [m \in Messages |-> NoMessage]
    /\ shown = [b \in Tabs |-> {}]

SseTypeOK ==
    /\ tab \in [Tabs -> [of : Members \cup {Institution}, stream : {"closed", "open", "closing"}]]
    /\ clients \in [RoutingIds -> SUBSET Tabs]
    /\ published \in [Messages -> [to : Channels, at : {"none", "redis", "heard", "lost"}]]
    /\ shown \in [Tabs -> SUBSET Messages]

-----------------------------------------------------------------------------
OwnChannel(b) == NotificationChannel("member", tab[b].of)
EntityChannel == NotificationChannel("entity", Institution)

(* stream: the tab is added under the member's channel and the institution's *)
OpenStream(b, m) ==
    /\ tab[b] = NoTab
    /\ tab' = [tab EXCEPT ![b] = [of |-> m, stream |-> "open"]]
    /\ clients' = [i \in RoutingIds |->
                     IF i \in {NotificationChannel("member", m), EntityChannel}
                     THEN clients[i] \cup {b} ELSE clients[i]]
    /\ UNCHANGED <<published, shown>>

(* The browser leaves; the "close" handlers run later.                      *)
LeaveTab(b) ==
    /\ tab[b].stream = "open" /\ tab' = [tab EXCEPT ![b].stream = "closing"]
    /\ UNCHANGED <<clients, published, shown>>

(* Fault: only the handler of the member's own channel is set.              *)
OnCloseOwnOnly(b) ==
    /\ tab[b].stream = "closing" /\ tab' = [tab EXCEPT ![b].stream = "closed"]
    /\ clients' = [clients EXCEPT ![OwnChannel(b)] = @ \ {b}]
    /\ UNCHANGED <<published, shown>>

(* Each addClient has set a handler of its own on the response.             *)
OnClose(b) ==
    /\ tab[b].stream = "closing" /\ tab' = [tab EXCEPT ![b].stream = "closed"]
    /\ clients' = [i \in RoutingIds |->
                     IF i \in {OwnChannel(b), EntityChannel} THEN clients[i] \ {b} ELSE clients[i]]
    /\ UNCHANGED <<published, shown>>

(* notifyMember, notifyEntity. Publishing may fail, which is only logged.   *)
Notify(n, channel) ==
    /\ published[n] = NoMessage /\ \A m \in 1 .. n - 1 : published[m] # NoMessage
    /\ \E at \in {"redis", "lost"} : published' = [published EXCEPT ![n] = [to |-> channel, at |-> at]]
    /\ UNCHANGED <<tab, clients, shown>>

(* The subscriber hears it and the manager writes it, once per tab.         *)
BroadcastTo(n) ==
    /\ published[n].at = "redis" /\ published' = [published EXCEPT ![n].at = "heard"]
    /\ shown' = [b \in Tabs |-> IF b \in clients[ExtractRoutingId(published[n].to)]
                                THEN shown[b] \cup {n} ELSE shown[b]]
    /\ UNCHANGED <<tab, clients>>

SseNext ==
    \/ \E b \in Tabs : LeaveTab(b) \/ OnClose(b) \/ \E m \in Members : OpenStream(b, m)
    \/ \E n \in Messages : BroadcastTo(n) \/ \E c \in Channels : Notify(n, c)

SseSpec == SseInit /\ [][SseNext]_sseVars

-----------------------------------------------------------------------------
(* Properties                                                               *)

(* The map keeps no tab that is gone, under any routing id.                 *)
NoGhostTabs == \A i \in RoutingIds : \A b \in clients[i] : tab[b].stream # "closed"

(* redisSubscriber.ts:46, "Push to the SSE Manager to route it to the       *)
(* specific active user/member!": what the subscriber hears is written to   *)
(* every open tab of the addressee.                                         *)
NotificationsArrive ==
    [][\A n \in Messages, b \in Tabs :
         (published[n].at = "redis" /\ published'[n].at = "heard" /\ tab[b].stream = "open"
            /\ published[n].to \in {OwnChannel(b), EntityChannel})
         => n \in shown'[b]]_sseVars
=============================================================================
