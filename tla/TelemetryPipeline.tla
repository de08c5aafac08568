------------------------- MODULE TelemetryPipeline -------------------------
(***************************************************************************)
(* The telemetry path from the routing service to the windows that show  *)
(* it: the router of RoutingService publishes on a ZeroMQ PUB socket, and *)
(* each consumer process (the telemetry system window, a generic          *)
(* telemetry page, an event message page) has a SUB socket with a prefix *)
(* subscription, a TlmReceiver thread that reads it and emits a queued Qt *)
(* signal, and a GUI slot processPendingDatagrams that shows the packet.  *)
(*                                                                         *)
(* PUB delivers a message only to SUB sockets whose connection has        *)
(* completed (a late joiner misses what came before) and drops it for a  *)
(* subscriber whose queue holds Hwm messages.                             *)
(***************************************************************************)
EXTENDS RoutingService

CONSTANTS
    Consumers,  \* the consumer processes
    Launch,     \* Consumers -> [kind, parent, appid]: how each was started
    Hwm         \* ZeroMQ high-water mark of a subscriber's queue

Kinds == {"system", "page", "event"}

ASSUME /\ Launch \in [Consumers -> [kind : Kinds, parent : Seq(STRING), appid : Nat]]
       /\ Hwm \in Nat \ {0}

VARIABLES
    connected,  \* connected[c]: c's SUB connect has completed
    joinedAt,   \* joinedAt[c]: messages published before c's connection completed
    zq,         \* zq[c]: messages queued at c's SUB socket, oldest first
    lost,       \* lost[c]: ids of messages dropped for c at the high-water mark
    qt,         \* qt[c]: TlmDatagram signals queued to c's GUI thread
    shown,      \* shown[c]: messages c's GUI slot has processed, in order
    eventOutput \* eventOutput[c]: messages an event page appended to its output, in order

pipeVars == <<connected, joinedAt, zq, lost, qt, shown, eventOutput>>
allVars == <<vars, pipeVars>>

\* The ids of the messages in a queue.
Ids(q) == {q[i].id : i \in DOMAIN q}

-----------------------------------------------------------------------------
\* The subscription each consumer installs, from the command line its
\* launcher built (GroundSystem.startTlmSystem, then
\* TelemetrySystem.ProcessButtonGeneric for pages).
SubscriptionOf(c) ==
    LET l == Launch[c]
        parentSub == TlmSystemSubscription(l.parent)
    IN CASE l.kind = "system" -> parentSub
         [] l.kind = "page"   -> PageSubscription(parentSub, l.appid)
         [] l.kind = "event"  -> EventSubscription(PageSubscription(parentSub, l.appid))

\* The --appid argument TelemetrySystem passes a page: hex(tlmPageAppid[idx]).
EventAppIdArg(appid) == Hex(appid)

\* Faulty form of ConsumerProcess: any queued signal handled, not the oldest.
ConsumerProcessAny(c) ==
    /\ Launch[c].kind \in {"system", "page"}
    /\ qt[c] # <<>>
    /\ \E i \in DOMAIN qt[c] :
          /\ shown' = [shown EXCEPT ![c] = Append(shown[c], qt[c][i])]
          /\ qt' = [qt EXCEPT ![c] = RemoveAt(qt[c], i)]
    /\ UNCHANGED <<connected, joinedAt, zq, lost, eventOutput, vars>>

PipeInit ==
    /\ Init
    /\ connected = [c \in Consumers |-> FALSE]
    /\ joinedAt = [c \in Consumers |-> 0]
    /\ zq = [c \in Consumers |-> <<>>]
    /\ lost = [c \in Consumers |-> {}]
    /\ qt = [c \in Consumers |-> <<>>]
    /\ shown = [c \in Consumers |-> <<>>]
    /\ eventOutput = [c \in Consumers |-> <<>>]

\* Faulty form of FanOut: the high-water mark test off by one.
FanOutOverHwm(m) ==
    LET to == {c \in Consumers : connected[c] /\ Matches(SubscriptionOf(c), m.topic)}
        full == {c \in to : Len(zq[c]) > Hwm}
    IN /\ zq' = [c \in Consumers |-> IF c \in to \ full THEN Append(zq[c], m) ELSE zq[c]]
       /\ lost' = [c \in Consumers |-> IF c \in full THEN lost[c] \cup {m.id} ELSE lost[c]]

(* send_multipart of forwardMessage, on the PUB side: the new message is   *)
(* queued for every connected subscriber whose prefix it matches, and      *)
(* dropped for one whose queue is at the high-water mark.                  *)
FanOut(m) ==
    LET to == {c \in Consumers : connected[c] /\ Matches(SubscriptionOf(c), m.topic)}
        full == {c \in to : Len(zq[c]) >= Hwm}
    IN /\ zq' = [c \in Consumers |-> IF c \in to \ full THEN Append(zq[c], m) ELSE zq[c]]
       /\ lost' = [c \in Consumers |-> IF c \in full THEN lost[c] \cup {m.id} ELSE lost[c]]

(* One iteration of the router loop (RoutingService!RouterReceive); when  *)
(* it publishes, the message is fanned out in the same step.              *)
Route(d) ==
    /\ RouterReceive(d)
    /\ IF Len(published') > Len(published)
       THEN FanOut(Last(published'))
       ELSE UNCHANGED <<zq, lost>>
    /\ UNCHANGED <<connected, joinedAt, qt, shown, eventOutput>>

(* TlmReceiver.__init__ connects its SUB socket; the connection completes *)
(* some time later, and only then does PUB send to it.                    *)
ConsumerConnect(c) ==
    /\ ~connected[c]
    /\ connected' = [connected EXCEPT ![c] = TRUE]
    /\ joinedAt' = [joinedAt EXCEPT ![c] = Len(published)]
    /\ UNCHANGED <<zq, lost, qt, shown, eventOutput, vars>>

\* Faulty form of ConsumerRecv: the receive without its "while True" loop.
ConsumerRecvOnce(c) ==
    /\ Ids(qt[c]) \cup Ids(shown[c]) = {}
    /\ Launch[c].kind \in {"system", "page"}
    /\ zq[c] # <<>>
    /\ zq' = [zq EXCEPT ![c] = Tail(zq[c])]
    /\ qt' = [qt EXCEPT ![c] = Append(qt[c], Head(zq[c]))]
    /\ UNCHANGED <<connected, joinedAt, lost, shown, eventOutput, vars>>

(* TlmReceiver.run of the telemetry system and of a generic page:          *)
(* recv_multipart, then emit the datagram to the GUI thread.              *)
ConsumerRecv(c) ==
    /\ Launch[c].kind \in {"system", "page"}
    /\ zq[c] # <<>>
    /\ zq' = [zq EXCEPT ![c] = Tail(zq[c])]
    /\ qt' = [qt EXCEPT ![c] = Append(qt[c], Head(zq[c]))]
    /\ UNCHANGED <<connected, joinedAt, lost, shown, eventOutput, vars>>

(* EventMessage's TlmReceiver.run: a message whose topic does not contain *)
(* the page's appid string is read and skipped.                           *)
EventRecv(c) ==
    /\ Launch[c].kind = "event"
    /\ zq[c] # <<>>
    /\ zq' = [zq EXCEPT ![c] = Tail(zq[c])]
    /\ qt' = [qt EXCEPT ![c] =
                IF EventFilterPasses(EventAppIdArg(Launch[c].appid), Head(zq[c]).topic)
                THEN Append(qt[c], Head(zq[c])) ELSE qt[c]]
    /\ UNCHANGED <<connected, joinedAt, lost, shown, eventOutput, vars>>

(* processPendingDatagrams of a generic page (or the telemetry system) in *)
(* its GUI thread: pktCount is incremented and the packet displayed (the  *)
(* count is Len(shown[c])).                                                *)
ConsumerProcess(c) ==
    /\ Launch[c].kind \in {"system", "page"}
    /\ qt[c] # <<>>
    /\ shown' = [shown EXCEPT ![c] = Append(shown[c], Head(qt[c]))]
    /\ qt' = [qt EXCEPT ![c] = Tail(qt[c])]
    /\ UNCHANGED <<connected, joinedAt, zq, lost, eventOutput, vars>>

\* Faulty form of EventUnpacks: the two pad bytes of "<122sxx" forgotten.
EventUnpacksNoPad(m) == m.len = 44 + 122

\* An event page's unpacks: "<20s" of datagram[12:32] and "<122sxx" of
\* datagram[44:] raise struct.error unless the datagram is 44 + 122 + 2 bytes.
EventMsgLen == 44 + 122 + 2
EventUnpacks(m) == m.len = EventMsgLen

(* EventMessage.processPendingDatagrams: pktCount is incremented and the  *)
(* sequence count shown first; then the application name and event text   *)
(* are unpacked and the event appended to the output.  When unpack raises *)
(* the slot ends there: the packet is counted and not shown.               *)
EventProcess(c) ==
    /\ Launch[c].kind = "event"
    /\ qt[c] # <<>>
    /\ shown' = [shown EXCEPT ![c] = Append(shown[c], Head(qt[c]))]
    /\ qt' = [qt EXCEPT ![c] = Tail(qt[c])]
    /\ eventOutput' = IF EventUnpacks(Head(qt[c]))
                      THEN [eventOutput EXCEPT ![c] = Append(@, Head(qt[c]))]
                      ELSE eventOutput
    /\ UNCHANGED <<connected, joinedAt, zq, lost, vars>>

\* The actions of RoutingService that do not publish leave the consumers
\* alone.  The main window's UpdateIpList is left out here: it reads and
\* writes only the GUI list and the signal queue, which no consumer and no
\* property of this module reads (the routing run steps it).
RouterOther ==
    /\ \/ \E a \in Addrs, l \in Lengths, s \in StreamIds : SourceSend(a, l, s)
       \/ \E d \in udp : UdpLose(d)
       \/ Stop
    /\ UNCHANGED pipeVars

PipeNext ==
    \/ RouterOther
    \/ \E d \in udp : Route(d)
    \/ \E c \in Consumers : ConsumerConnect(c)
    \/ \E c \in Consumers : ConsumerRecv(c)
    \/ \E c \in Consumers : EventRecv(c)
    \/ \E c \in Consumers : ConsumerProcess(c)
    \/ \E c \in Consumers : EventProcess(c)

(* The router, each receiver thread and each GUI event loop run whenever  *)
(* they have input; a connect completes.  Senders, loss and stop are not  *)
(* fair.                                                                   *)
PipeFairness ==
    /\ WF_allVars(\E d \in udp : Route(d))
    /\ \A c \in Consumers :
          /\ WF_allVars(ConsumerConnect(c))
          /\ WF_allVars(ConsumerRecv(c))
          /\ WF_allVars(EventRecv(c))
          /\ WF_allVars(ConsumerProcess(c))
          /\ WF_allVars(EventProcess(c))

PipeSpec == PipeInit /\ [][PipeNext]_allVars /\ PipeFairness

-----------------------------------------------------------------------------
\* What a consumer is for: the selected spacecraft's traffic (all of it
\* for "All"), and for a page only its stream id.
Wants(c, m) ==
    /\ Launch[c].parent = AllName \/ m.name = Launch[c].parent
    /\ Launch[c].kind = "system" \/ m.sid = Launch[c].appid

PipeTypeOK ==
    /\ TypeOK
    /\ connected \in [Consumers -> BOOLEAN]
    /\ \A c \in Consumers :
          /\ Len(zq[c]) <= Hwm
          /\ joinedAt[c] \in 0..Len(published)
          /\ lost[c] \subseteq 1..MaxDatagrams
          /\ Ids(zq[c]) \cup Ids(qt[c]) \cup Ids(shown[c]) \cup Ids(eventOutput[c]) \subseteq {published[i].id : i \in DOMAIN published}

(* Through the PUB/SUB queue and the queued Qt signal each window shows   *)
(* messages it is for, one at a time, each later on the bus than the one  *)
(* before (spec 4.2: per-source order is what the transport gives; this   *)
(* layer adds no reordering): the pipeline implements DeliveryOrder, with  *)
(* the router's published list as the bus and the GUI slots' shown lists  *)
(* as the windows.                                                         *)
Delivery == INSTANCE DeliveryOrder

ImplementsDeliveryOrder == Delivery!Spec

(* A message the router publishes after a window's connection completed  *)
(* and that the window is for is queued, signalled, shown, or dropped at  *)
(* the high-water mark: the late join and a full queue are the only ways *)
(* a window misses its traffic.                                            *)
NoSilentLoss ==
    \A c \in Consumers : \A i \in DOMAIN published :
        (connected[c] /\ i > joinedAt[c] /\ Wants(c, published[i])) =>
            published[i].id \in Ids(zq[c]) \cup Ids(qt[c]) \cup Ids(shown[c]) \cup lost[c]

\* The length of a cFE long event message: a 12-byte telemetry header, the
\* packet id (application name 20, event id 2, type 2, spacecraft 4,
\* processor 4), the 122-byte text and 2 spare bytes.
LongEventTlmLen == 12 + 32 + 122 + 2

\* The ids of the published long event messages, for an event page c.
LongEventIds(c) ==
    {published[i].id : i \in {j \in DOMAIN published : Launch[c].kind = "event" /\ published[j].len = LongEventTlmLen}}

(* A message queued for a window that the window is for is eventually    *)
(* processed by its GUI slot (and counted), and, when it is a whole cFE  *)
(* long event message, appended to the event page's output: the          *)
(* receiver thread and the GUI thread keep draining.                      *)
QueuedEventuallyShown ==
    \A c \in Consumers : \A x \in 1..MaxDatagrams :
        (\E k \in DOMAIN zq[c] : zq[c][k].id = x /\ Wants(c, zq[c][k]))
            ~> /\ x \in Ids(shown[c])
               /\ x \in LongEventIds(c) => x \in Ids(eventOutput[c])
=============================================================================
