--------------------------- MODULE RoutingService ---------------------------
(***************************************************************************)
(* The routing service of the cFS ground system (RoutingService.py) and   *)
(* the main window that shows the sources it discovers (GroundSystem.py). *)
(*                                                                         *)
(* Sources send datagrams over UDP, which may lose or reorder them.  The  *)
(* routing thread reads one datagram per loop iteration, drops it when it *)
(* is shorter than the telemetry header, registers an address it has not  *)
(* seen as the next "Spacecraft<n>", queues a changeIpList signal for the *)
(* main window, and publishes the datagram on the PUB socket under        *)
(* "GroundSystem.<name>.TelemetryPackets.<hex stream id>".  The main      *)
(* window's GUI thread applies the queued signals in order.  Closing the  *)
(* main window stops the service.                                         *)
(***************************************************************************)
EXTENDS Naturals, Sequences, SequencesExt, Topic

CONSTANTS
    Addrs,          \* source IP addresses, as strings of digit tokens
    StreamIds,      \* stream ids (first header word) the sources send
    Lengths,        \* datagram lengths in bytes the sources send
    MaxDatagrams,   \* bound on the datagrams sent in one behaviour
    MaxLaunches     \* bound on the systems the main window starts

ASSUME /\ Addrs # {} /\ \A a \in Addrs : a \in Seq({"0", "1", "2", "3", "."})
       /\ StreamIds \subseteq 0..65535
       /\ Lengths \subseteq Nat
       /\ MaxDatagrams \in Nat /\ MaxLaunches \in Nat

\* A datagram; id tells apart datagrams with equal contents.
Datagram == [id : 1..MaxDatagrams, src : Addrs, len : Lengths, sid : StreamIds]

\* Telemetry header length: "if len(datagram) < 6: continue".
MinHeaderLen == 6

VARIABLES
    udp,              \* datagrams sent and not yet read by recvfrom
    sentCount,        \* datagrams sent so far
    received,         \* datagrams recvfrom has returned (history)
    ipAddressesList,  \* RoutingService.ipAddressesList
    spacecraftNames,  \* RoutingService.spacecraftNames
    published,        \* messages sent on the PUB socket, in order
    thread,           \* the routing QThread: "running" or "dead"
    sockOpen,         \* the UDP socket and ZMQ context are open
    signals,          \* queued changeIpList signals (ip, name), FIFO
    mainIps,          \* GroundSystem.ipAddressesList
    mainNames,        \* GroundSystem.spacecraftNames
    launched          \* the systems the main window started, in order

routerVars == <<received, ipAddressesList, spacecraftNames, published, thread>>
vars == <<udp, sentCount, sockOpen, signals, mainIps, mainNames, launched, routerVars>>

-----------------------------------------------------------------------------
\* Python's list.index(x): the first position of x, 0 when absent (where
\* Python raises ValueError).
IndexOf(list, x) == SelectInSeq(list, LAMBDA e : e = x)

\* Faulty forms of the definitions below, kept for mutation checks.
NameForLatest(ips, names, h) == names[Len(names)]
IsHeaderTooShortLe(d) == d.len <= MinHeaderLen

\* "if len(datagram) < 6: continue"
IsHeaderTooShort(d) == d.len < MinHeaderLen

\* any(hostIpAddress in s for s in self.ipAddressesList): a substring
\* test against every listed entry, not an equality test.
IsListed(h) == \E s \in Range(ipAddressesList) : h \in SubSeqs(s)

\* self.spacecraftNames[self.ipAddressesList.index(hostIpAddress)]
NameFor(ips, names, h) == names[IndexOf(ips, h)]

\* Faulty form of Init: the name list lacks the synthetic "All" entry.
InitNoAllName ==
    /\ udp = {}
    /\ sentCount = 0
    /\ received = {}
    /\ ipAddressesList = <<AllName>>
    /\ spacecraftNames = <<>>
    /\ published = <<>>
    /\ thread = "running"
    /\ sockOpen = TRUE
    /\ signals = <<>>
    /\ mainIps = <<AllName>>
    /\ mainNames = <<AllName>>
    /\ launched = <<>>

Init ==
    /\ udp = {}
    /\ sentCount = 0
    /\ received = {}
    /\ ipAddressesList = <<AllName>>
    /\ spacecraftNames = <<AllName>>
    /\ published = <<>>
    /\ thread = "running"
    /\ sockOpen = TRUE
    /\ signals = <<>>
    /\ mainIps = <<AllName>>
    /\ mainNames = <<AllName>>
    /\ launched = <<>>

-----------------------------------------------------------------------------
(* A source (the flight software's TO_Lab app) sends a datagram to the    *)
(* routing port.                                                           *)
SourceSend(a, l, s) ==
    /\ sentCount < MaxDatagrams
    /\ sentCount' = sentCount + 1
    /\ udp' = udp \cup {[id |-> sentCount + 1, src |-> a, len |-> l, sid |-> s]}
    /\ UNCHANGED <<sockOpen, signals, mainIps, mainNames, launched, routerVars>>

(* The network or the socket's receive buffer loses a datagram.           *)
UdpLose(d) ==
    /\ udp' = udp \ {d}
    /\ UNCHANGED <<sentCount, sockOpen, signals, mainIps, mainNames, launched, routerVars>>

(* One iteration of RoutingService.run: recvfrom returns d; a short one is *)
(* skipped; an address no listed entry contains is registered and a       *)
(* changeIpList signal queued; then forwardMessage publishes the datagram *)
(* under the name found with list.index.  When the address is not in the  *)
(* list (it is a substring of an entry but not equal to one), index raises *)
(* ValueError, which the "except socket.error" does not catch: the thread *)
(* ends and nothing is routed any more.                                    *)
RouterReceive(d) ==
    /\ thread = "running" /\ sockOpen
    /\ udp' = udp \ {d}
    /\ received' = received \cup {d}
    /\ IF IsHeaderTooShort(d)
       THEN UNCHANGED <<ipAddressesList, spacecraftNames, published, thread, signals>>
       ELSE LET new   == ~IsListed(d.src)
                ips   == IF new THEN Append(ipAddressesList, d.src) ELSE ipAddressesList
                names == IF new THEN Append(spacecraftNames, SpacecraftName(Len(spacecraftNames)))
                         ELSE spacecraftNames
            IN /\ ipAddressesList' = ips
               /\ spacecraftNames' = names
               /\ signals' = IF new THEN Append(signals, <<d.src, Last(names)>>) ELSE signals
               /\ IF IndexOf(ips, d.src) # 0
                  THEN /\ published' = Append(published,
                              [name |-> NameFor(ips, names, d.src), sid |-> d.sid,
                               topic |-> TopicOf(NameFor(ips, names, d.src), d.sid),
                               src |-> d.src, id |-> d.id, len |-> d.len])
                       /\ UNCHANGED thread
                  ELSE /\ thread' = "dead"
                       /\ UNCHANGED published
    /\ UNCHANGED <<sentCount, sockOpen, mainIps, mainNames, launched>>

\* Faulty form of UpdateIpList: the address also put in the name column.
UpdateIpListIpAsName ==
    /\ sockOpen
    /\ signals # <<>>
    /\ mainIps' = Append(mainIps, Head(signals)[1])
    /\ mainNames' = Append(mainNames, Head(signals)[1])
    /\ signals' = Tail(signals)
    /\ UNCHANGED <<udp, sentCount, sockOpen, launched, routerVars>>

(* The GUI thread runs GroundSystem.updateIpList for the oldest queued     *)
(* changeIpList signal (a queued cross-thread connection).                *)
UpdateIpList ==
    /\ sockOpen
    /\ signals # <<>>
    /\ mainIps' = Append(mainIps, Head(signals)[1])
    /\ mainNames' = Append(mainNames, Head(signals)[2])
    /\ signals' = Tail(signals)
    /\ UNCHANGED <<udp, sentCount, sockOpen, launched, routerVars>>

(* GroundSystem.closeEvent calls RoutingService.stop: the UDP socket is    *)
(* closed and the ZMQ context destroyed; the application then quits, so   *)
(* no further signal is handled.  The thread's loop catches the socket     *)
(* errors a closed socket raises and keeps looping without effect.        *)
Stop ==
    /\ sockOpen
    /\ sockOpen' = FALSE
    /\ UNCHANGED <<udp, sentCount, signals, mainIps, mainNames, launched, routerVars>>

\* Faulty form of SelectedName: the name of the latest discovered source.
SelectedNameLatest(ip) == mainNames[Len(mainNames)]

\* GroundSystem.getSelectedSpacecraftName: the name beside the address
\* selected in the combo box, found with list.index.
SelectedName(ip) == mainNames[IndexOf(mainIps, ip)]

(* startTlmSystem, for the address ip the operator selected among the     *)
(* combo box entries: TelemetrySystem.py started with the subscription of *)
(* the selected spacecraft's name.  The address is kept as history.       *)
StartTlmSystem(ip) ==
    /\ sockOpen
    /\ Len(launched) < MaxLaunches
    /\ launched' = Append(launched, [kind |-> "tlm", addr |-> ip,
                                     sub |-> TlmSystemSubscription(SelectedName(ip))])
    /\ UNCHANGED <<udp, sentCount, sockOpen, signals, mainIps, mainNames, routerVars>>

(* startCmdSystem: CommandSystem.py started, with no argument.             *)
StartCmdSystem ==
    /\ sockOpen
    /\ Len(launched) < MaxLaunches
    /\ launched' = Append(launched, [kind |-> "cmd", addr |-> AllName, sub |-> <<>>])
    /\ UNCHANGED <<udp, sentCount, sockOpen, signals, mainIps, mainNames, routerVars>>

Next ==
    \/ \E ip \in Range(mainIps) : StartTlmSystem(ip)
    \/ StartCmdSystem
    \/ \E a \in Addrs, l \in Lengths, s \in StreamIds : SourceSend(a, l, s)
    \/ \E d \in udp : UdpLose(d)
    \/ \E d \in udp : RouterReceive(d)
    \/ UpdateIpList
    \/ Stop

(* recvfrom returns whenever a datagram is waiting and the thread runs;   *)
(* the Qt event loop handles every queued signal while the app runs.      *)
(* Sources, the network and the operator closing the window are not fair. *)
Fairness ==
    /\ WF_vars(\E d \in udp : RouterReceive(d))
    /\ WF_vars(UpdateIpList)

Spec == Init /\ [][Next]_vars /\ Fairness

-----------------------------------------------------------------------------
TypeOK ==
    /\ udp \subseteq Datagram
    /\ sentCount \in 0..MaxDatagrams
    /\ received \subseteq Datagram
    /\ ipAddressesList \in Seq(Addrs \cup {AllName})
    /\ Len(spacecraftNames) = Len(ipAddressesList)
    /\ published \in Seq([name : Range(spacecraftNames), sid : StreamIds,
                          topic : Seq(STRING), src : Addrs, id : 1..MaxDatagrams, len : Lengths])
    /\ thread \in {"running", "dead"}
    /\ sockOpen \in BOOLEAN
    /\ Len(mainIps) = Len(mainNames)
    /\ launched \in Seq([kind : {"tlm", "cmd"}, addr : Addrs \cup {AllName}, sub : Seq(STRING)])

(* Spec 3 and 8: every address a datagram of header length came from has   *)
(* been registered and that datagram published.  Fails when the routing  *)
(* thread drops or cannot route an accepted datagram.                     *)
AcceptedDatagramsPublished ==
    \A d \in received :
        d.len >= MinHeaderLen =>
            /\ d.src \in Range(ipAddressesList)
            /\ \E i \in DOMAIN published : published[i].id = d.id

(* A topic's spacecraft name identifies one source: two messages published *)
(* under the same name came from the same address, and messages from one *)
(* address always carry the same name.  A consumer that filters on a name *)
(* then sees one spacecraft's traffic.                                     *)
TopicNameIdentifiesSource ==
    \A i, j \in DOMAIN published :
        (published[i].name = published[j].name) <=> (published[i].src = published[j].src)

(* Every discovered source eventually appears in the main window's list   *)
(* (with the name the router gave it), unless the application was closed. *)
DiscoveredSourcesShown ==
    \A a \in Addrs :
        (a \in Range(ipAddressesList)) ~>
            (~sockOpen \/ \E i \in DOMAIN mainIps :
                              mainIps[i] = a /\ mainNames[i] = NameFor(ipAddressesList, spacecraftNames, a))

(* A telemetry system started from the main window subscribes to exactly  *)
(* the traffic of the spacecraft the operator selected: its subscription  *)
(* matches a published topic if and only if that message came from the   *)
(* selected address, or "All" was selected.  The main window's name for   *)
(* an address, applied from the queued signals, must be the name the      *)
(* router publishes that address's messages under.                        *)
SelectedSystemSeesItsSource ==
    \A k \in DOMAIN launched, i \in DOMAIN published :
        launched[k].kind = "tlm" =>
            (Matches(launched[k].sub, published[i].topic)
                <=> (launched[k].addr = AllName \/ published[i].src = launched[k].addr))
=============================================================================
