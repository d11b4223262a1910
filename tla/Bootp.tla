--------------------------------- MODULE Bootp ---------------------------------
(***************************************************************************)
(* Getting an address: BOOTP, DHCP and RARP as services/bootp.c and        *)
(* services/rarp.c have them, under NetLoop.  The monitor is built without *)
(* them (CONFIG_COMMANDS is empty); the model is that of a build with      *)
(* them, where NetLoop starts one of the three.                            *)
(*                                                                         *)
(* The network loses, repeats and reorders: a message sent may come at any *)
(* time, more than once, or never.  Requests are told apart by the clock   *)
(* in their identifier; a neighbour's may be the same number.              *)
(***************************************************************************)
EXTENDS Integers, Sequences, FiniteSets

CONSTANTS Protocols,     \* subset of {"bootp", "dhcp", "rarp"}
          Servers,       \* addresses of the servers, above 0
          Autoload,      \* values of the environment's autoload: FALSE for 'n'
          Neighbours,    \* identifiers of a neighbour's requests
          Areas,         \* vendor areas a server fills in: sequences of options and pads
          TIMEOUT_COUNT, \* of the three services
          MaxRequests

ASSUME BootpAssumption ==
    /\ Protocols \subseteq {"bootp", "dhcp", "rarp"} /\ Servers \subseteq Nat \ {0}
    /\ Autoload \subseteq BOOLEAN /\ Neighbours \subseteq Nat /\ {TIMEOUT_COUNT, MaxRequests} \subseteq Nat

VARIABLES
    protocol, autoload,
    handler, timer,                \* of NetLoop: who gets a packet, and whose timer runs
    dhcp_state, Try, id,           \* id: BootpID of the last request, a count of them
    NetOurIP, NetServerIP, asked,  \* asked: the offer DhcpSendRequestPkt has answered
    settings,                      \* mask, gateway and NetBootFileSize
    messages,                      \* every message sent
    lease,                         \* of each server: the addresses it has promised
    area                           \* the vendor area of the last reply taken

client == <<handler, timer, dhcp_state, Try, id, NetOurIP, NetServerIP, asked, settings, area>>
addressVars == <<protocol, autoload, client, messages, lease>>

\* An address a server has for a client, by identifier.
Address(s, i) == 10 * s + i

-----------------------------------------------------------------------------
(* Options: codes 1, 3 and 13 have a value of one byte here, 0 is a pad, 255 ends them.  *)

Bytes(options) ==
    LET Of[n \in 0 .. Len(options)] ==
            IF n = 0 THEN <<>> ELSE Of[n - 1] \o (IF options[n] = <<0>> THEN <<0>> ELSE <<options[n][1], 1, options[n][2]>>)
    IN Of[Len(options)] \o <<255, 0, 0, 0, 0>>

\* The options a walk takes: pads are skipped or taken for options, an option that runs past the
\* end is left out or taken with what is there.
Walk(bytes, skipsPads, onlyWhole) ==
    LET at(p) == IF p <= Len(bytes) THEN bytes[p] ELSE 0
        Found[p \in 1 .. Len(bytes) + 300] ==
            IF p > Len(bytes) THEN <<>>
            ELSE IF bytes[p] = 255 THEN <<>>
            ELSE IF bytes[p] = 0 /\ skipsPads THEN Found[p + 1]
            ELSE LET next == p + at(p + 1) + 2
                 IN IF onlyWhole /\ next > Len(bytes) + 1 THEN <<>> ELSE <<<<at(p), at(p + 2)>>>> \o Found[next]
    IN Found[1]
\* Fault: a pad is taken for an option.
BootpVendorProcess_Pads(bytes) == Walk(bytes, FALSE, TRUE)
BootpVendorProcess(bytes) == Walk(bytes, TRUE, TRUE)
\* Plain char is unsigned here; a signed one never equals the 255 that ends the options.
DhcpOptionsProcess(bytes) == Walk(bytes, FALSE, FALSE)

\* BOOTP fills in what is not set and forgets the file's size at every field; DHCP overwrites.
BootpVendorFieldProcess(s, o) ==
    [mask |-> IF o[1] = 1 /\ s.mask = 0 THEN o[2] ELSE s.mask,
     gateway |-> IF o[1] = 3 /\ s.gateway = 0 THEN o[2] ELSE s.gateway,
     size |-> IF o[1] = 13 THEN o[2] ELSE 0]
DhcpOption(s, o) ==
    [s EXCEPT !.mask = IF o[1] = 1 THEN o[2] ELSE @, !.gateway = IF o[1] = 3 THEN o[2] ELSE @]
BootpSettings(s, options) ==
    LET After[n \in 0 .. Len(options)] ==
            IF n = 0 THEN s ELSE BootpVendorFieldProcess(After[n - 1], options[n])
    IN After[Len(options)]
DhcpSettings(s, options) ==
    LET After[n \in 0 .. Len(options)] == IF n = 0 THEN s ELSE DhcpOption(After[n - 1], options[n])
    IN After[Len(options)]

-----------------------------------------------------------------------------

AddressInit ==
    /\ protocol \in Protocols /\ autoload \in Autoload
    /\ handler = "none" /\ timer = FALSE /\ dhcp_state = "INIT" /\ Try = 0 /\ id = 0
    /\ NetOurIP = 0 /\ NetServerIP = 0 /\ asked = 0
    /\ settings = [mask |-> 0, gateway |-> 0, size |-> 0]
    /\ messages = {} /\ lease = [s \in Servers |-> {}] /\ area = <<>>

Datagram(type, i, s, ip) == [type |-> type, id |-> i, server |-> s, ip |-> ip]
\* BootpRequest and RarpRequest: the broadcast, a timer and a handler.
Requests(try) ==
    /\ id < MaxRequests /\ id' = id + 1 /\ Try' = try + 1
    /\ handler' = protocol /\ timer' = TRUE
    /\ dhcp_state' = IF protocol = "dhcp" THEN "SELECTING" ELSE dhcp_state
    /\ messages' = messages \cup {Datagram(IF protocol = "dhcp" THEN "DISCOVER" ELSE "REQUEST", id', 0, 0)}
\* NetLoop forgets the addresses; the count of tries starts anew for BOOTP and RARP.
NetLoop ==
    /\ NetOurIP' = 0 /\ NetServerIP' = 0
    /\ Requests(IF protocol = "dhcp" THEN Try ELSE 0)
Start == /\ handler = "none" /\ NetLoop
         /\ UNCHANGED <<protocol, autoload, asked, settings, lease, area>>
\* BootpTimeout and RarpTimeout: another request, or all again.
Timeout ==
    /\ timer /\ handler = protocol
    /\ IF Try >= TIMEOUT_COUNT THEN NetLoop ELSE Requests(Try) /\ UNCHANGED <<NetOurIP, NetServerIP>>
    /\ UNCHANGED <<protocol, autoload, asked, settings, lease, area>>

\* Fault: the identifier is not looked at.
BootpCheckPkt_AnyId(m) == m.type \in {"REPLY", "OFFER", "ACK", "NAK"}
\* The Ethernet address a reply is for is not looked at.
BootpCheckPkt(m) == m.type \in {"REPLY", "OFFER", "ACK", "NAK"} /\ m.id = id
BootpCopyNetParams(m) == NetOurIP' = m.ip /\ NetServerIP' = m.server
\* The next step is ARP, or none.
GoesOn == handler' = (IF autoload THEN "arp" ELSE "success")

BootpHandler(m) ==
    /\ handler = "bootp" /\ BootpCheckPkt(m)
    /\ BootpCopyNetParams(m)
    /\ area' \in Areas /\ settings' = BootpSettings(settings, BootpVendorProcess(Bytes(area')))
    /\ timer' = FALSE /\ GoesOn
    /\ UNCHANGED <<protocol, autoload, dhcp_state, Try, id, asked, messages, lease>>
\* The first packet for this request is taken for an offer; what it is is looked at in the next state only.
DhcpSelecting(m) ==
    /\ handler = "dhcp" /\ dhcp_state = "SELECTING" /\ BootpCheckPkt(m)
    /\ dhcp_state' = "REQUESTING" /\ BootpCopyNetParams(m) /\ timer' = TRUE /\ asked' = m.ip
    /\ messages' = messages \cup {Datagram("ASK", id, m.server, m.ip)}
    /\ UNCHANGED <<protocol, autoload, handler, Try, id, settings, lease, area>>
\* The timer of the request goes on running; a refusal is left to it.
DhcpRequesting(m) ==
    /\ handler = "dhcp" /\ dhcp_state = "REQUESTING" /\ BootpCheckPkt(m) /\ m.type = "ACK"
    /\ area' \in Areas /\ settings' = DhcpSettings(settings, DhcpOptionsProcess(Bytes(area')))
    /\ BootpCopyNetParams(m) /\ dhcp_state' = "BOUND" /\ GoesOn
    /\ UNCHANGED <<protocol, autoload, timer, Try, id, asked, messages, lease>>
\* A RARP reply is taken whenever it comes, whoever has the handler.
RarpReply(m) ==
    /\ protocol = "rarp" /\ m.type = "REPLY"
    /\ BootpCopyNetParams(m) /\ handler' = IF handler = "rarp" THEN "arp" ELSE handler
    /\ UNCHANGED <<protocol, autoload, timer, dhcp_state, Try, id, asked, settings, messages, lease, area>>

\* The servers.  One that acknowledges has promised the address.
Answers(s, m) ==
    /\ \/ m.type = "REQUEST" /\ messages' = messages \cup {Datagram("REPLY", m.id, s, Address(s, m.id))} /\ UNCHANGED lease
       \/ m.type = "DISCOVER" /\ messages' = messages \cup {Datagram("OFFER", m.id, s, Address(s, m.id))} /\ UNCHANGED lease
       \/ /\ m.type = "ASK" /\ m.server = s
          /\ \/ messages' = messages \cup {Datagram("NAK", m.id, s, 0)} /\ UNCHANGED lease
             \/ messages' = messages \cup {Datagram("ACK", m.id, s, m.ip)} /\ lease' = [lease EXCEPT ![s] = @ \cup {m.ip}]
    /\ UNCHANGED <<protocol, autoload, client>>
\* What a server answers the neighbour is seen by all.
AnswersNeighbour(s, i) ==
    /\ messages' = messages \cup {Datagram(IF protocol = "dhcp" THEN "ACK" ELSE "REPLY", i, s, 100 + Address(s, i))}
    /\ protocol # "rarp" /\ UNCHANGED <<protocol, autoload, client, lease>>

Receives == \E m \in messages : BootpHandler(m) \/ DhcpSelecting(m) \/ DhcpRequesting(m) \/ RarpReply(m)
AddressNext ==
    \/ Start \/ Timeout \/ Receives
    \/ \E s \in Servers, m \in messages : Answers(s, m)
    \/ \E s \in Servers, i \in Neighbours : AnswersNeighbour(s, i)
AddressSpec == AddressInit /\ [][AddressNext]_addressVars

-----------------------------------------------------------------------------

\* When the next step begins, the address and the server's belong together and are ours, from the
\* request that is under way, as long as no neighbour has the same identifier; by DHCP they are
\* those of the offer asked for, and the server has promised them (bootp.c:74-121, 778-855).
AddressOurs ==
    handler \in {"arp", "success"} /\ id \notin Neighbours =>
        CASE protocol = "bootp" -> NetOurIP = Address(NetServerIP, id)
          [] protocol = "dhcp" -> /\ NetOurIP = asked /\ NetOurIP = Address(NetServerIP, id)
                                  /\ NetServerIP \in Servers /\ asked \in lease[NetServerIP]
          [] protocol = "rarp" -> \E i \in 1 .. id : NetOurIP = Address(NetServerIP, i)
\* The options of an area are read whole and in order, by DHCP when nothing pads them
\* (bootp.c:227-242, 656-712).
OptionsRead ==
    LET bare == SelectSeq(area, LAMBDA o : o # <<0>>)
    IN (protocol = "dhcp" => bare = area) =>
           (IF protocol = "dhcp" THEN DhcpOptionsProcess(Bytes(area)) ELSE BootpVendorProcess(Bytes(area))) = bare
\* What no property claims, for it does not hold: that an address once used stays (a late RARP
\* reply), and that the file's size is kept (the fields behind it clear it).
AddressStays == [][handler = "arp" => UNCHANGED <<NetOurIP, NetServerIP>>]_addressVars
SizeKept == protocol = "bootp" /\ handler = "arp" => \A i \in 1 .. Len(area) : area[i][1] = 13 => settings.size # 0

-----------------------------------------------------------------------------
(* Why: what can be on the wire, and what it says of the client.           *)

MessageTypes == IF protocol = "dhcp" THEN {"DISCOVER", "OFFER", "ASK", "ACK", "NAK"} ELSE {"REQUEST", "REPLY"}
AddressTypeOK ==
    /\ protocol \in Protocols /\ autoload \in Autoload
    /\ handler \in {"none", protocol, "arp", "success"} /\ timer \in BOOLEAN
    /\ dhcp_state \in {"INIT", "SELECTING", "REQUESTING", "BOUND"} /\ {Try, id} \subseteq Nat
    /\ {NetOurIP, NetServerIP, asked} \subseteq Nat
    /\ messages \subseteq [type : MessageTypes, id : Nat, server : Servers \cup {0}, ip : Nat]
    /\ lease \in [Servers -> SUBSET Nat] /\ area \in Areas \cup {<<>>}
Ours(i) == i \notin Neighbours \/ protocol = "rarp"
\* A message is for a request already made, or for the neighbour; for one of ours the server's
\* address for it is in it, and an acknowledgement or a refusal answers a question of ours.
Wanted(m) ==
    /\ m.type \in {"REQUEST", "DISCOVER", "ASK"} \/ Ours(m.id) => m.id \in 1 .. id
    /\ Ours(m.id) =>
           /\ m.type \in {"REPLY", "OFFER", "ASK"} => m.ip = Address(m.server, m.id)
           /\ m.type = "NAK" => \E q \in messages : q.type = "ASK" /\ q.id = m.id
           /\ m.type = "ACK" => /\ m.server \in Servers /\ m.ip \in lease[m.server]
                                /\ Datagram("ASK", m.id, m.server, m.ip) \in messages
\* The question about an offer comes after the choice and is for what was chosen.
Asking(m) == m.type = "ASK" /\ m.id = id => dhcp_state # "SELECTING" /\ m.ip = asked
AddressInv ==
    /\ AddressTypeOK /\ AddressOurs /\ (dhcp_state = "SELECTING" => id > 0)
    /\ \A m \in messages : Wanted(m) /\ Asking(m)
=============================================================================
