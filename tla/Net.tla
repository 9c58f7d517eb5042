-------------------------------- MODULE Net --------------------------------
(***************************************************************************)
(* Names and addresses (net.c): the ARP table, ping, the resolver and the  *)
(* DHCP client.  A call sends a question and polls the card until the      *)
(* handler of received frames (net_rx_deliver) has noted an answer, or     *)
(* until it gives up.                                                      *)
(*                                                                         *)
(* The network is external.  A frame for a host goes to the gateway, and   *)
(* is lost when the table has another card for it.  What is answered may   *)
(* arrive at any time and in any order, after the call gave up as well,    *)
(* and an answer may arrive twice.                                         *)
(***************************************************************************)
EXTENDS Naturals, Sequences, FiniteSets

CONSTANTS
    Hosts,          \* hosts that have an address, "gw" one of them
    Alive,          \* those that answer a ping
    Askers,         \* those that ping this machine
    Macs,           \* addresses of cards
    Records,        \* names the server knows: what each stands for, or "none"
    Dotted,         \* names that are addresses in dotted form
    ARP_TABLE_SIZE, \* entries of the ARP table (16)
    TXIDS,          \* transaction numbers of the resolver (2^16)
    Offers,         \* addresses the DHCP server may offer
    Tries,          \* attempts of the resolver and of the DHCP client (3)
    MaxCalls,       \* bound: calls
    MaxMoves,       \* bound: hosts that change their card
    Late            \* answers may arrive after the call gave up

NetAssumption ==
    /\ "gw" \in Hosts /\ Alive \subseteq Hosts /\ ARP_TABLE_SIZE \in Nat \ {0}
    /\ Tries \in Nat \ {0} /\ MaxCalls \in Nat
    /\ TXIDS \in Nat /\ TXIDS > Tries * MaxCalls
    /\ Late \in BOOLEAN
    /\ DOMAIN Dotted \cap DOMAIN Records = {}

VARIABLES
    arp_table,       \* <<address, card>> of the entries
    icmp_got_reply,
    dns_txid, dns_result,
    dhcp_offered_ip,
    net_ip,
    call,            \* the call under way
    calls,           \* history: calls made
    air,             \* frames that may arrive
    card,            \* the cards the hosts have
    frame,           \* the latest frame the machine sent of its own accord
    claimed,         \* history: the card each host told of last
    got              \* history: what the latest call returned

netVars == <<arp_table, icmp_got_reply, dns_txid, dns_result, dhcp_offered_ip,
             net_ip, call, calls, air, card, frame, claimed, got>>
notes == <<icmp_got_reply, dns_result, dhcp_offered_ip>>

-----------------------------------------------------------------------------
AtRest == [kind |-> "idle", of |-> "none", try |-> 0]
Arp(oper, h, m) == [kind |-> "arp", oper |-> oper, from |-> h, mac |-> m]
Echo(type, h) == [kind |-> "icmp", type |-> type, from |-> h]
Answer(id, name, ip) ==
    [kind |-> "dns", txid |-> id, name |-> name, ip |-> ip]
Lease(type, ip) == [kind |-> "dhcp", type |-> type, ip |-> ip]
Nobody == [kind |-> "none", to |-> "none", mac |-> "none"]

NetTypeOK ==
    /\ Len(arp_table) \in 0 .. ARP_TABLE_SIZE
    /\ icmp_got_reply \in BOOLEAN /\ dns_txid \in 0 .. TXIDS - 1
    /\ dns_result \in Hosts \cup {"none"}
    /\ {dhcp_offered_ip, net_ip} \subseteq Offers \cup {"none", "me"}
    /\ call.kind \in {"idle", "ping", "dns", "offer", "ack"}
    /\ call.try \in 0 .. Tries /\ calls \in 0 .. MaxCalls

(* net_start: an address of its own, and the card of the gateway.          *)
NetInit ==
    /\ arp_table = << <<"gw", "gw0">> >>
    /\ icmp_got_reply = FALSE /\ dns_txid = 0 /\ dns_result = "none"
    /\ dhcp_offered_ip = "none" /\ net_ip = "me"
    /\ call = AtRest /\ calls = 0 /\ air = {} /\ frame = Nobody
    /\ card = [h \in Hosts |-> IF h = "gw" THEN "gw0" ELSE "h0"]
    /\ claimed = [h \in Hosts |-> IF h = "gw" THEN "gw0" ELSE "none"]
    /\ got = [kind |-> "none", of |-> "none", ip |-> "none"]

-----------------------------------------------------------------------------
(* Frames sent.                                                            *)

EntriesOf(h) == {i \in DOMAIN arp_table : arp_table[i][1] = h}
arp_lookup(h) == IF EntriesOf(h) = {} THEN "none"
                 ELSE arp_table[CHOOSE i \in EntriesOf(h) : TRUE][2]

(* ip_send: every packet goes by the gateway, which net_start made known.  *)
Reaches == arp_lookup("gw") = card["gw"]
(* What is on its way once a question has been put: answers to it, if it   *)
(* is answered at all.                                                     *)
Asking(answers) == IF Reaches THEN air \cup answers ELSE air

-----------------------------------------------------------------------------
(* The calls, up to the first poll.                                        *)

Begin(c) ==
    /\ call = AtRest /\ calls < MaxCalls
    /\ call' = c /\ calls' = calls + 1

net_ping(h) ==
    /\ Begin([kind |-> "ping", of |-> h, try |-> 1])
    /\ icmp_got_reply' = FALSE
    /\ air' = Asking({Echo("reply", h)} \cap {Echo("reply", a) : a \in Alive})
    /\ UNCHANGED <<arp_table, dns_txid, dns_result, dhcp_offered_ip, net_ip,
                   card, frame, claimed, got>>

(* The query has a number of its own.                                      *)
NextId == (dns_txid + 1) % TXIDS

Query(name) ==
    /\ dns_result' = "none" /\ dns_txid' = NextId
    /\ air' = Asking({Answer(NextId, name, Records[name])})

net_dns_resolve(name) ==
    /\ Begin([kind |-> "dns", of |-> name, try |-> 1])
    /\ Query(name)
    /\ UNCHANGED <<arp_table, icmp_got_reply, dhcp_offered_ip, net_ip, card,
                   frame, claimed, got>>

(* An address in dotted form needs no query.                               *)
Parse(name) ==
    /\ call = AtRest /\ calls < MaxCalls /\ calls' = calls + 1
    /\ got' = [kind |-> "dns", of |-> name, ip |-> Dotted[name]]
    /\ UNCHANGED <<arp_table, notes, dns_txid, net_ip, call, air, card, frame,
                   claimed>>

(* dhcp_run: a broadcast, which needs no entry.                            *)
Discover ==
    /\ dhcp_offered_ip' = "none"
    /\ \E ip \in Offers : air' = air \cup {Lease("offer", ip)}

dhcp_run ==
    /\ Begin([kind |-> "offer", of |-> "me", try |-> 1])
    /\ Discover
    /\ UNCHANGED <<arp_table, icmp_got_reply, dns_txid, dns_result, net_ip,
                   card, frame, claimed, got>>

-----------------------------------------------------------------------------
(* net_rx_deliver, one frame.                                              *)

(* arp_table_add.                                                          *)
Appended(h, m) ==
    IF Len(arp_table) < ARP_TABLE_SIZE THEN Append(arp_table, <<h, m>>)
    ELSE arp_table
(* Mutant: an address that is known is entered again.                      *)
Learned_Again(h, m) == Appended(h, m)
Learned(h, m) ==
    IF EntriesOf(h) # {}
    THEN [i \in DOMAIN arp_table |->
            IF i \in EntriesOf(h) THEN <<h, m>> ELSE arp_table[i]]
    ELSE Appended(h, m)

(* Whoever sends an ARP frame is entered, and answered when it asks for    *)
(* this machine.                                                           *)
HandleArp(p) ==
    /\ p.kind = "arp"
    /\ arp_table' = Learned(p.from, p.mac)
    /\ frame' = IF p.oper = "request"
               THEN [kind |-> "arp", to |-> p.from, mac |-> p.mac] ELSE frame
    /\ claimed' = [claimed EXCEPT ![p.from] = p.mac]
    /\ UNCHANGED notes

(* Any echo reply will do.  An echo request is sent back with the IP       *)
(* addresses swapped and the cards as they were.                           *)
HandleIcmp(p) ==
    /\ p.kind = "icmp"
    /\ icmp_got_reply' = (icmp_got_reply \/ p.type = "reply")
    /\ frame' = IF p.type = "echo"
               THEN [kind |-> "icmp", to |-> p.from, mac |-> "me"] ELSE frame
    /\ UNCHANGED <<arp_table, dns_result, dhcp_offered_ip, claimed>>

(* dns_handle_reply: an answer to another query is dropped, and so is one  *)
(* without an address.                                                     *)
(* Mutant: the number is not looked at.                                    *)
Wanted_AnyId(p) == p.ip # "none"
Wanted(p) == (dns_txid = 0 \/ p.txid = dns_txid) /\ p.ip # "none"

dns_handle_reply(p) ==
    /\ p.kind = "dns"
    /\ dns_result' = IF Wanted(p) THEN p.ip ELSE dns_result
    /\ UNCHANGED <<arp_table, icmp_got_reply, dhcp_offered_ip, frame, claimed>>

(* handle_dhcp: the number of the exchange is the same for every attempt.  *)
handle_dhcp(p) ==
    /\ p.kind = "dhcp"
    /\ dhcp_offered_ip' = p.ip
    /\ UNCHANGED <<arp_table, icmp_got_reply, dns_result, frame, claimed>>

Deliver ==
    /\ call # AtRest
    /\ \E p \in air :
          /\ \/ HandleArp(p)
             \/ HandleIcmp(p)
             \/ dns_handle_reply(p)
             \/ handle_dhcp(p)
          /\ air' = air \ {p} \/ (Late /\ air' = air)
    /\ UNCHANGED <<dns_txid, net_ip, call, calls, card, got>>

-----------------------------------------------------------------------------
(* The calls, after a poll.  An answer that was given in time has come.    *)

Return(ip) ==
    /\ call' = AtRest
    /\ got' = [kind |-> call.kind, of |-> call.of, ip |-> ip]
    /\ air' = IF Late THEN air ELSE {p \in air : p.kind = "arp"}
    /\ UNCHANGED <<arp_table, icmp_got_reply, dhcp_offered_ip, calls, card,
                   frame, claimed>>

PingReturns ==
    /\ call.kind = "ping"
    /\ Return(IF icmp_got_reply THEN call.of ELSE "none")
    /\ UNCHANGED <<dns_txid, dns_result, net_ip>>

ResolveReturns ==
    /\ call.kind = "dns"
    /\ dns_result # "none" \/ call.try = Tries
    /\ Return(dns_result)
    /\ UNCHANGED <<dns_txid, dns_result, net_ip>>

ResolveAgain ==
    /\ call.kind = "dns" /\ dns_result = "none" /\ call.try < Tries
    /\ Query(call.of)
    /\ call' = [call EXCEPT !.try = @ + 1]
    /\ UNCHANGED <<arp_table, icmp_got_reply, dhcp_offered_ip, net_ip, calls,
                   card, frame, claimed, got>>

(* An offer is asked for at once; without one there is another attempt.    *)
DhcpRequest ==
    /\ call.kind = "offer" /\ dhcp_offered_ip # "none"
    /\ call' = [call EXCEPT !.kind = "ack", !.of = dhcp_offered_ip]
    /\ air' = air \cup {Lease("ack", dhcp_offered_ip)}
    /\ UNCHANGED <<arp_table, notes, dns_txid, net_ip, calls, card, frame,
                   claimed, got>>
DhcpAgain ==
    /\ call.kind = "offer" /\ dhcp_offered_ip = "none"
    /\ IF call.try < Tries
       THEN /\ Discover /\ call' = [call EXCEPT !.try = @ + 1]
            /\ UNCHANGED <<arp_table, icmp_got_reply, calls, card, frame, claimed,
                           got>>
       ELSE Return("none")
    /\ UNCHANGED <<dns_txid, dns_result, net_ip>>
(* The address asked for is taken after a second, acknowledged or not.     *)
DhcpReturns ==
    /\ call.kind = "ack"
    /\ net_ip' = call.of
    /\ Return(call.of)
    /\ UNCHANGED <<dns_txid, dns_result>>

-----------------------------------------------------------------------------
(* The network: a host gets another card and tells so, or asks for the     *)
(* machine; somebody pings it; a frame gets lost.                          *)

Tells(h) ==
    /\ Cardinality({i \in Hosts : card[i] \notin {"gw0", "h0"}}) < MaxMoves
    /\ \E m \in Macs, oper \in {"request", "reply"} :
          /\ m # card[h]
          /\ card' = [card EXCEPT ![h] = m]
          /\ air' = {p \in air : p.kind # "arp" \/ p.from # h}
                    \cup {Arp(oper, h, m)}
    /\ UNCHANGED <<arp_table, notes, dns_txid, net_ip, call, calls, frame,
                   claimed, got>>

Pings(h) ==
    /\ h \in Askers /\ air' = air \cup {Echo("echo", h)}
    /\ UNCHANGED <<arp_table, notes, dns_txid, net_ip, call, calls, card, frame,
                   claimed, got>>

Lose ==
    /\ \E p \in air : air' = air \ {p}
    /\ UNCHANGED <<arp_table, notes, dns_txid, net_ip, call, calls, card, frame,
                   claimed, got>>

NetNext ==
    \/ \E h \in Hosts : net_ping(h) \/ Tells(h) \/ Pings(h)
    \/ \E n \in DOMAIN Records : net_dns_resolve(n)
    \/ \E n \in DOMAIN Dotted : Parse(n)
    \/ dhcp_run
    \/ Deliver
    \/ PingReturns
    \/ ResolveReturns
    \/ ResolveAgain
    \/ DhcpRequest
    \/ DhcpAgain
    \/ DhcpReturns
    \/ Lose

NetSpec == NetInit /\ [][NetNext]_netVars

-----------------------------------------------------------------------------
(* The table has one entry for an address, the card told of last, and      *)
(* lacks one that was told of only when it is full (arp_table_add).        *)
TableTrue ==
    /\ \A h \in Hosts : Cardinality(EntriesOf(h)) <= 1
    /\ \A h \in Hosts :
          arp_lookup(h) = claimed[h]
          \/ (arp_lookup(h) = "none" /\ Len(arp_table) = ARP_TABLE_SIZE)

(* The resolver returns the address of the name it was asked for or none,  *)
(* whatever answers to earlier queries arrive meanwhile (net_dns_resolve). *)
ResolvesRight ==
    got.kind = "dns" /\ got.of \in DOMAIN Records =>
        got.ip \in {"none", Records[got.of]}

(* A ping says that the host is there only when it is, whatever answered   *)
(* before, as long as answers come in time or never (net_ping).            *)
PingTrue ==
    ~Late /\ got.kind = "ping" /\ got.ip # "none" => got.of \in Alive

(* The address taken from DHCP is the one that was asked for, though       *)
(* further offers arrive (dhcp_run).                                       *)
LeaseAsked == got.kind = "ack" => got.ip = got.of /\ net_ip = got.of
=============================================================================
