-------------------------------- MODULE Tls --------------------------------
(* The handshake of user/tls.h with a server that keeps to TLS 1.2, over a *)
(* connection that may break.  Ciphers and hashes are perfect: a sealed    *)
(* record opens under its own key and number only, a hash of a transcript  *)
(* is the transcript, and what PRF derives from two different inputs is    *)
(* different.  The key of the server has 128 or 256 bytes.                 *)
EXTENDS Integers, Sequences

LOCAL INSTANCE SequencesExt

VARIABLES c,          \* the client: where it is, and its TlsCtx
          server,     \* the server: where it is, transcript, secret
          up, down,   \* records on their way to the server and back
          broken      \* the connection has gone down

vars == <<c, server, up, down, broken>>

Hello == "client_hello"
Flight == <<"server_hello", "certificate", "server_hello_done">>
Message(kind, of) == [kind |-> kind, of |-> of]
Plain(kind) == Message(kind, <<>>)

(* tls_prf over the hash of a transcript, under a label.                   *)
tls_prf(master, label, hash) == <<master, label, hash>>

(* A record: its type, its messages, and the key and number it is sealed   *)
(* with, if it is.                                                         *)
Clear(type, body) == [type |-> type, body |-> body, seal |-> <<>>]
gcm_seal(type, body, key, seq) ==
    [type |-> type, body |-> body, seal |-> <<key, seq>>]
gcm_open(r, key, seq) == r.seal = <<key, seq>>

Init ==
    /\ c = [pc |-> "start", log |-> <<>>, master |-> "none", enc |-> 0,
            dec |-> 0, encrypted |-> FALSE, got |-> {}]
    /\ \E bytes \in {128, 256} :
           server = [pc |-> "start", log |-> <<>>, master |-> "none",
                     key |-> bytes]
    /\ up = <<>> /\ down = <<>>
    /\ broken = FALSE

-----------------------------------------------------------------------------
(* The client.  A record that cannot be sent, or received, ends the        *)
(* handshake: tls_connect returns -1.                                      *)
Fails == c' = [c EXCEPT !.pc = "failed"]

tls_send_record(type, body, then) ==
    IF broken THEN Fails /\ UNCHANGED up
    ELSE /\ up' = Append(up, IF c.encrypted
                             THEN gcm_seal(type, body, <<c.master, "client">>, c.enc)
                             ELSE Clear(type, body))
         /\ c' = [then EXCEPT !.enc = IF c.encrypted THEN @ + 1 ELSE @]

(* _hs_append of each message, and the message.                            *)
SendHello ==
    /\ c.pc = "start"
    /\ tls_send_record("handshake", <<Plain(Hello)>>,
           [c EXCEPT !.pc = "flight", !.log = Append(@, Plain(Hello))])
    /\ UNCHANGED <<server, down, broken>>

(* One record of the server: the whole of it is appended to the            *)
(* transcript, the messages in it are looked at one by one.                *)
ServerFlight ==
    /\ c.pc = "flight"
    /\ \/ /\ broken /\ Fails /\ UNCHANGED down
       \/ /\ down # <<>>
          /\ down' = Tail(down)
          /\ LET r    == down[1]
                 got  == c.got \union {r.body[i].kind : i \in DOMAIN r.body}
                 done == "server_hello_done" \in got
             IN  IF \/ r.type # "handshake"
                    \/ done /\ ~({"server_hello", "certificate"} \subseteq got)
                 THEN Fails
                 ELSE c' = [c EXCEPT !.log = @ \o r.body, !.got = got,
                                     !.pc = IF done THEN "exchange" ELSE @]
    /\ UNCHANGED <<server, up, broken>>

(* The secret under the key of the server, and the length of the message   *)
(* in one byte; then both keys from the secret.                            *)
KeyExchange ==
    /\ c.pc = "exchange"
    /\ LET m == Message("client_key_exchange",
                         <<"secret", (server.key + 2) % 256>>) IN
       tls_send_record("handshake", <<m>>,
           [c EXCEPT !.pc = "change", !.log = Append(@, m),
                     !.master = "secret", !.enc = 0, !.dec = 0])
    /\ UNCHANGED <<server, down, broken>>
ChangeCipherSpec ==
    /\ c.pc = "change"
    /\ tls_send_record("change_cipher_spec", <<Plain("ccs")>>,
                       [c EXCEPT !.pc = "finish", !.encrypted = TRUE])
    /\ UNCHANGED <<server, down, broken>>
SendFinished ==
    /\ c.pc = "finish"
    /\ LET m == Message("finished", tls_prf(c.master, "client finished", c.log)) IN
       tls_send_record("handshake", <<m>>,
           [c EXCEPT !.pc = "server_ccs", !.log = Append(@, m)])
    /\ UNCHANGED <<server, down, broken>>

(* tls_recv_record: what is not sealed is too short for a sealed record,   *)
(* once the client has turned to sealed records itself.                    *)
tls_recv_record(type, then) ==
    \/ /\ broken /\ Fails /\ UNCHANGED down
    \/ /\ down # <<>>
       /\ down' = Tail(down)
       /\ IF /\ down[1].type = type
             /\ c.encrypted => gcm_open(down[1], <<c.master, "server">>, c.dec)
          THEN c' = [then EXCEPT !.dec = IF c.encrypted THEN @ + 1 ELSE @]
          ELSE Fails
ServerChange ==
    /\ c.pc = "server_ccs"
    /\ tls_recv_record("change_cipher_spec", [c EXCEPT !.pc = "server_fin"])
    /\ UNCHANGED <<server, up, broken>>

ClientNext == SendHello \/ ServerFlight \/ KeyExchange \/ ChangeCipherSpec
              \/ SendFinished \/ ServerChange

-----------------------------------------------------------------------------
(* The server, as the standard has it.                                     *)
Reply(log) ==
    \E cuts \in SUBSET {1, 2} :       \* records of one message or more
        LET ends == SetToSortSeq(cuts \union {3}, <)
            beg(i) == IF i = 1 THEN 1 ELSE ends[i - 1] + 1
            msgs == [i \in 1 .. 3 |-> Plain(Flight[i])]
        IN  /\ down' = [i \in DOMAIN ends |->
                            Clear("handshake", SubSeq(msgs, beg(i), ends[i]))]
            /\ server' = [server EXCEPT !.pc = "exchange", !.log = log \o msgs]

Server ==
    /\ up # <<>> /\ server.pc \notin {"open", "rejected"}
    /\ up' = Tail(up)
    /\ LET r   == up[1]
           m   == r.body[1]
           log == Append(server.log, m)
       IN  CASE server.pc = "start" -> Reply(log)
             [] server.pc = "exchange" ->
                    /\ server' = IF m.of[2] # server.key + 2
                                 THEN [server EXCEPT !.pc = "rejected"]
                                 ELSE [server EXCEPT !.pc = "change", !.log = log,
                                                     !.master = m.of[1]]
                    /\ UNCHANGED down
             [] server.pc = "change" ->
                    /\ server' = [server EXCEPT !.pc = "finish"]
                    /\ UNCHANGED down
             [] server.pc = "finish" ->
                    IF /\ gcm_open(r, <<server.master, "client">>, 0)
                       /\ m.of = tls_prf(server.master, "client finished",
                                         server.log)
                    THEN /\ server' = [server EXCEPT !.pc = "open", !.log = log]
                         /\ down' = down \o
                               <<Clear("change_cipher_spec", <<Plain("ccs")>>),
                                 gcm_seal("handshake",
                                     <<Message("finished",
                                           tls_prf(server.master,
                                                   "server finished", log))>>,
                                     <<server.master, "server">>, 0)>>
                    ELSE /\ server' = [server EXCEPT !.pc = "rejected"]
                         /\ UNCHANGED down
    /\ UNCHANGED <<c, broken>>

Break == ~broken /\ broken' = TRUE /\ UNCHANGED <<c, server, up, down>>

Next == ClientNext \/ Server \/ Break
Spec == Init /\ [][Next]_vars

-----------------------------------------------------------------------------
(* The server finds that the client saw the messages it saw and derived    *)
(* the same key, however its own messages were put into records, unless    *)
(* its key is too long for the length of the client's message; and what    *)
(* follows the change of the client is sealed, each record under a number  *)
(* of its own.                                                             *)
HandshakeAgrees ==
    /\ server.pc = "rejected" => server.key > 253
    /\ server.pc = "open" => c.master = server.master
    /\ c.encrypted =>
           \A i, j \in DOMAIN up :
               /\ up[i].type = "handshake" /\ up[i].body[1].kind = "finished"
                      => up[i].seal # <<>>
               /\ i # j /\ up[i].seal # <<>> => up[i].seal # up[j].seal

(* user/tls.h:10 and 785: tls_connect gives a connection.  With a server   *)
(* that has accepted the client and a wire that holds, it does not fail.   *)
Connects == c.pc = "failed" => broken
=============================================================================
