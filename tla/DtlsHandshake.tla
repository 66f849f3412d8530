----------------------------- MODULE DtlsHandshake -----------------------------
(***************************************************************************)
(* The DTLS-PSK handshake and the record layer of the cloud camera         *)
(* (src/src/camera/tutk/IotcClient.cpp): hellos that are repeated under    *)
(* one datagram counter, one flight of the printer, the client's keys and  *)
(* Finished, the printer's ticket and Finished, then application data.     *)
(* The network may lose, repeat or swap datagrams, or hold them back past  *)
(* a timeout.  Cryptography is symbolic: keys are equal when all that goes *)
(* into them is.                                                           *)
(***************************************************************************)
EXTENDS Naturals, Sequences

CONSTANTS
    MaxNetFaults,   \* bound: datagrams lost, repeated, swapped or late
    MaxAppData      \* bound: application records

(* Every session is followed up to where its datagram counter would wrap. *)
ASSUME HandshakeAssumption == MaxAppData \in Nat /\ MaxAppData <= 65533

VARIABLES
    digest, typed,   \* SHA-256 of the printer's password, and of the one in the URL
    choice,          \* what the printer will choose: suite, EMS, the curve of its key
    hsPc, hellos,    \* the client, and the hellos it waited for
    transcript, dtls,    \* handshake messages, and the session: keys, tx_seq, pkt_seq
    sealed,          \* records the client encrypted
    peer,            \* the printer: counters seen, transcript, keys, what it ignored
    toPeer, toHost, netFaults, noisy

handshakeVars == <<digest, typed, choice, hsPc, hellos, transcript, dtls, sealed, peer,
                   toPeer, toHost, netFaults, noisy>>

Setting == <<digest, typed, choice>>

(* A digest is a sequence of bytes; the second one has a zero in it. *)
Digests == {<<1, 2>>, <<3, 0, 4>>}
ServerChoices == [suite : {"cbc", "chacha", "other"}, ems : BOOLEAN, curve : {"x25519"}]
           \cup {[suite |-> "cbc", ems |-> TRUE, curve |-> "p256"]}

NoKeys == [suite |-> "none"]

HandshakeInit ==
    /\ digest \in Digests /\ typed \in {digest, <<9>>} /\ choice \in ServerChoices
    /\ hsPc = "idle" /\ hellos = 0 /\ transcript = <<>>
    /\ dtls = [keys |-> NoKeys, tx |-> 0, pkt |-> 0] /\ sealed = {}
    /\ peer = [seen |-> {}, transcript |-> <<>>, keys |-> NoKeys, ignored |-> FALSE]
    /\ toPeer = <<>> /\ toHost = <<>> /\ netFaults = 0 /\ noisy = FALSE
-------------------------------------------------------------------------------
(* Keys. *)

(* The printer keeps the digest as a C string, so what follows a zero byte
   is zero on both sides. *)
derive_psk(d) == [i \in DOMAIN d |-> IF \E j \in 1..i : d[j] = 0 THEN 0 ELSE d[i]]
PrinterPsk == [i \in DOMAIN digest |-> IF \E j \in 1..i : digest[j] = 0 THEN 0 ELSE digest[i]]

tls12_prf(secret, label, seed) == [secret |-> secret, label |-> label, seed |-> seed]

(* With EMS the master secret covers the transcript, otherwise the randoms.
   The suite gives the hash of the PRF. *)
derive_session_keys(suite, ems, psk, t) ==
    [suite |-> suite,
     master |-> IF ems THEN tls12_prf(psk, "extended master secret", t)
                ELSE tls12_prf(psk, "master secret", <<"randoms">>)]

finished_verify_data(k, label, t) == tls12_prf(k, label, t)
-------------------------------------------------------------------------------
(* Datagrams. *)

Flight == <<"server_hello", "server_key_exchange", "server_hello_done">>

(* send_dtls_packet, under the counter of the datagram. *)
Datagram(n, kind, body) == [n |-> n, kind |-> kind, body |-> body]

(* Every datagram but a repeated hello takes the next counter, of 16 bits. *)
Counter(n) == (n + 1) % 65536

(* Epoch and number of a record; they go into its nonce or MAC, and its header. *)
build_nonce(epoch, seq) == <<epoch, seq>>

(* dtls_encrypt_record, and what it takes to read it. *)
encrypt_record(k, tx, what) == [keys |-> k, nonce |-> build_nonce(1, tx), what |-> what]
decrypt_record(rec, k) == rec.keys = k

Late == toPeer # <<>> \/ toHost # <<>>
MayFault == netFaults < MaxNetFaults
-------------------------------------------------------------------------------
(* dtls_psk_handshake *)

build_client_hello ==
    /\ hsPc = "idle" /\ hsPc' = "hello" /\ hellos' = 1
    /\ transcript' = <<"client_hello">>
    /\ dtls' = [dtls EXCEPT !.pkt = Counter(0)]
    /\ toPeer' = <<Datagram(0, "hello", 0), Datagram(0, "hello", 0)>>
    /\ UNCHANGED <<Setting, sealed, peer, toHost, netFaults, noisy>>

(* A second passes; the hello is repeated twice under its first counter. *)
RepeatHello ==
    /\ hsPc = "hello" /\ (Late => MayFault)
    /\ netFaults' = netFaults + (IF Late THEN 1 ELSE 0)
    /\ IF hellos < 3
       THEN /\ hellos' = hellos + 1 /\ UNCHANGED hsPc
            /\ toPeer' = Append(toPeer, Datagram(0, "hello", 0))
       ELSE hsPc' = "failed" /\ UNCHANGED <<hellos, toPeer>>
    /\ UNCHANGED <<Setting, transcript, dtls, sealed, peer, toHost, noisy>>

(* recv_dtls_packet: what is not DTLS is skipped, a relay's ping answered. *)
Skips(d) == d.kind = "noise"

SkipNoise ==
    /\ hsPc \in {"hello", "finish"} /\ toHost # <<>> /\ Skips(Head(toHost))
    /\ toHost' = Tail(toHost)
    /\ UNCHANGED <<Setting, hsPc, hellos, transcript, dtls, sealed, peer, toPeer, netFaults, noisy>>

(* parse_server_hello_flight takes the suites the client offered and a key
   of its curve. *)
parse_server_hello_flight(d) ==
    /\ d.kind = "flight"
    /\ d.body.suite \in {"cbc", "chacha"} /\ d.body.curve = "x25519"

TakeFlight ==
    /\ hsPc = "hello" /\ toHost # <<>> /\ ~Skips(Head(toHost))
    /\ toHost' = Tail(toHost)
    /\ LET d == Head(toHost)
           t == transcript \o Flight \o <<"client_key_exchange">>
           k == derive_session_keys(d.body.suite, d.body.ems, derive_psk(typed), t)
           fin == finished_verify_data(k, "client finished", t)
       IN  IF parse_server_hello_flight(d)
           THEN /\ hsPc' = "finish"
                /\ transcript' = t \o <<"client_finished">>
                /\ sealed' = {encrypt_record(k, 0, fin)}
                /\ toPeer' = Append(toPeer, Datagram(dtls.pkt, "keys", encrypt_record(k, 0, fin)))
                /\ dtls' = [keys |-> k, tx |-> 1, pkt |-> Counter(dtls.pkt)]
           ELSE hsPc' = "failed" /\ UNCHANGED <<transcript, sealed, toPeer, dtls>>
    /\ UNCHANGED <<Setting, hellos, peer, netFaults, noisy>>

(* recv_server_finished: handshake records in the clear go into the
   transcript; the first encrypted one must verify over it. *)
VerifiesNot(rec, k, t) == decrypt_record(rec, k)
Verifies(rec, k, t) == /\ decrypt_record(rec, k)
                       /\ rec.what = finished_verify_data(k, "server finished", t)

AfterHandshake == 1

recv_server_finished ==
    /\ hsPc = "finish" /\ toHost # <<>> /\ ~Skips(Head(toHost))
    /\ toHost' = Tail(toHost)
    /\ LET d == Head(toHost) IN
       CASE d.kind = "flight" -> transcript' = transcript \o Flight /\ UNCHANGED <<hsPc, dtls>>
         [] d.kind = "ticket" ->
              transcript' = Append(transcript, "ticket") /\ UNCHANGED <<hsPc, dtls>>
         [] d.kind = "alert" -> hsPc' = "failed" /\ UNCHANGED <<transcript, dtls>>
         [] OTHER -> /\ IF Verifies(d.body, dtls.keys, transcript)
                        THEN hsPc' = "done" /\ dtls' = [dtls EXCEPT !.tx = AfterHandshake]
                        ELSE hsPc' = "failed" /\ UNCHANGED dtls
                     /\ UNCHANGED transcript
    /\ UNCHANGED <<Setting, hellos, sealed, peer, toPeer, netFaults, noisy>>

(* Four seconds pass. *)
FinishedTimeout ==
    /\ hsPc = "finish" /\ (Late => MayFault)
    /\ netFaults' = netFaults + (IF Late THEN 1 ELSE 0)
    /\ hsPc' = "failed"
    /\ UNCHANGED <<Setting, hellos, transcript, dtls, sealed, peer, toPeer, toHost, noisy>>

iotc_send_app_data(a) ==
    /\ hsPc = "done" /\ dtls.tx <= MaxAppData
    /\ LET what == [secret |-> dtls.keys, label |-> "data", seed |-> <<a>>]
           rec == encrypt_record(dtls.keys, dtls.tx, what)
       IN
       /\ sealed' = sealed \cup {rec}
       /\ toPeer' = Append(toPeer, Datagram(dtls.pkt, "data", rec))
    /\ dtls' = [dtls EXCEPT !.tx = @ + 1, !.pkt = Counter(@)]
    /\ UNCHANGED <<Setting, hsPc, hellos, transcript, peer, toHost, netFaults, noisy>>
-------------------------------------------------------------------------------
(* The printer, and the network. *)

PrinterAnswers(d) ==
    LET t == peer.transcript \o <<"client_key_exchange">>
        k == derive_session_keys(choice.suite, choice.ems, PrinterPsk, t)
        full == Append(t, "client_finished")
        good == d.body = encrypt_record(k, 0, finished_verify_data(k, "client finished", t))
        fin(over) == Datagram(0, "finished",
                              encrypt_record(k, 0, finished_verify_data(k, "server finished", over)))
    IN  CASE d.kind = "hello" ->
               /\ peer' = [peer EXCEPT !.seen = @ \cup {<<d.n, d.kind>>},
                                       !.transcript = <<"client_hello">> \o Flight]
               /\ toHost' = Append(toHost, Datagram(0, "flight", choice))
          [] d.kind = "keys" /\ good ->
               \E end \in {full, Append(full, "ticket")} :
               /\ peer' = [peer EXCEPT !.seen = @ \cup {<<d.n, d.kind>>}, !.keys = k,
                                       !.transcript = end]
               /\ toHost' = toHost \o (IF end = full THEN <<>> ELSE <<Datagram(0, "ticket", 0)>>)
                                  \o <<fin(end)>>
          [] d.kind = "keys" /\ ~good ->
               /\ peer' = [peer EXCEPT !.seen = @ \cup {<<d.n, d.kind>>}]
               /\ toHost' = Append(toHost, Datagram(0, "alert", 0))
          [] OTHER ->
               /\ peer' = [peer EXCEPT !.seen = @ \cup {<<d.n, d.kind>>}]
               /\ UNCHANGED toHost

(* A counter it has seen is a retransmission, and is dropped. *)
PrinterTakes ==
    /\ toPeer # <<>> /\ toPeer' = Tail(toPeer)
    /\ LET d == Head(toPeer)
           old == {s \in peer.seen : s[1] = d.n}
       IN  IF old = {} THEN PrinterAnswers(d)
           ELSE /\ peer' = [peer EXCEPT !.ignored = @ \/ <<d.n, d.kind>> \notin old]
                /\ UNCHANGED toHost
    /\ UNCHANGED <<Setting, hsPc, hellos, transcript, dtls, sealed, netFaults, noisy>>

(* A relay's ping, or an echo of the punching. *)
Noise ==
    /\ ~noisy /\ noisy' = TRUE /\ hsPc \in {"hello", "finish"}
    /\ toHost' = Append(toHost, Datagram(0, "noise", 0))
    /\ UNCHANGED <<Setting, hsPc, hellos, transcript, dtls, sealed, peer, toPeer, netFaults>>

Faulty(q) == {Tail(q), <<Head(q)>> \o q}
             \cup (IF Len(q) > 1 THEN {<<q[2], q[1]>> \o SubSeq(q, 3, Len(q))} ELSE {})

NetFault ==
    /\ MayFault /\ netFaults' = netFaults + 1
    /\ \/ toPeer # <<>> /\ toPeer' \in Faulty(toPeer) /\ UNCHANGED toHost
       \/ toHost # <<>> /\ toHost' \in Faulty(toHost) /\ UNCHANGED toPeer
    /\ UNCHANGED <<Setting, hsPc, hellos, transcript, dtls, sealed, peer, noisy>>

HandshakeNext ==
    \/ build_client_hello \/ RepeatHello \/ SkipNoise \/ TakeFlight
    \/ recv_server_finished \/ FinishedTimeout
    \/ \E a \in {1, 2} : iotc_send_app_data(a)
    \/ PrinterTakes \/ Noise \/ NetFault
-------------------------------------------------------------------------------
(* A handshake that succeeds means that both sides have the same keys, from
   the same password, and saw the same messages, whatever the network did. *)
HandshakeAgrees ==
    hsPc = "done" => /\ peer.keys = dtls.keys /\ peer.transcript = transcript
                     /\ typed = digest

(* It fails only when the network is at fault, the password is wrong or the
   printer chose what the client cannot do: not for a hello that came twice,
   a ping, a ticket or a digest with a zero byte. *)
FailsForAReason ==
    hsPc = "failed" => netFaults > 0 \/ typed # digest
                       \/ choice.suite = "other" \/ choice.curve # "x25519"

(* No two records are encrypted under one number of one key. *)
NumberedOnce == \A a, b \in sealed : a.keys = b.keys /\ a.nonce = b.nonce => a = b

(* The printer drops only copies: a repeated hello has the counter of the
   first, everything else one of its own until the counter wraps. *)
OnlyCopiesDropped == ~peer.ignored

\* A handshake that succeeds is agreed on, one that fails does so for a reason, and no
\* number or counter is used twice.
HandshakeSound == HandshakeAgrees /\ FailsForAReason /\ NumberedOnce /\ OnlyCopiesDropped
================================================================================
