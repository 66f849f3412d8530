------------------------------ MODULE PrinterKeys ------------------------------
(***************************************************************************)
(* The public key of one printer (src/src/cert_store.cpp), used to encrypt *)
(* the fields of signed commands.  The LAN thread captures the TLS leaf    *)
(* certificate and caches its key, a publisher looks the key up and falls  *)
(* back to the file, the message thread installs the device certificate    *)
(* the printer sent, which outranks the leaf, and a disconnect forgets the *)
(* printer.  Each of them locks g_pubkey_mu for its single steps only.     *)
(***************************************************************************)
NoKey == "none"

VARIABLES
    key,        \* g_pubkey_map: "leaf", "device" or NoKey
    neg,        \* an entry in g_pubkey_neg_cache that has not expired
    pem,        \* certs/<dev_id>.pem: "leaf" or NoKey
    cap,        \* the capturing thread
    get,        \* the looking-up thread
    answer,     \* what the lookup returned, until the command is encrypted with it
    installed   \* the device certificate came since the printer was last forgotten

keyVars == <<key, neg, pem, cap, get, answer, installed>>

KeysInit ==
    /\ key = NoKey /\ neg = FALSE /\ pem \in {"leaf", NoKey}
    /\ cap = "idle" /\ get = "idle" /\ answer = "unread" /\ installed = FALSE

\* set_printer_pub_key keeps the key there is.
Emplaced == IF key = NoKey THEN "leaf" ELSE key

set_printer_pub_key == key' = Emplaced /\ neg' = FALSE

\* capture_peer_cert_pem: the handshake may fail, or the file cannot be written; install_
\* device_cert primes the cache from a file that is already there.
CaptureBegin ==
    /\ cap = "idle" /\ cap' = "set" /\ pem' = "leaf"
    /\ UNCHANGED <<key, neg, get, answer, installed>>

CaptureSet ==
    /\ cap = "set" /\ cap' = "idle"
    /\ set_printer_pub_key
    /\ UNCHANGED <<pem, get, answer, installed>>

\* set_printer_pub_key_from_cert_pem
InstallDeviceCert ==
    /\ key' = "device" /\ neg' = FALSE /\ installed' = TRUE
    /\ UNCHANGED <<pem, cap, get, answer>>

\* get_printer_pub_key: the cached key.
Cached == key

GetBegin ==
    /\ get = "idle" /\ answer = "unread"
    /\ IF Cached # NoKey \/ neg
       THEN answer' = Cached /\ UNCHANGED get
       ELSE get' = (IF pem = NoKey THEN "miss" ELSE "prime") /\ UNCHANGED answer
    /\ UNCHANGED <<key, neg, pem, cap, installed>>

\* prime_pub_key_from_cert_file: a key cached meanwhile is enough; else the file is read
\* without the lock.
GetPrime ==
    /\ get = "prime"
    /\ get' = IF key # NoKey THEN "found" ELSE "read"
    /\ UNCHANGED <<key, neg, pem, cap, answer, installed>>

GetRead ==
    /\ get = "read"
    /\ \/ get' = "found" /\ set_printer_pub_key
       \/ get' = "miss" /\ UNCHANGED <<key, neg>>   \* the file is not a certificate yet
    /\ UNCHANGED <<pem, cap, answer, installed>>

GetFound ==
    /\ get = "found"
    /\ neg' = FALSE
    /\ IF key # NoKey THEN get' = "idle" /\ answer' = key
                     ELSE get' = "miss" /\ UNCHANGED answer
    /\ UNCHANGED <<key, pem, cap, installed>>

GetMiss ==
    /\ get = "miss" /\ get' = "idle"
    /\ neg' = TRUE /\ answer' = NoKey
    /\ UNCHANGED <<key, pem, cap, installed>>

\* The publisher encrypts the command, or sends it without the fields.
UseAnswer ==
    /\ answer # "unread" /\ answer' = "unread"
    /\ UNCHANGED <<key, neg, pem, cap, get, installed>>

NegExpires ==
    /\ neg /\ neg' = FALSE
    /\ UNCHANGED <<key, pem, cap, get, answer, installed>>

forget_printer ==
    /\ key' = NoKey /\ neg' = FALSE /\ installed' = FALSE
    /\ UNCHANGED <<pem, cap, get, answer>>

KeysNext ==
    \/ CaptureBegin \/ CaptureSet \/ InstallDeviceCert
    \/ GetBegin \/ GetPrime \/ GetRead \/ GetFound \/ GetMiss
    \/ UseAnswer \/ NegExpires \/ forget_printer

-----------------------------------------------------------------------------
\* The device certificate is authoritative: neither a capture nor a lookup that had
\* begun before it came puts the leaf's key back.
AuthoritativeStays == installed => key = "device"

\* A lookup that begins when a key is known returns it, although a slower lookup has
\* remembered a miss after the key came.
KnownKeyIsFound ==
    [][get = "idle" /\ get' = "idle" /\ answer = "unread" /\ answer' # "unread" =>
         answer' = key]_keyVars
===============================================================================
