------------------------------ MODULE LanRegistry ------------------------------
(***************************************************************************)
(* What the plugin knows of the printers on the local network: the pairs   *)
(* of address and serial number and the certificate pinned for an address  *)
(* (src/src/lan_tls.cpp), mirrored into the environment and into obn.env   *)
(* for libBambuSource, and the TLS dial that checks them (tls_dial.cpp).   *)
(* A serial number is the printer's own name; the certificate a printer    *)
(* shows carries that name and is signed by Bambu's CA, or is pinned.      *)
(***************************************************************************)
EXTENDS Naturals

CONSTANTS
    Ips, Serials, Unknown,
    Signed,       \* printers whose certificate chains to printer.cer
    MaxLeases, MaxBoots,  \* bounds: addresses handed out anew, processes started,
    MaxWriteFaults        \* writes of obn.env that fail

ASSUME RegistryAssumption == Unknown \notin Serials

NoPairs == [i \in Ips |-> Unknown]

VARIABLES
    booted,     \* the plugin is loaded
    configDir,  \* g_config_dir is set
    hydrated,   \* the once flag of hydrate_env_from_state_file_once
    pairs,      \* g_ip_to_serial
    peers,      \* g_ip_to_peer_cert: the serial whose certificate is pinned
    env,        \* the OBN_LAN_TLS_IP_* variables of the process
    envFile,    \* the pairs in obn.env of the config dir
    replaces,   \* a rename replaces the file: everywhere but on Windows
    dirSearched,\* the search for obn.env finds the config dir's file also before it is set
    written,    \* the last write of obn.env reached it
    skipVerify, \* lan_tls_skip_verify of obn.conf, or its variable
    at,         \* who answers at an address
    conn,       \* the last dial: <<address, who answered>>, or Unknown
    boots, leases, writeFaults

disk == <<envFile, replaces, dirSearched, written, writeFaults>>

registryVars == <<booted, configDir, hydrated, pairs, peers, env, disk, skipVerify, at, conn,
                  boots, leases>>

RegistryInit ==
    /\ booted = FALSE /\ configDir = FALSE /\ hydrated = FALSE
    /\ pairs = NoPairs /\ peers = NoPairs /\ env = NoPairs /\ envFile = NoPairs
    /\ replaces \in BOOLEAN /\ dirSearched \in BOOLEAN /\ written = TRUE /\ skipVerify \in BOOLEAN
    /\ at \in [Ips -> Serials] /\ conn = Unknown /\ boots = 0 /\ leases = 0 /\ writeFaults = 0

\* state_file_search_paths: the config dir's own file is searched only once that
\* directory is set, before that only if it is one of the slicer's usual ones.
Searched == dirSearched \/ configDir

\* What the pairs read from the file add to a map: entries it has stay.
Merged(m) == IF hydrated \/ ~Searched THEN m
             ELSE [i \in Ips |-> IF m[i] = Unknown THEN envFile[i] ELSE m[i]]

\* write_state_file_locked: a temporary file that cannot be opened, written or renamed leaves
\* the old one, or none where the old one had to be removed first.  Nobody hears of it.
EnvWriteFails ==
    /\ writeFaults < MaxWriteFaults /\ writeFaults' = writeFaults + 1
    /\ written' = FALSE
    /\ envFile' \in IF replaces THEN {envFile} ELSE {envFile, NoPairs}

Write(m) ==
    /\ UNCHANGED <<replaces, dirSearched>>
    /\ IF configDir'
       THEN (envFile' = m /\ written' = TRUE /\ UNCHANGED writeFaults) \/ EnvWriteFails
       ELSE UNCHANGED <<envFile, written, writeFaults>>

\* Every entry point reads the file first; the mutant rewrites it from an empty map.
KnownNot == pairs
Known == Merged(pairs)

registry_set_config_dir ==
    /\ booted
    /\ hydrated' = TRUE
    /\ pairs' = Known
    /\ IF configDir
       THEN UNCHANGED <<configDir, env, disk>>
       ELSE /\ configDir' = TRUE
            /\ env' = [i \in Ips |-> IF pairs'[i] = Unknown THEN Merged(env)[i] ELSE pairs'[i]]
            /\ Write(pairs')
    /\ UNCHANGED <<booted, peers, skipVerify, at, conn, boots, leases>>

\* SSDP, connect_printer and a camera URL all register the pair they saw.
Synced(i, s) == [Merged(env) EXCEPT ![i] = s]

registry_put_ip_serial(i, s) ==
    /\ booted
    /\ hydrated' = TRUE
    /\ IF Known[i] = s
       THEN pairs' = Known /\ env' = Merged(env) /\ UNCHANGED <<configDir, disk>>
       ELSE /\ pairs' = [Known EXCEPT ![i] = s]
            /\ env' = Synced(i, s)
            /\ UNCHANGED configDir /\ Write(pairs')
    /\ UNCHANGED <<booted, peers, skipVerify, at, conn, boots, leases>>

\* install_device_cert pins the certificate captured from an address, or unpins it.
registry_set_peer_cert(i, s) ==
    /\ booted /\ peers[i] # s
    /\ hydrated' = TRUE
    /\ pairs' = Known /\ env' = Merged(env)
    /\ peers' = [peers EXCEPT ![i] = s]
    /\ UNCHANGED configDir /\ Write(pairs')
    /\ UNCHANGED <<booted, skipVerify, at, conn, boots, leases>>

\* write_state_file_locked from an entry point that changes no pair.
Rewrite ==
    /\ booted
    /\ hydrated' = TRUE
    /\ pairs' = Known /\ env' = Merged(env)
    /\ UNCHANGED configDir /\ Write(pairs')
    /\ UNCHANGED <<booted, peers, skipVerify, at, conn, boots, leases>>

registry_set_ca_file == Rewrite

\* obn.conf is read before and after the config dir is known, and its flags mirrored.
propagate_cross_so_env == Rewrite

\* configure_lan_ssl_verify: the CA's certificates and the pinned one are trusted.
Trusted(i) == at[i] \in Signed \/ peers[i] = at[i]

\* verify_peer_cn: the certificate must also carry the serial wait_env_serial found.
PeerAccepted(i, want) == Trusted(i) /\ at[i] = want

\* libBambuSource dials with what it finds in the environment; lan_tls_skip_verify asks for
\* no serial and checks nothing.
dial_tls(i) ==
    /\ booted
    /\ skipVerify \/ (env[i] # Unknown /\ PeerAccepted(i, env[i]))
    /\ conn' = <<i, at[i]>>
    /\ UNCHANGED <<booted, configDir, hydrated, pairs, peers, env, disk, skipVerify, at, boots,
                   leases>>

\* No serial, no CA file, another's certificate, or no connection.
DialFails ==
    /\ booted /\ conn # Unknown /\ conn' = Unknown
    /\ UNCHANGED <<booted, configDir, hydrated, pairs, peers, env, disk, skipVerify, at, boots,
                   leases>>

\* The router gives an address to another printer.
NewLease(i, s) ==
    /\ leases < MaxLeases /\ leases' = leases + 1
    /\ at' = [at EXCEPT ![i] = s] /\ conn' = Unknown
    /\ UNCHANGED <<booted, configDir, hydrated, pairs, peers, env, disk, skipVerify, boots>>

Boot ==
    /\ ~booted /\ boots < MaxBoots /\ boots' = boots + 1 /\ booted' = TRUE
    /\ UNCHANGED <<configDir, hydrated, pairs, peers, env, disk, skipVerify, at, conn, leases>>

Unload ==
    /\ booted
    /\ booted' = FALSE /\ configDir' = FALSE /\ hydrated' = FALSE
    /\ pairs' = NoPairs /\ peers' = NoPairs /\ env' = NoPairs /\ conn' = Unknown
    /\ UNCHANGED <<disk, skipVerify, at, boots, leases>>

RegistryNext ==
    \/ registry_set_config_dir \/ registry_set_ca_file \/ propagate_cross_so_env \/ Boot \/ Unload
    \/ DialFails
    \/ \E i \in Ips : dial_tls(i)
    \/ \E i \in Ips, s \in Serials : registry_put_ip_serial(i, s) \/ NewLease(i, s)
    \/ \E i \in Ips, s \in Serials \cup {Unknown} : registry_set_peer_cert(i, s)

-----------------------------------------------------------------------------
\* The pairs of the file are merged in before it is rewritten: no start of the plugin, and no
\* order of its entry points, erases what libBambuSource reads, where the search finds the
\* file, but for a write that fails on Windows.
PairsKept ==
    \A i \in Ips : envFile[i] # Unknown => envFile'[i] # Unknown \/ (~replaces /\ ~written')
PairsSurviveRestart == [][dirSearched => PairsKept]_registryVars

\* The copies agree: what the process shows libBambuSource in its environment is what the
\* plugin knows, and so is the file after any write that succeeded, also after one that did
\* not.
CopiesAgree ==
    \A i \in Ips : /\ pairs[i] # Unknown => env[i] = pairs[i]
                   /\ configDir /\ written => envFile[i] = pairs[i]

\* A dial that is verified ends at the printer the plugin knows for the address, although
\* libBambuSource reads another copy, addresses move between printers, and a certificate
\* pinned for the address may be of the one before.
DialsWhoIsKnown ==
    [][conn' # conn /\ conn' # Unknown /\ ~skipVerify => conn'[2] = pairs[conn'[1]]]_registryVars
===============================================================================
