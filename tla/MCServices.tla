------------------------------ MODULE MCServices ------------------------------
(***************************************************************************)
(* What the plugin does beside the sessions and the transfers: the stores  *)
(* it keeps between two starts of the slicer (login, LAN registry, printer *)
(* keys, obn.conf), the printer's reports, the presets, the handshake of   *)
(* the cloud camera, the calls of the cloud's REST API, the cover cache    *)
(* and the search for the printed model.  They share no state, so a        *)
(* behaviour follows one of them, chosen by the initial state, while the   *)
(* others rest.                                                            *)
(***************************************************************************)
EXTENDS SessionStore, LanRegistry, PrinterKeys, ConfFile, PrinterReports,
        PresetSync, DtlsHandshake, CloudCalls, ModelThumbnail, CoverCache

VARIABLE part

\* bound: the files there are when the search for the model begins, one of them only another
\* plate of the print; one may be written again as anything.
Shelf(m) == IF m = CHOOSE n \in Models \ Inner : TRUE THEN {"plate"} ELSE {"here"}

\* bound: one unusual setting of the registry at a time.
OddSettings == {n \in 1..3 : <<~replaces, ~dirSearched, skipVerify>>[n]}

services == <<part, sessionVars, registryVars, keyVars, confVars, reportVars,
              presetVars, handshakeVars, callVars, thumbVars, coverVars>>

Init ==
    /\ part \in {"session", "registry", "keys", "conf", "reports", "presets", "dtls",
                 "calls", "model", "cache"}
    /\ PresetInit /\ CoverInit
    /\ SessionInit /\ (part # "session" => file = NoSession /\ ~windows)
    /\ RegistryInit /\ Cardinality(OddSettings) <= IF part = "registry" THEN 1 ELSE 0
    /\ (part # "registry" \/ OddSettings # {} =>
            \A i \in Ips : at[i] = CHOOSE s \in Serials : TRUE)
    /\ KeysInit /\ (part # "keys" => pem = NoKey)
    /\ ConfInit /\ (part # "conf" => conf = NoFile)
    /\ ReportsInit /\ (part # "reports" => opts = {} /\ idKind = "cloud")
    /\ HandshakeInit
    /\ (part # "dtls" => digest = <<1, 2>> /\ typed = digest /\ choice.suite = "cbc"
                         /\ choice.ems /\ choice.curve = "x25519")
    /\ CallsInit /\ (ossConfig # BadConfig => ossConfig.token = ossConfig.region)
    /\ (part # "calls" => page = "maker" /\ acct = CHOOSE a \in Accounts : TRUE)
    /\ ThumbInit
    /\ \A m \in Models : sd[m].what \in IF part = "model" THEN Shelf(m) ELSE {"other"}

Only(p) ==
    /\ part = p /\ UNCHANGED part
    /\ IF p = "session" THEN TRUE ELSE UNCHANGED sessionVars
    /\ IF p = "registry" THEN TRUE ELSE UNCHANGED registryVars
    /\ IF p = "keys" THEN TRUE ELSE UNCHANGED keyVars
    /\ IF p = "conf" THEN TRUE ELSE UNCHANGED confVars
    /\ IF p = "reports" THEN TRUE ELSE UNCHANGED reportVars
    /\ IF p = "presets" THEN TRUE ELSE UNCHANGED presetVars
    /\ IF p = "dtls" THEN TRUE ELSE UNCHANGED handshakeVars
    /\ IF p = "calls" THEN TRUE ELSE UNCHANGED callVars
    /\ IF p = "model" THEN TRUE ELSE UNCHANGED thumbVars
    /\ IF p = "cache" THEN TRUE ELSE UNCHANGED coverVars

Next ==
    \/ Only("session") /\ SessionNext
    \/ Only("registry") /\ RegistryNext
    \/ Only("keys") /\ KeysNext
    \/ Only("conf") /\ ConfNext
    \/ Only("reports") /\ ReportsNext
    \/ Only("presets") /\ PresetNext
    \/ Only("dtls") /\ HandshakeNext
    \/ Only("calls") /\ CallsNext
    \/ Only("model") /\ ThumbNext
    \/ Only("cache") /\ CoverNext

(* Every report of the print asks for the model again, and what a fetch reads a title with
   has a time limit; a printer need not answer a listing or give a picture. *)
Spec ==
    /\ Init /\ [][Next]_services
    /\ \A f \in Finders : /\ WF_thumbVars(part = "model" /\ FetchBegins(f))
                          /\ WF_thumbVars(part = "model" /\ TitleStep(f))

\* What the plugin knows of its printers: the copies of the registry agree and survive
\* restarts, a verified dial ends at the printer that is known (lan_tls.cpp, tls_dial.cpp),
\* and the authoritative key of a printer stays and is found (cert_store.cpp).
PeersKnown ==
    /\ []CopiesAgree /\ DialsWhoIsKnown /\ PairsSurviveRestart
    /\ []AuthoritativeStays /\ KnownKeyIsFound
===============================================================================
