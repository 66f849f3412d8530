----------------------------- MODULE SessionStore -----------------------------
(***************************************************************************)
(* The login session: src/src/auth.cpp keeps it in memory and in           *)
(* obn.auth.json, src/src/agent.cpp and src/src/abi_user.cpp change it.    *)
(* A login thread (change_user) and a logout thread call the store, which  *)
(* serialises them with mu_; the process may crash between any two steps   *)
(* of writing the file.  A session is the owner of its access token, the   *)
(* user id of its profile, and whether it holds a refresh token; None      *)
(* stands for an empty field.                                              *)
(***************************************************************************)
EXTENDS Naturals

CONSTANTS
    Users,      \* accounts
    None,       \* an empty string
    MaxCrashes, MaxCalls  \* bounds

ASSUME SessionConstants == None \notin Users

Field == Users \cup {None}
Session == [tok : Field, uid : Field, ref : BOOLEAN]
NoSession == [tok |-> None, uid |-> None, ref |-> FALSE]
logged_in(s) == s.tok # None /\ s.uid # None

VARIABLES
    mem,     \* Store::s_
    file,    \* obn.auth.json; NoSession when there is none
    tmp,     \* obn.auth.json.tmp when it is complete, else NoSession
    mu,      \* mu_: held by the login thread while it writes, or free
    ph,      \* where persist_locked is
    lpc,     \* where the login thread is
    who,     \* the account it logs in
    inline,  \* the payload carries the profile (shape B)
    snap,    \* its snapshot of the session
    up,      \* the process runs
    sOut,    \* a logout came after the last login wrote its tokens
    windows, \* the platform: the file is removed before the rename
    crashes, calls

sessionVars == <<windows, mem, file, tmp, mu, ph, lpc, who, inline, snap, up, sOut, crashes, calls>>

SessionInit ==
    /\ mem = NoSession /\ file \in Session /\ tmp = NoSession
    /\ mu = "free" /\ ph = "none" /\ lpc = "idle" /\ who = None /\ inline = FALSE
    /\ snap = NoSession /\ up = FALSE /\ sOut = FALSE /\ windows \in BOOLEAN /\ crashes = 0 /\ calls = 0

(***************************************************************************)
(* persist_locked: write a sibling file, then rename it over the old one.  *)
(***************************************************************************)
\* Every store operation takes mu_ first.
Locked == mu = "free"

\* It changes the session and starts to write it.
Put(s) == Locked /\ mem' = s /\ mu' = "login" /\ ph' = "write"

\* Where the login thread goes when the operation it was in is over.
AfterOp == CASE lpc = "set"     -> IF inline THEN "inline" ELSE "fetch"
             [] lpc = "profile" -> IF inline THEN "idle" ELSE "beta"
             [] lpc = "nobeta"  -> "idle"
             [] OTHER -> "idle"

Leave == mu' = "free" /\ ph' = "none" /\ lpc' = AfterOp

\* Where files cannot be renamed over, the old one is removed first; the mutant does so
\* everywhere.
ReplaceNot == "remove"
Replace == IF windows THEN "remove" ELSE "rename"

\* A write that fails removes the sibling file; the session stays in memory only.
PersistWrite ==
    /\ up /\ ph = "write"
    /\ \/ /\ tmp' = mem
          /\ ph' = Replace
          /\ UNCHANGED <<mu, lpc>>
       \/ tmp' = NoSession /\ Leave
    /\ UNCHANGED <<windows, mem, file, who, inline, snap, up, sOut, crashes, calls>>

PersistRemove ==
    /\ up /\ ph = "remove"
    /\ file' = NoSession /\ ph' = "rename"
    /\ UNCHANGED <<windows, mem, tmp, mu, lpc, who, inline, snap, up, sOut, crashes, calls>>

\* What the rename leaves: the new file or, when it fails, the old one.
Renamed == {tmp, file}

PersistRename ==
    /\ up /\ ph = "rename"
    /\ file' \in Renamed
    /\ tmp' = NoSession
    /\ Leave
    /\ UNCHANGED <<windows, mem, who, inline, snap, up, sOut, crashes, calls>>

(***************************************************************************)
(* apply_login_info: a snapshot, the new tokens set over it, then the      *)
(* profile, from the payload or fetched from the cloud.                    *)
(***************************************************************************)
change_user(u, b) ==
    /\ up /\ lpc = "idle" /\ calls < MaxCalls
    /\ Locked
    /\ who' = u /\ inline' = b /\ snap' = mem
    /\ lpc' = "tokens"
    /\ calls' = calls + 1
    /\ UNCHANGED <<windows, mem, file, tmp, mu, ph, up, sOut, crashes>>

SetTokens ==
    /\ up /\ lpc = "tokens"
    /\ \E r \in BOOLEAN : Put([snap EXCEPT !.tok = who, !.ref = @ \/ r])
    /\ lpc' = "set" /\ sOut' = FALSE
    /\ UNCHANGED <<windows, file, tmp, who, inline, snap, up, crashes, calls>>

\* get_profile over HTTP; when it fails the session keeps the profile it has.
FetchProfile ==
    /\ up /\ lpc = "fetch"
    /\ lpc' \in {"inline", "idle"}
    /\ UNCHANGED <<windows, mem, file, tmp, mu, ph, who, inline, snap, up, sOut, crashes, calls>>

\* update_profile changes only the profile of whatever session there is by then.  The
\* mutant writes back the session the login had prepared.
ProfiledNot == [tok |-> who, uid |-> who, ref |-> mem.ref]
Profiled == [mem EXCEPT !.uid = who]

UpdateProfile ==
    /\ up /\ lpc = "inline"
    /\ Put(Profiled)
    /\ lpc' = "profile"
    /\ UNCHANGED <<windows, file, tmp, who, inline, snap, up, sOut, crashes, calls>>

UpdateFirmwareBeta ==
    /\ up /\ lpc = "beta"
    /\ Put(mem)
    /\ lpc' = "nobeta"
    /\ UNCHANGED <<windows, file, tmp, who, inline, snap, up, sOut, crashes, calls>>

\* user_logout: the revoke may fail, the session is cleared and its file removed.
user_logout ==
    /\ up /\ Locked /\ calls < MaxCalls
    /\ mem' = NoSession /\ file' = NoSession
    /\ sOut' = (lpc # "tokens")
    /\ calls' = calls + 1
    /\ UNCHANGED <<windows, tmp, mu, ph, lpc, who, inline, snap, up, crashes>>

(***************************************************************************)
(* set_config_dir loads the file, and hydrate_session renews an expired    *)
(* token; the server may answer without a new refresh token.               *)
(***************************************************************************)
Start ==
    /\ ~up
    /\ up' = TRUE /\ mem' = file
    /\ lpc' = IF logged_in(file) /\ file.ref THEN "hydrate" ELSE "idle"
    /\ snap' = file
    /\ UNCHANGED <<windows, file, tmp, mu, ph, who, inline, sOut, crashes, calls>>

Renewed(r) == snap.ref \/ r

Hydrate ==
    /\ up /\ lpc = "hydrate"
    /\ \/ lpc' = "idle" /\ UNCHANGED <<mem, mu, ph>>
       \/ \E r \in BOOLEAN :
             /\ Put([mem EXCEPT !.tok = snap.tok, !.ref = Renewed(r)])
             /\ lpc' = "renewed"
    /\ UNCHANGED <<windows, file, tmp, who, inline, snap, up, sOut, crashes, calls>>

\* The process ends anywhere; what is on disk stays, the sibling file too.
Crash ==
    /\ up /\ crashes < MaxCrashes
    /\ up' = FALSE /\ crashes' = crashes + 1
    /\ mem' = NoSession /\ mu' = "free" /\ ph' = "none" /\ lpc' = "idle"
    /\ UNCHANGED <<windows, file, tmp, who, inline, snap, sOut, calls>>

Login == \E u \in Users, b \in BOOLEAN : change_user(u, b)

SessionNext ==
    \/ PersistWrite \/ PersistRemove \/ PersistRename
    \/ Login \/ SetTokens \/ FetchProfile \/ UpdateProfile \/ UpdateFirmwareBeta
    \/ user_logout \/ Start \/ Hydrate \/ Crash

SessionSpec == SessionInit /\ [][SessionNext]_sessionVars

-----------------------------------------------------------------------------
\* Every copy of the session, the file included, is a whole one.
SessionTypeOK ==
    /\ mem \in Session /\ file \in Session /\ tmp \in Session /\ snap \in Session
    /\ mu \in {"login", "free"} /\ ph \in {"none", "write", "remove", "rename"}
    /\ who \in Field /\ up \in BOOLEAN /\ windows \in BOOLEAN /\ inline \in BOOLEAN

\* The file implements a durable store: whatever the threads do and wherever the
\* process dies, obn.auth.json holds a session that was in memory as a whole (on
\* Windows, or none), and a logout takes it away.
Durable == INSTANCE DurableStore WITH
              Value <- Session, Empty <- NoSession,
              val <- mem, disk <- file, up <- up, atomic <- ~windows
DurableSession == Durable!Spec

\* A logout that comes after the login wrote its tokens wins: neither the profile a
\* login is still fetching nor a token renewed at start-up brings the session back, in
\* memory or after a restart.
LogoutSticks == sOut => ~logged_in(mem) /\ ~logged_in(file)

\* The refresh token is only lost with the whole session: a login or a renewal whose
\* answer has none keeps the one there is.
RefreshKept == [][mem.ref /\ ~mem'.ref => mem' = NoSession]_sessionVars
===============================================================================
