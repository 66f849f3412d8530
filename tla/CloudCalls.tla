------------------------------ MODULE CloudCalls ------------------------------
(***************************************************************************)
(* The calls the slicer makes of the cloud's REST API: the device list,    *)
(* the task history, the firmware catalogue, the cover and the record of a *)
(* print, MakerWorld's preference, recommendations and ratings, and the    *)
(* pictures of a rating in an object store (src/src/abi_http.cpp,          *)
(* abi_makerworld.cpp, oss_sign.cpp).  Two threads of the slicer call; a   *)
(* call reads the login once and often the headers a second time, and the  *)
(* user may log out or change in between.  Bodies are what Studio does     *)
(* with them; signatures are equal when all that is signed is, and the     *)
(* name of a picture is plain or one that a URI writes with percent signs. *)
(***************************************************************************)
EXTENDS Naturals, FiniteSets

CONSTANTS
    Accounts, Nobody,   \* who may be logged in
    Printers,           \* devices bound to the first account
    CallThreads,
    MaxCloudCalls,      \* bound: calls made
    MaxMeanwhile        \* bound: changes of the login, the session, the printer's data

VARIABLES
    acct, optedIn,      \* the login, and the accounts with firmware_beta_open
    blockCloud,         \* obn.conf
    desired, link,      \* CloudSession's subscriptions, and whether it exists
    codes,              \* lan_access_code_by_dev_: devices with a code
    heard, covers,      \* firmware data over MQTT; synthetic_subtasks_ with a url
    req,                \* thread -> its call
    out,                \* the last answer given to Studio
    askedIds,           \* task ids sent to the cloud
    ossConfig, path,    \* what Studio keeps: credentials, and the picture's path
    bucket, rating,     \* the object store, and the images of the stored rating
    page,               \* the page of Studio that calls
    cloudCalls, meanwhile

callVars == <<acct, optedIn, blockCloud, desired, link, codes, heard, covers, req, out,
              askedIds, ossConfig, path, bucket, rating, page, cloudCalls, meanwhile>>

account == <<acct, optedIn, blockCloud, page>>
follow == <<desired, link, codes>>
local_ == <<heard, covers>>
oss == <<ossConfig, path, bucket, rating>>

TaskIds == {"0", "lan-1", "lan-2", "77"}
Synthetic == {"lan-1", "lan-2"}

(* What a config says and leaves out; the bad ones do not parse, or their endpoint names no
   host. *)
Configs == [store : {"aws", "aliyun"}, token : BOOLEAN, region : BOOLEAN, bucket : BOOLEAN]
BadConfig == [store |-> "none"]

(* A picture on the user's disk, and the key of its object. *)
Pictures == {"file"} \X {"plain", "marked"}
Key(picture) == <<"rating", picture[2]>>
Keys == {Key(picture) : picture \in Pictures}

Idle == [op |-> "none"]
Nothing == [op |-> "none"]
(* The device pages, the running print, MakerWorld's pages, rating a print. *)
Calls(p) == CASE p = "devices" -> {"list", "firmware", "tasks", "region"}
              [] p = "print" -> {"cover", "task"}
              [] p = "maker" -> {"preference", "forYou", "rating"}
              [] p = "rate" -> {"config", "picture", "rate"}
IdsOf(p) == IF p = "print" THEN TaskIds ELSE {"77"}

CallsInit ==
    /\ page \in {"devices", "print", "maker", "rate"}
    /\ acct \in Accounts /\ optedIn = {CHOOSE a \in Accounts : TRUE}
    /\ blockCloud \in BOOLEAN
    /\ desired = {} /\ link \in BOOLEAN /\ codes = {}
    /\ (page # "devices" => link /\ ~blockCloud)
    /\ heard = FALSE /\ covers = {"lan-1"}
    /\ req = [t \in CallThreads |-> Idle] /\ out = Nothing /\ askedIds = {}
    /\ ossConfig \in IF page = "rate" THEN Configs \cup {BadConfig} ELSE {BadConfig}
    /\ path \in Pictures /\ (page # "rate" => path = <<"file", "plain">>)
    /\ bucket = {} /\ rating = {}
    /\ cloudCalls = 0 /\ meanwhile = 0
-------------------------------------------------------------------------------
(* What is answered without the cloud; "ask" if it must be asked. *)

(* get_subtask_info and get_subtask: an id of our own never leaves. *)
IsLocalId(id) == id = "0" \/ id \in Synthetic

lookup_synthetic_subtask(id) == id \in covers

FromCover(id) == IF id \in Synthetic /\ lookup_synthetic_subtask(id) THEN "localCover"
                 ELSE IF IsLocalId(id) \/ acct = Nobody THEN "empty" ELSE "ask"
FromTask(id) == IF IsLocalId(id) \/ acct = Nobody THEN "echo" ELSE "ask"

(* get_printer_firmware: what the printer said comes first. *)
has_firmware_data == heard
FromPrinter == IF has_firmware_data THEN "printers" ELSE IF acct = Nobody THEN "empty" ELSE "ask"

(* get_user_tasks, post_device_region *)
FromHistory == IF blockCloud THEN "empty" ELSE IF acct = Nobody THEN "failed" ELSE "ask"
FromRegion == IF blockCloud THEN "empty" ELSE "ask"

(* get_mw_user_preference, get_mw_user_4ulist: a body that Studio can parse. *)
FromStub == IF acct = Nobody THEN "stub" ELSE "ask"
LoggedIn == IF acct = Nobody THEN "failed" ELSE "ask"

(* parse_config: at the top level or under "data". *)
parse_config(c) == c.store # "none"

(* The credentials must parse, the path name a file, and the endpoint a host. *)
FromOss == IF parse_config(ossConfig) /\ path \in Pictures THEN "ask" ELSE "badInput"

Early(op, id) ==
    CASE op = "list" -> LoggedIn
      [] op = "tasks" -> FromHistory
      [] op = "firmware" -> FromPrinter
      [] op = "cover" -> FromCover(id)
      [] op = "task" -> FromTask(id)
      [] op \in {"preference", "forYou"} -> FromStub
      [] op = "region" -> FromRegion
      [] op = "picture" -> FromOss
      [] OTHER -> LoggedIn

(* The call, up to its first request: the login is read once, and a call for credentials
   first clears those that Studio has. *)
Call(t, op, id) ==
    /\ req[t] = Idle /\ cloudCalls < MaxCloudCalls /\ cloudCalls' = cloudCalls + 1
    /\ IF Early(op, id) = "ask"
       THEN /\ req' = [req EXCEPT ![t] = [op |-> op, id |-> id, as |-> acct,
                                             cfg |-> ossConfig, pic |-> path,
                                             ph |-> "first"]]
            /\ UNCHANGED out
       ELSE /\ out' = [op |-> op, id |-> id, body |-> Early(op, id), as |-> acct]
            /\ UNCHANGED req
    /\ ossConfig' = IF op = "config" THEN BadConfig ELSE ossConfig
    /\ UNCHANGED <<account, follow, local_, askedIds, path, bucket, rating, meanwhile>>
-------------------------------------------------------------------------------
(* A picture's PUT, and the store that checks it. *)

Date == "today"

aws_sigv4_signing_key(secret, date, region) == <<secret, date, region, "s3", "aws4_request">>

(* The token is signed when there is one; the region has a default; the path is signed as it
   is, not as a URI writes it. *)
aws_sigv4_put_headers(c, key) ==
    LET region == IF c.region THEN "r1" ELSE "us-east-1"
        headers == {"host", "sha256", "date"} \cup (IF c.token THEN {"token"} ELSE {})
    IN  [signature |-> <<aws_sigv4_signing_key("secret", Date, region), key, headers>>,
         sent |-> headers]

(* The resource is the bucket, be it empty, and the key. *)
aliyun_oss_put_headers(c, key) ==
    LET extra == IF c.token THEN {"token"} ELSE {} IN
    [signature |-> <<"secret", Date, extra, IF c.bucket THEN "b1" ELSE "", key>>,
     sent |-> {"date", "type"} \cup extra]

put_headers(c, key) == IF c.store = "aliyun" THEN aliyun_oss_put_headers(c, key)
                       ELSE aws_sigv4_put_headers(c, key)

UriEncode(key) == IF key[2] = "plain" THEN key ELSE <<"percent", key[2]>>

(* The store signs what it received with its own knowledge of the secret,
   its region and its bucket, and wants the token the secret came with; S3
   signs the encoded path. *)
StoreAccepts(c, key, h) ==
    /\ c.token => "token" \in h.sent
    /\ h.signature =
         IF c.store = "aliyun"
         THEN <<"secret", Date, h.sent \cap {"token"}, "b1", key>>
         ELSE <<<<"secret", Date, IF c.region THEN "r1" ELSE "us-east-1", "s3", "aws4_request">>,
                UriEncode(key), h.sent>>

Accepted(r) == StoreAccepts(r.cfg, Key(r.pic), put_headers(r.cfg, Key(r.pic)))
-------------------------------------------------------------------------------
(* cloud_api_http_headers reads the login again; the list, the firmware and
   the credentials use the first reading. *)
HeaderAccount(t) == IF req[t].op \in {"list", "firmware", "config"} THEN req[t].as ELSE acct

(* What comes back: a good body, JSON that lacks what is looked for, no JSON
   or no body in a good answer, a refusal, or a transport error.  Without the
   login, and for a wrong signature, it is no good answer. *)
GoodAnswer == {"body", "lacking", "junk", "bare"}
Replies(t) ==
    IF CASE req[t].op = "picture" -> Accepted(req[t])
         [] req[t].op = "region" -> TRUE
         [] OTHER -> HeaderAccount(t) # Nobody
    THEN GoodAnswer \cup {"refused", "error"} ELSE {"refused", "error"}

Owned(a) == IF a = (CHOOSE x \in Accounts : TRUE) THEN Printers ELSE {}

Finish(t, body) ==
    /\ req' = [req EXCEPT ![t] = Idle]
    /\ out' = [op |-> req[t].op, id |-> req[t].id, body |-> body, as |-> req[t].as]

(* fetch_user_print_info: a list without devices is no list. *)
Fetched(t, reply) == reply = "body" /\ Owned(req[t].as) # {}

(* remap_bind_payload returns every id it puts into the list. *)
remap_bind_payload(t) == Owned(req[t].as)

(* Without a CloudSession the subscriptions are dropped, whatever order the slicer's calls
   come in. *)
cloud_add_subscribe(ids) == desired' = IF link THEN desired \cup ids ELSE desired

(* get_user_print_info: /user/print, then /user/bind; both empty is a success
   with no devices.  Every device becomes a subscription, and its access
   code is remembered. *)
get_user_print_info(t, reply) ==
    /\ req[t].op = "list"
    /\ IF Fetched(t, reply)
       THEN /\ Finish(t, "devices")
            /\ IF blockCloud THEN UNCHANGED desired
               ELSE cloud_add_subscribe(remap_bind_payload(t))
            /\ codes' = codes \cup Owned(req[t].as)
       ELSE /\ UNCHANGED <<desired, codes>>
            /\ IF req[t].ph = "first"
               THEN req' = [req EXCEPT ![t].ph = "second"] /\ UNCHANGED out
               ELSE Finish(t, IF reply \in GoodAnswer THEN "noDevices" ELSE "failed")
    /\ UNCHANGED <<account, link, local_, askedIds, oss, cloudCalls, meanwhile>>

(* emit_filtered_firmware, emit_filtered_ams: no beta for who did not ask. *)
WantsBetaNow(t) == acct \in optedIn
WantsBeta(t) == req[t].as \in optedIn

get_printer_firmware(t, reply) ==
    /\ req[t].op = "firmware"
    /\ Finish(t, IF reply # "body" THEN "empty"
                 ELSE IF WantsBeta(t) THEN "withBeta" ELSE "releases")
    /\ UNCHANGED <<account, follow, local_, askedIds, oss, cloudCalls, meanwhile>>

(* Forwarded as it is, or nothing. *)
get_subtask_info(t, reply) ==
    /\ req[t].op = "cover"
    /\ askedIds' = askedIds \cup {req[t].id}
    /\ Finish(t, IF reply \in GoodAnswer THEN "clouds" ELSE "empty")
    /\ UNCHANGED <<account, follow, local_, oss, cloudCalls, meanwhile>>

(* The fields of the record, or the task as it was. *)
get_subtask(t, reply) ==
    /\ req[t].op = "task"
    /\ askedIds' = askedIds \cup {req[t].id}
    /\ Finish(t, IF reply \in {"body", "lacking"} THEN "clouds" ELSE "echo")
    /\ UNCHANGED <<account, follow, local_, oss, cloudCalls, meanwhile>>

(* A preference without a numeric recommendStatus ends Studio, so it is not
   passed on; the recommendations need only a body. *)
PassedOn(t, reply) == \/ reply = "body"
                      \/ req[t].op = "forYou" /\ reply \in GoodAnswer \ {"bare"}

get_mw_user(t, reply) ==
    /\ req[t].op \in {"preference", "forYou"}
    /\ Finish(t, IF ~PassedOn(t, reply) THEN "stub"
                 ELSE IF reply = "body" THEN "clouds" ELSE "unchecked")
    /\ UNCHANGED <<account, follow, local_, askedIds, oss, cloudCalls, meanwhile>>

(* The body as it is, or an error. *)
Forwarded(t, op, reply) ==
    /\ req[t].op = op
    /\ Finish(t, IF reply \in GoodAnswer THEN "clouds" ELSE "failed")
    /\ UNCHANGED <<account, follow, local_, askedIds, oss, cloudCalls, meanwhile>>

get_user_tasks(t, reply) == Forwarded(t, "tasks", reply)
get_model_mall_rating(t, reply) == Forwarded(t, "rating", reply)
post_device_region(t, reply) == Forwarded(t, "region", reply)

(* get_oss_config: two places to ask. *)
get_oss_config(t, reply) ==
    /\ req[t].op = "config"
    /\ IF reply \in GoodAnswer \ {"bare"}
       THEN /\ Finish(t, "clouds")
            /\ ossConfig' \in IF reply = "body" THEN Configs ELSE {BadConfig}
       ELSE /\ UNCHANGED ossConfig
            /\ IF req[t].ph = "first"
               THEN req' = [req EXCEPT ![t].ph = "second"] /\ UNCHANGED out
               ELSE Finish(t, "failed")
    /\ UNCHANGED <<account, follow, local_, askedIds, path, bucket, rating, cloudCalls, meanwhile>>

(* put_rating_picture_oss: the path becomes the object's key once the store
   has said that it has it.  The object may be stored and the answer lost. *)
PathAfter(t, stored) == IF stored THEN Key(req[t].pic) ELSE path

put_rating_picture_oss(t, reply) ==
    LET stored == reply \in GoodAnswer
        key == Key(req[t].pic)
    IN  /\ req[t].op = "picture"
        /\ Finish(t, IF stored THEN "stored" ELSE "failed")
        /\ path' = PathAfter(t, stored)
        /\ bucket' \in IF stored THEN {bucket \cup {key}}
                       ELSE IF Accepted(req[t]) /\ reply = "error" THEN {bucket, bucket \cup {key}}
                       ELSE {bucket}
        /\ UNCHANGED <<account, follow, local_, askedIds, ossConfig, rating, cloudCalls, meanwhile>>

(* put_model_mall_rating, with the picture Studio has a key of. *)
put_model_mall_rating(t, reply) ==
    /\ req[t].op = "rate"
    /\ Finish(t, IF reply \in GoodAnswer THEN "clouds" ELSE "failed")
    /\ rating' = IF reply \in GoodAnswer /\ path \in Keys THEN {path} ELSE rating
    /\ UNCHANGED <<account, follow, local_, askedIds, ossConfig, path, bucket, cloudCalls,
                   meanwhile>>
-------------------------------------------------------------------------------
(* Meanwhile. *)

Meanwhile == meanwhile < MaxMeanwhile /\ meanwhile' = meanwhile + 1

ChangeUser ==
    /\ Meanwhile /\ acct' \in (Accounts \cup {Nobody}) \ {acct}
    /\ UNCHANGED <<optedIn, blockCloud, page, follow, local_, req, out, askedIds, oss, cloudCalls>>

(* connect_cloud makes a session, a logout destroys it with its subscriptions. *)
ChangeLink ==
    /\ Meanwhile /\ link' = ~link /\ desired' = {} /\ UNCHANGED codes
    /\ UNCHANGED <<account, local_, req, out, askedIds, oss, cloudCalls>>

GetVersionArrives ==
    /\ Meanwhile /\ ~heard /\ heard' = TRUE
    /\ UNCHANGED <<account, follow, covers, req, out, askedIds, oss, cloudCalls>>

(* A new print takes its place in synthetic_subtasks_, and may evict one. *)
NextPrint ==
    /\ Meanwhile /\ covers # {"lan-2"} /\ covers' \in {{"lan-2"}, covers \cup {"lan-2"}}
    /\ UNCHANGED <<account, follow, heard, req, out, askedIds, oss, cloudCalls>>

CallsNext ==
    \/ \E t \in CallThreads :
         \/ \E op \in Calls(page), id \in IdsOf(page) : Call(t, op, id)
         \/ req[t] # Idle /\ \E reply \in Replies(t) :
              \/ get_user_print_info(t, reply) \/ get_printer_firmware(t, reply)
              \/ get_subtask_info(t, reply) \/ get_subtask(t, reply) \/ get_mw_user(t, reply)
              \/ get_user_tasks(t, reply) \/ get_model_mall_rating(t, reply)
              \/ post_device_region(t, reply)
              \/ get_oss_config(t, reply) \/ put_rating_picture_oss(t, reply)
              \/ put_model_mall_rating(t, reply)
    \/ ChangeUser \/ ChangeLink \/ GetVersionArrives \/ NextPrint
-------------------------------------------------------------------------------
(* Beta firmware is offered only to an account that asked for it, though the
   user may change while the catalogue is being fetched. *)
BetaAskedFor == out.op = "firmware" /\ out.body = "withBeta" => out.as \in optedIn

(* An id the plugin made up is never sent to the cloud, even after its entry was evicted. *)
SyntheticStaysLocal == askedIds \subseteq TaskIds \ (Synthetic \cup {"0"})

(* Studio's preference page is given what it can parse, and a task whose
   record could not be fetched comes back as it was. *)
AnswersUsable == /\ out.op = "preference" => out.body \in {"stub", "clouds"}
                 /\ out.op = "task" => out.body \in {"echo", "clouds"}

(* A rating refers only to pictures that are in the store. *)
RatedPicturesExist == rating \subseteq bucket

(* With or without a token or a region, what is signed is what is sent; but Aliyun's store
   refuses what was signed without its bucket, and S3 a name that a URI must encode. *)
SignaturesHold ==
    \A t \in CallThreads : req[t].op = "picture" =>
        (Accepted(req[t]) <=> IF req[t].cfg.store = "aliyun" THEN req[t].cfg.bucket
                              ELSE req[t].pic[2] = "plain")

\* The calls of two threads around a change of user: what Studio is given is usable and asked
\* for by this account, no made-up id leaves, and what it sends exists and is signed right
\* (but for the names and configs that SignaturesHold names).
CallsSound ==
    /\ BetaAskedFor /\ SyntheticStaysLocal
    /\ AnswersUsable /\ RatedPicturesExist /\ SignaturesHold
===============================================================================
