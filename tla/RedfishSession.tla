--------------------------- MODULE RedfishSession ---------------------------
(***************************************************************************)
(* The Redfish client: the session that bmc_redfish of lib/bmc_redfish.py  *)
(* keeps with the BMC, and the requests of redfish_plus of                 *)
(* lib/redfish_plus.py.  A login is tried again when its first answer says *)
(* that the credentials are wrong or cannot be parsed - the BMC may have   *)
(* made a session all the same.  A patch first gets the resource, and      *)
(* sends the Etag it finds there along, so that the BMC can refuse it when *)
(* somebody else has changed the resource in between.                      *)
(***************************************************************************)
EXTENDS Naturals

CONSTANTS
  MaxSessions,    (* bound: sessions the BMC makes                          *)
  MaxWrites       (* bound: changes of the resource                         *)

ASSUME RedfishAssumption == MaxSessions \in Nat /\ MaxWrites \in Nat

VARIABLES
  mtls,           (* MTLS_ENABLED                                           *)
  rat,            (* new, refused, idle, login, retry or patch              *)
  inited,         (* __inited__                                             *)
  key,            (* the session the client uses, 0 if none                 *)
  login_answer,   (* of the last login: none, path, retried, swallowed,     *)
                  (* mtls or raised                                         *)
  path,           (* the session whose path login has returned              *)
  sessions,       (* of the BMC: the sessions it knows                      *)
  made,           (* of the BMC: sessions made so far                       *)
  version,        (* of the BMC: the version of the resource                *)
  has_etag,       (* the BMC sends an Etag for it                           *)
  etag,           (* If-Match of the patch under way, a version or 0 if none *)
  base,           (* history: version when that patch began                 *)
  response,       (* status of the last request that was returned           *)
  expired,        (* history: the BMC dropped the session in use            *)
  overwritten     (* history: changes a patch of ours has overwritten       *)

bmc    == <<sessions, made, version>>
client == <<inited, key, login_answer, path, response>>
patching == <<etag, base, overwritten>>
rsvars == <<mtls, rat, client, bmc, has_etag, patching, expired>>

RSInit ==
  /\ mtls \in BOOLEAN /\ has_etag \in BOOLEAN
  /\ rat = "new" /\ inited = FALSE
  /\ key = 0 /\ login_answer = "none" /\ path = 0
  /\ sessions = {} /\ made = 0 /\ version = 1
  /\ etag = 0 /\ base = 0 /\ response = "none"
  /\ expired = FALSE /\ overwritten = 0

-----------------------------------------------------------------------------
(* __init__: with MTLS nothing is asked; otherwise the service root is. A  *)
(* 502 is tolerated, any other ValueError is raised.                       *)
Construct ==
  /\ rat = "new"
  /\ \E root \in {200, 502, 500} :
       /\ mtls => root = 200
       /\ rat' = IF root = 500 THEN "refused" ELSE "idle"
       /\ inited' = (root = 200)
  /\ UNCHANGED <<mtls, key, login_answer, path, response, bmc, has_etag, patching, expired>>

login ==
  /\ rat = "idle"
  /\ CASE mtls -> login_answer' = "mtls" /\ UNCHANGED <<rat, expired>>
       [] ~mtls /\ ~inited -> login_answer' = "raised" /\ UNCHANGED <<rat, expired>>
       [] OTHER -> rat' = "login" /\ expired' = FALSE /\ UNCHANGED login_answer
  /\ UNCHANGED <<mtls, inited, key, path, response, bmc, has_etag, patching>>

MakeSession == made < MaxSessions /\ made' = made + 1 /\ sessions' = sessions \cup {made'}

(* The BMC makes a session and the client takes it over.                   *)
LoginMade ==
  /\ rat = "login"
  /\ MakeSession
  /\ key' = made' /\ path' = made' /\ login_answer' = "path"
  /\ rat' = "idle" /\ expired' = FALSE
  /\ UNCHANGED <<mtls, inited, response, version, has_etag, patching>>

(* InvalidCredentialsError, or JSONDecodeError: log in once more.          *)
LoginGarbledIsDone ==   \* mutant: except JSONDecodeError logs, and does not retry
  /\ rat = "login"
  /\ MakeSession \/ UNCHANGED <<made, sessions>>
  /\ login_answer' = "retried" /\ rat' = "idle"
  /\ UNCHANGED <<mtls, inited, key, path, response, version, has_etag, patching, expired>>

LoginGarbled ==
  /\ rat = "login"
  /\ MakeSession \/ UNCHANGED <<made, sessions>>
  /\ rat' = "retry"
  /\ UNCHANGED <<mtls, client, version, has_etag, patching, expired>>

RetryMadeKeepsPath ==   \* mutant: the path of the login before is kept
  /\ rat = "retry"
  /\ MakeSession
  /\ key' = made' /\ login_answer' = "retried" /\ UNCHANGED path
  /\ rat' = "idle" /\ expired' = FALSE
  /\ UNCHANGED <<mtls, inited, response, version, has_etag, patching>>

(* The second login: what it raises is raised; it returns no path.         *)
RetryMade ==
  /\ rat = "retry"
  /\ MakeSession
  /\ key' = made' /\ login_answer' = "retried" /\ path' = 0
  /\ rat' = "idle" /\ expired' = FALSE
  /\ UNCHANGED <<mtls, inited, response, version, has_etag, patching>>

RetryFails ==
  /\ rat = "retry"
  /\ login_answer' = "raised" /\ path' = 0
  /\ rat' = "idle"
  /\ UNCHANGED <<mtls, inited, key, response, bmc, has_etag, patching, expired>>

(* Another ValueError is printed, and forgotten.                           *)
LoginSwallowed ==
  /\ rat = "login"
  /\ login_answer' = "swallowed" /\ path' = 0
  /\ rat' = "idle"
  /\ UNCHANGED <<mtls, inited, key, response, bmc, has_etag, patching, expired>>

LoginRaises ==
  /\ rat = "login"
  /\ login_answer' = "raised" /\ path' = 0
  /\ rat' = "idle"
  /\ UNCHANGED <<mtls, inited, key, response, bmc, has_etag, patching, expired>>

(* logout deletes the session by redfish_plus.delete, which raises if the  *)
(* BMC refuses: the client then goes on with a session that may be gone.   *)
logout ==
  /\ rat = "idle" /\ ~mtls
  /\ \/ /\ key = 0 \/ key \in sessions
        /\ sessions' = sessions \ {key}
        /\ key' = 0 /\ path' = 0 /\ login_answer' = "none" /\ UNCHANGED response
     \/ /\ key # 0 /\ response' = "raised"
        /\ UNCHANGED <<sessions, key, path, login_answer>>
  /\ UNCHANGED <<mtls, rat, inited, made, version, has_etag, patching, expired>>

-----------------------------------------------------------------------------
(* The status the BMC gives: a client without a session is not let in.  A  *)
(* certificate is as good as a session.                                    *)
Allowed == mtls \/ key \in sessions

(* get: a status that is not among the valid ones is raised.  It does not  *)
(* ask whether __init__ got through.                                       *)
get(codes) ==
  /\ rat = "idle"
  /\ LET status == IF Allowed THEN 200 ELSE 401
     IN  response' = IF codes = {} \/ status \in codes THEN "returned" ELSE "raised"
  /\ UNCHANGED <<mtls, rat, inited, key, login_answer, path, bmc, has_etag, patching, expired>>

(* patch begins with a get that accepts every status.  It is the one of    *)
(* HttpClient, with MTLS too, where HttpClient was never initialised.      *)
PatchMtls ==
  /\ rat = "idle" /\ mtls
  /\ response' = "raised"
  /\ UNCHANGED <<mtls, rat, inited, key, login_answer, path, bmc, has_etag, patching, expired>>

PatchGets ==
  /\ rat = "idle" /\ ~mtls
  /\ rat' = "patch"
  /\ etag' = IF has_etag /\ key \in sessions THEN version ELSE 0
  /\ base' = version
  /\ UNCHANGED <<mtls, client, bmc, has_etag, overwritten, expired>>

(* The BMC does it, or answers 401 or 412, which is raised unless the      *)
(* caller has said that it may be.                                         *)
Unchanged == etag \in {0, version}

PatchSendsBlind ==   \* mutant: the If-Match header is not sent
  /\ rat = "patch"
  /\ IF Allowed
       THEN /\ version < MaxWrites /\ version' = version + 1
            /\ response' = "returned"
            /\ overwritten' = IF version # base /\ etag # 0 THEN 1 ELSE overwritten
       ELSE response' \in {"returned", "raised"} /\ UNCHANGED <<version, overwritten>>
  /\ rat' = "idle"
  /\ UNCHANGED <<mtls, inited, key, login_answer, path, sessions, made, has_etag, etag, base,
                 expired>>

PatchSends ==
  /\ rat = "patch"
  /\ IF Allowed /\ Unchanged
       THEN /\ version < MaxWrites /\ version' = version + 1
            /\ response' = "returned"
            /\ overwritten' = IF version # base /\ etag # 0 THEN 1 ELSE overwritten
       ELSE response' \in {"returned", "raised"} /\ UNCHANGED <<version, overwritten>>
  /\ rat' = "idle"
  /\ UNCHANGED <<mtls, inited, key, login_answer, path, sessions, made, has_etag, etag, base,
                 expired>>

-----------------------------------------------------------------------------
(* The BMC drops a session (its time is up, the BMC reboots); somebody     *)
(* else changes the resource.                                              *)
Expire ==
  /\ \E s \in sessions : sessions' = sessions \ {s} /\ expired' = (expired \/ s = key)
  /\ UNCHANGED <<mtls, rat, client, made, version, has_etag, patching>>

OtherWrites ==
  /\ version < MaxWrites /\ version' = version + 1
  /\ UNCHANGED <<mtls, rat, client, sessions, made, has_etag, patching, expired>>

RSNext ==
  \/ Construct \/ login \/ LoginMade \/ LoginGarbled \/ RetryMade \/ RetryFails
  \/ LoginSwallowed \/ LoginRaises \/ logout
  \/ \E codes \in {{}, {200}, {401}} : get(codes)
  \/ PatchMtls \/ PatchGets \/ PatchSends
  \/ Expire \/ OtherWrites

RSSpec == RSInit /\ [][RSNext]_rsvars

-----------------------------------------------------------------------------
(* After a login that returned normally - with a path, or after a second   *)
(* attempt - the client has a session that works until the BMC drops it,   *)
(* although the first attempt may have left one on the BMC it knows        *)
(* nothing of.  (login of lib/bmc_redfish.py.)                             *)
LoginWorks ==
  rat = "idle" /\ login_answer \in {"path", "retried"} /\ ~expired => key \in sessions

(* The path that login has returned is that of the session in use, for as  *)
(* long as the client uses it: who deletes it deletes the right one.       *)
PathIsInUse == path # 0 /\ rat = "idle" => path = key

(* A patch of a resource with an Etag never overwrites a change that was   *)
(* made after the patch had read it (patch of lib/redfish_plus.py).        *)
NoLostUpdate == overwritten = 0
=============================================================================
