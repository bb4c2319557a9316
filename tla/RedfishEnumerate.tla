-------------------------- MODULE RedfishEnumerate --------------------------
(***************************************************************************)
(* Walking a Redfish service: enumerate_request of                         *)
(* lib/bmc_redfish_utils.py (and enumerate of lib/bmc_redfish.py, the same *)
(* but for the names it leaves out), which gets a resource, then all those *)
(* its body names, and so on; and the shorter walks of the same files.     *)
(*                                                                         *)
(* A path is a resource and whether it is spelled with a slash at the end: *)
(* to the service both are one resource, to a set of strings they are two. *)
(* The service may give another status to every request.                   *)
(***************************************************************************)
EXTENDS Naturals, FiniteSets

CONSTANTS
  Resource,
  LeftOut,        (* JsonSchemas, SessionService, ..., and fragments (#)    *)
  Services        (* what services say: functions from Resource to Bodies   *)

Path == [of : Resource, slash : BOOLEAN]

rstrip(p) == [p EXCEPT !.slash = FALSE]
plain(r)  == [of |-> r, slash |-> FALSE]

(* A body: its own @odata.id, the paths of its Members, and the resources  *)
(* that the dictionaries inside of it name.                                *)
Bodies == [id : Resource, members : SUBSET Path, nested : SUBSET Resource]

ASSUME ServiceAssumption == Services \subseteq [Resource -> Bodies]

VARIABLES
  body,       (* what the service says                                      *)
  start,      (* resource_path                                              *)
  to_do,      (* resources_to_be_enumerated, those of this round            *)
  round,      (* the same, when the round began                             *)
  pending,    (* __pending_enumeration                                      *)
  enumerated, (* enumerated_resources                                       *)
  result,     (* paths that __result has data for                           *)
  dead,       (* dead_resources                                             *)
  raised,     (* get raised: any other status, or no answer                 *)
  gets        (* history: how often each path was requested                 *)

service == <<body, start>>
evars == <<service, to_do, round, pending, enumerated, result, dead, raised, gets>>

EInit ==
  /\ body \in Services
  /\ start \in Path
  /\ to_do = {start} /\ round = {start}
  /\ pending = {start}
  /\ enumerated = {} /\ result = {} /\ dead = {} /\ raised = FALSE
  /\ gets = [p \in Path |-> 0]

(* walk_nested_dict: what a body adds to what is pending.  Only the id at  *)
(* its top can be that of the resource it was got for.                     *)
Named(r, url) ==
  body[r].members \cup {plain(n) : n \in body[r].nested}
    \cup ({plain(body[r].id)} \ {url})

SkipStays(p) ==   \* mutant: what is left out is not struck off
  /\ ~raised /\ p \in to_do /\ p.of \in LeftOut
  /\ UNCHANGED evars

Skip(p) ==
  /\ ~raised /\ p \in to_do /\ p.of \in LeftOut
  /\ to_do' = to_do \ {p}
  /\ UNCHANGED <<service, round, pending, enumerated, result, dead, raised, gets>>

Request(p) ==
  /\ ~raised /\ p \in to_do /\ p.of \notin LeftOut
  /\ to_do' = to_do \ {p}
  /\ gets' = [gets EXCEPT ![p] = @ + 1]

GetTrusts(p) ==   \* mutant: data is kept whatever its @odata.id
  /\ Request(p)
  /\ pending' = pending \cup Named(p.of, rstrip(p))
  /\ result' = result \cup {rstrip(p)}
  /\ UNCHANGED <<service, round, enumerated, dead, raised>>

GetReplaces(p) ==   \* mutant: pending becomes what this body names
  /\ Request(p)
  /\ pending' = Named(p.of, rstrip(p))
  /\ result' = IF body[p.of].id = p.of THEN result \cup {rstrip(p)} ELSE result
  /\ UNCHANGED <<service, round, enumerated, dead, raised>>

GetForgetsMembers(p) ==   \* mutant: Members are looked at only if there is no id
  /\ Request(p)
  /\ pending' = pending \cup {plain(n) : n \in body[p.of].nested}
  /\ result' = IF body[p.of].id = p.of THEN result \cup {rstrip(p)} ELSE result
  /\ UNCHANGED <<service, round, enumerated, dead, raised>>

(* 200: its data is kept if it goes by the name it was asked for.          *)
Get(p) ==
  /\ Request(p)
  /\ pending' = pending \cup Named(p.of, rstrip(p))
  /\ result' = IF body[p.of].id = p.of THEN result \cup {rstrip(p)} ELSE result
  /\ UNCHANGED <<service, round, enumerated, dead, raised>>

(* 404, 405 or 500.                                                        *)
GetDead(p) ==
  /\ Request(p)
  /\ dead' = dead \cup {p}
  /\ UNCHANGED <<service, round, pending, enumerated, result, raised>>

(* Any other status, 405 too for bmc_redfish.enumerate: get raises.        *)
GetRaises(p) ==
  /\ Request(p)
  /\ raised' = TRUE
  /\ UNCHANGED <<service, round, pending, enumerated, result, dead>>

(* The round is done: what is pending and not enumerated is next.          *)
NextRoundAll ==   \* mutant: enumerated_resources is not taken off
  /\ ~raised /\ to_do = {} /\ round # {}
  /\ enumerated' = enumerated \cup round
  /\ round' = pending \ round
  /\ to_do' = round'
  /\ UNCHANGED <<service, pending, result, dead, raised, gets>>

NextRound ==
  /\ ~raised /\ to_do = {} /\ round # {}
  /\ enumerated' = enumerated \cup round
  /\ round' = pending \ enumerated'
  /\ to_do' = round'
  /\ UNCHANGED <<service, pending, result, dead, raised, gets>>

ENext ==
  \/ \E p \in Path : Skip(p) \/ Get(p) \/ GetDead(p) \/ GetRaises(p)
  \/ NextRound

ESpec == EInit /\ [][ENext]_evars
EFairSpec == ESpec /\ WF_evars(ENext)

done == round = {}

-----------------------------------------------------------------------------
(* Types of the sets of enumerate_request; a path is either still to do in *)
(* this round or has been dealt with.                                      *)
EnumTypeOK ==
  /\ body \in [Resource -> Bodies] /\ start \in Path
  /\ to_do \subseteq round /\ round \subseteq pending
  /\ pending \subseteq Path
  /\ enumerated \subseteq pending
  /\ result \subseteq Path /\ dead \subseteq Path
  /\ raised \in BOOLEAN /\ gets \in [Path -> Nat]

(* However resources name each other, in circles or themselves, no path is *)
(* requested a second time.                                                *)
EachPathOnce == \A p \in Path : gets[p] <= 1

(* A path of the result is spelled without slash, was requested, and the   *)
(* data kept for it is its own; what is left out was never requested.      *)
ResultIsRead ==
  /\ \A p \in result : /\ ~p.slash /\ body[p.of].id = p.of
                       /\ \E q \in Path : rstrip(q) = p /\ gets[q] > 0 /\ q \notin dead
  /\ \A p \in Path : p.of \in LeftOut => gets[p] = 0

(* When enumerate_request returns, everything that a body it has read names*)
(* is accounted for: read, dead, left out, or under another name; and so   *)
(* is resource_path.                                                       *)
Settled(p) ==
  \/ p.of \in LeftOut \/ p \in dead \/ rstrip(p) \in result
  \/ gets[p] > 0 /\ body[p.of].id # p.of

NothingMissed == done =>
  /\ Settled(start)
  /\ \A p \in Path : gets[p] > 0 /\ p \notin dead =>
       \A q \in Named(p.of, rstrip(p)) : Settled(q)

(* The enumeration ends, with a result or an exception.                    *)
EnumerationEnds == <>(done \/ raised)

-----------------------------------------------------------------------------
(* The shorter walks, on a service whose resources in alive answer.        *)

(* list_request: the names in resource_path and in the bodies they name;   *)
(* walk_nested_dict is given no url, so that a body names itself.          *)
AllNamed(r) == body[r].members \cup {plain(n) : n \in body[r].nested \cup {body[r].id}}

list_request(r, alive) ==
  IF r \notin alive THEN {}
  ELSE LET first == AllNamed(r)
       IN  first \cup UNION {AllNamed(p.of) : p \in {q \in first : q.of \in alive}}

get_member_list(r) == body[r].members

(* get_members_list and get_endpoint_path_list: those that match.          *)
get_members_list(r, matching) == {p \in get_member_list(r) : p.of \in matching}

get_endpoint_path_list(r, alive, ending) ==
  {p \in list_request(r, alive) : p.of \in ending}

(* get_members_uri: the paths around each member whose resource has the    *)
(* attribute.                                                              *)
get_members_uri(r, alive, having) ==
  {p \in UNION {list_request(m.of, alive) : m \in get_member_list(r)} :
     p.of \notin LeftOut /\ p.of \in having}

(* A listing is no more than the enumeration finds: every resource in it   *)
(* is settled when the same resource is enumerated with nothing dead; and, *)
(* whatever the filter, it has at least the members.                       *)
ListingIsEnumerated == done /\ dead = {} /\ start.of \notin LeftOut =>
  LET listed == list_request(start.of, Resource \ LeftOut)
      around == get_members_uri(start.of, Resource \ LeftOut, Resource)
  IN  /\ \A few \in SUBSET Resource :
           get_members_list(start.of, few)
             \subseteq get_endpoint_path_list(start.of, Resource \ LeftOut, few)
      /\ \A p \in listed : \E q \in Path : q.of = p.of /\ Settled(q)
      /\ \A p \in around : \E q \in Path : q.of = p.of /\ gets[q] > 0

(* The enumeration of any service, cyclic or misnamed, requests a path     *)
(* once, keeps only what was read, and at its end has missed nothing.      *)
EnumerationIsExact ==
  /\ EnumTypeOK
  /\ EachPathOnce
  /\ ResultIsRead
  /\ NothingMissed
=============================================================================
