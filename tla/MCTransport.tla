----------------------------- MODULE MCTransport -----------------------------
(***************************************************************************)
(* The four clients that the tests reach a machine through, for TLC: SSH,  *)
(* the walk over a Redfish service, the Redfish session, and IPMI.  They   *)
(* share no variable, so what one does beside another is what it does      *)
(* alone: talking is the client that is used in this behaviour.            *)
(***************************************************************************)
EXTENDS SshExec, RedfishEnumerate, RedfishSession, IpmiSetup, TLC

CONSTANTS r1, r2, r3, bmc_ssh, os_ssh

VARIABLE talking
tvars == <<talking, sshvars, evars, rsvars, ivars>>

(* Services of three resources: two that may name any of the three, in     *)
(* their members (one path at most) and inside; the first may go by the    *)
(* name of the second; the third is left out.                              *)
Mild == [id : {r1, r2}, members : {{}} \cup {{p} : p \in Path},
         nested : {{}} \cup {{r} : r \in Resource}]

ServicesOfThree ==
  {(r1 :> a) @@ (r2 :> [b EXCEPT !.id = r2])
     @@ (r3 :> [id |-> r3, members |-> {}, nested |-> {r1}]) : a, b \in Mild}

Plainest == CHOOSE f \in ServicesOfThree : \A r \in Resource : f[r].members = {}

MCInit ==
  /\ talking \in {"ssh", "enumerate", "redfish", "ipmi"}
  /\ SInit /\ EInit /\ RSInit /\ IInit
  /\ IF talking = "ssh" THEN TRUE ELSE target = bmc_ssh
  /\ IF talking = "enumerate" THEN start.of = r1 ELSE body = Plainest /\ start = plain(r1)
  /\ IF talking = "redfish" THEN TRUE ELSE ~mtls /\ has_etag
  /\ IF talking = "ipmi" THEN TRUE ELSE accepts = {}

UseSsh       == talking = "ssh"       /\ SNext  /\ UNCHANGED <<talking, evars, rsvars, ivars>>
UseEnumerate == talking = "enumerate" /\ ENext  /\ UNCHANGED <<talking, sshvars, rsvars, ivars>>
UseRedfish   == talking = "redfish"   /\ RSNext /\ UNCHANGED <<talking, sshvars, evars, ivars>>
UseIpmi      == talking = "ipmi"      /\ INext  /\ UNCHANGED <<talking, sshvars, evars, rsvars>>

MCNext == UseSsh \/ UseEnumerate \/ UseRedfish \/ UseIpmi

SshGoesOn == talking = "ssh" /\ SshStep /\ UNCHANGED <<talking, evars, rsvars, ivars>>

MCSpec ==
  /\ MCInit /\ [][MCNext]_tvars
  /\ WF_tvars(SshGoesOn) /\ WF_tvars(UseEnumerate)

(* The enumeration ends, where it is what is going on.                     *)
EnumerationReturns == talking = "enumerate" => EnumerationEnds

(* A Redfish or IPMI client whose setup has returned can work, whichever   *)
(* of its first requests were lost, and undoes nothing that another client *)
(* has done.                                                               *)
ClientsWork ==
  /\ LoginWorks
  /\ PathIsInUse
  /\ NoLostUpdate
  /\ OptionsIntact
  /\ UsableAfterSetup

(* A timed SSH command and an enumeration come to an end.                  *)
ClientsReturn == TimedCommandEnds /\ EnumerationReturns
=============================================================================
