---------------------------- MODULE MCStateCheck ----------------------------
(***************************************************************************)
(* An instance of StateCheck: the kinds of entries of the shipped boot     *)
(* table, data/boot_table_redfish.json, and the values it distinguishes.   *)
(***************************************************************************)
EXTENDS StateCheck

MCMachines ==
  [redfish : BOOLEAN, chassis : {<<"On">>, <<"Off">>},
   bmc : {<<"Enabled">>},
   boot_progress : {<<"None">>, <<"Off">>, <<"OSBootStarted">>},
   host : {<<"Enabled">>, <<"Disabled">>, <<"StandbyOffline">>},
   os_ping : BOOLEAN, os_ssh : BOOLEAN]

AnyOff == [redfish |-> Exactly("1"), chassis |-> Exactly("Off")]
AnyOn  == [redfish |-> Exactly("1"), chassis |-> Exactly("On")]

Off ==
  AnyOff @@ [boot_progress |-> <<"^", "None", "|", "Off", "$">>,
             host |-> <<"^", "Disabled", "|", "StandbyOffline", "$">>]
On ==
  AnyOn @@ [boot_progress |-> <<"^">> \o OsUpProgress \o <<"|", "On", "$">>,
            host |-> Exactly("Enabled")]
BmcUp(entry) == entry @@ [bmc |-> Exactly("Enabled")]

MCWord ==
  {"0", "1", "NA", "On", "Off", "None", "Enabled", "Disabled", "StandbyOffline"}
    \cup {OsUpProgress[i] : i \in {1, 3, 5}}

MCTable ==
  ("Redfish Power On"          :> [start |-> Off,    end |-> On]) @@
  ("Redfish Hard Power Off"    :> [start |-> AnyOn,  end |-> Off]) @@
  ("Host Power Off"            :> [start |-> On,     end |-> Off]) @@
  ("Redfish Power Cycle"       :> [start |-> On,     end |-> On]) @@
  ("IPMI MC Reset Cold (run)"  :> [start |-> On,     end |-> BmcUp(On)]) @@
  ("IPMI MC Reset Cold (off)"  :> [start |-> AnyOff, end |-> BmcUp(Off)])
=============================================================================
