----------------------------- MODULE IpmiSetup -----------------------------
(***************************************************************************)
(* ipmi_setup of lib/ipmi_client.py: when the library is loaded it tries   *)
(* out by a few ipmitool commands which options the BMC accepts - the      *)
(* cipher suite, the boot mode, the user name - and keeps what it finds in *)
(* globals that every later command is built from.  A probe may also fail  *)
(* because the BMC does not answer just then.                              *)
(***************************************************************************)
EXTENDS Naturals, Sequences, SequencesExt

CONSTANTS
  DefaultCipher,  (* ${IPMI_CIPHER_LEVEL}                                   *)
  MaxSetups       (* bound: times the library is loaded                     *)

Required == <<"I", "C", "N", "p", "U", "P", "H">>
Ciphers  == {"17", "3", DefaultCipher}

VARIABLES
  iat,                    (* idle, cipher, cipher3, boot, boot_efi, user or *)
                          (* no_user                                        *)
  ipmi_required_options,
  ipmi_cipher_suite,
  efiboot,                (* ${IPMI_OPTIONS_EFIBOOT} is set                 *)
  accepts,                (* of the BMC: the pairs [u, c] it accepts, u     *)
                          (* whether -U is given, c the cipher suite        *)
  setups,                 (* setups begun                                   *)
  unsteady                (* history: a probe of this setup was lost        *)

ivars == <<iat, ipmi_required_options, ipmi_cipher_suite, efiboot, accepts, setups, unsteady>>

IInit ==
  /\ iat = "idle"
  /\ ipmi_required_options = Required /\ ipmi_cipher_suite = DefaultCipher
  /\ efiboot = FALSE
  /\ accepts \in SUBSET [u : BOOLEAN, c : Ciphers]
  /\ setups = 0 /\ unsteady = FALSE

(* create_ipmi_ext_command_string: what each required option of a command  *)
(* comes from; -N is left to a command that brings its own.                *)
ext_options(given, has_n) ==
  [o \in ToSet(ipmi_required_options) \ (IF has_n THEN {"N"} ELSE {}) |->
     IF o \in given THEN "caller" ELSE "default"]

GivesUser == "U" \in DOMAIN ext_options({}, FALSE)

(* A command with cipher suite c works; or not, since an answer is lost.   *)
Works(c)   == [u |-> GivesUser, c |-> c] \in accepts /\ UNCHANGED unsteady
Refused(c) == [u |-> GivesUser, c |-> c] \notin accepts /\ UNCHANGED unsteady
Lost       == unsteady' = TRUE
Fails(c)   == Refused(c) \/ Lost

ipmi_setup ==
  /\ iat = "idle" /\ setups < MaxSetups
  /\ iat' = "cipher"
  /\ setups' = setups + 1
  /\ unsteady' = FALSE
  /\ UNCHANGED <<ipmi_required_options, ipmi_cipher_suite, efiboot, accepts>>

(* verify_ipmi_cipher_suite_accepted: 17, then 3, else what it was.        *)
Cipher17 ==
  /\ iat = "cipher"
  /\ \/ Works("17") /\ ipmi_cipher_suite' = "17" /\ iat' = "boot"
     \/ Fails("17") /\ iat' = "cipher3" /\ UNCHANGED ipmi_cipher_suite
  /\ UNCHANGED <<ipmi_required_options, efiboot, accepts, setups>>

Cipher3Unset ==   \* mutant: the global statement is missing
  /\ iat = "cipher3"
  /\ Works("3") \/ Fails("3")
  /\ iat' = "boot"
  /\ UNCHANGED <<ipmi_required_options, ipmi_cipher_suite, efiboot, accepts, setups>>

Cipher3 ==
  /\ iat = "cipher3"
  /\ \/ Works("3") /\ ipmi_cipher_suite' = "3"
     \/ Fails("3") /\ UNCHANGED ipmi_cipher_suite
  /\ iat' = "boot"
  /\ UNCHANGED <<ipmi_required_options, efiboot, accepts, setups>>

(* verify_ipmi_boot_mode_accepted: plain, or else with options=efiboot.    *)
BootMode ==
  /\ iat = "boot"
  /\ \/ Works(ipmi_cipher_suite) /\ iat' = "user"
     \/ (Works(ipmi_cipher_suite) \/ Fails(ipmi_cipher_suite)) /\ iat' = "boot_efi"
  /\ UNCHANGED <<ipmi_required_options, ipmi_cipher_suite, efiboot, accepts, setups>>

BootModeEfi ==
  /\ iat = "boot_efi"
  /\ \/ Works(ipmi_cipher_suite) /\ efiboot' = TRUE
     \/ (Works(ipmi_cipher_suite) \/ Fails(ipmi_cipher_suite)) /\ UNCHANGED efiboot
  /\ iat' = "user"
  /\ UNCHANGED <<ipmi_required_options, ipmi_cipher_suite, accepts, setups>>

index(o) == CHOOSE i \in DOMAIN ipmi_required_options :
  /\ ipmi_required_options[i] = o
  /\ \A j \in 1..(i - 1) : ipmi_required_options[j] # o

(* verify_ipmi_user_parm_accepted: with -U, then without it; if neither    *)
(* works it is put back, right before P.                                   *)
WithUser ==
  /\ iat = "user"
  /\ \/ Works(ipmi_cipher_suite) /\ iat' = "idle" /\ UNCHANGED ipmi_required_options
     \/ /\ Fails(ipmi_cipher_suite)
        /\ iat' = "no_user"
        /\ ipmi_required_options' = IF "U" \in ToSet(ipmi_required_options)
             THEN RemoveAt(ipmi_required_options, index("U")) ELSE ipmi_required_options
  /\ UNCHANGED <<ipmi_cipher_suite, efiboot, accepts, setups>>

WithoutUserAppends ==   \* mutant: append instead of insert
  /\ iat = "no_user"
  /\ \/ Works(ipmi_cipher_suite) /\ UNCHANGED ipmi_required_options
     \/ /\ Fails(ipmi_cipher_suite)
        /\ ipmi_required_options' = Append(ipmi_required_options, "U")
  /\ iat' = "idle"
  /\ UNCHANGED <<ipmi_cipher_suite, efiboot, accepts, setups>>

WithoutUser ==
  /\ iat = "no_user"
  /\ \/ Works(ipmi_cipher_suite) /\ UNCHANGED ipmi_required_options
     \/ /\ Fails(ipmi_cipher_suite)
        /\ ipmi_required_options' =
             InsertAt(ipmi_required_options, index("P"), "U")
  /\ iat' = "idle"
  /\ UNCHANGED <<ipmi_cipher_suite, efiboot, accepts, setups>>

INext ==
  \/ ipmi_setup \/ Cipher17 \/ Cipher3 \/ BootMode \/ BootModeEfi
  \/ WithUser \/ WithoutUser

ISpec == IInit /\ [][INext]_ivars

-----------------------------------------------------------------------------
(* However often the setup runs and whatever gets lost, the required       *)
(* options are all there and in order, but for U, which is missing only    *)
(* when the BMC has done without it.                                       *)
OptionsIntact == iat = "idle" =>
  \/ ipmi_required_options = Required
  \/ /\ ipmi_required_options = RemoveAt(Required, 5)
     /\ \E a \in accepts : ~a.u

(* After a setup in which no answer was lost, commands are built from      *)
(* options the BMC accepts, if it accepts any of those that the setup of a *)
(* fresh library tries.                                                    *)
UsableAfterSetup ==
  /\ iat = "idle" /\ setups = 1 /\ ~unsteady
  /\ {[u |-> TRUE, c |-> "17"], [u |-> TRUE, c |-> "3"],
      [u |-> FALSE, c |-> DefaultCipher]} \cap accepts # {}
  => [u |-> GivesUser, c |-> ipmi_cipher_suite] \in accepts
=============================================================================
