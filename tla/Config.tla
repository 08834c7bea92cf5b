------------------------------- MODULE Config -------------------------------
(***************************************************************************)
(* config.rs: the settings that decide which leases and which records the  *)
(* service deals with.  AppConfig::from_getter takes them from the         *)
(* environment once, before anything else; a program that runs has a       *)
(* configuration it accepted.                                              *)
(***************************************************************************)
EXTENDS DnsNames

CONSTANTS
  Rejected,   \* from_getter returns an error
  MaxU32,     \* the largest u32
  Envs        \* bound: the environments the program is started in

(* An environment: DHCP_SUBNET_IDS as the set of its items, each a number, or 0
   for anything that is not one; the names as they are written.  A variable that
   is not set is rejected as an empty one is. *)
Env == [DHCP_SUBNET_IDS : SUBSET Nat, DNS_ZONE : Seq(Char), MANAGED_RECORD_SUFFIX : Seq(Char)]

Config == [subnet_ids : SUBSET Nat, zone : Seq(Char), suffix : Seq(Char)]

ASSUME ConfigAssumption ==
  /\ MaxU32 \in Nat
  /\ Rejected \notin Config
  /\ Envs \subseteq Env

Parsed(env) ==
  [subnet_ids |-> env.DHCP_SUBNET_IDS,
   zone |-> normalize_fqdn(env.DNS_ZONE),
   suffix |-> normalize_fqdn(env.MANAGED_RECORD_SUFFIX)]

(* parse_subnet_ids: no item is blank, malformed, zero or too large. *)
WellFormed(env) ==
  /\ env.DHCP_SUBNET_IDS # {} /\ env.DHCP_SUBNET_IDS \subseteq 1..MaxU32
  /\ Parsed(env).zone # Invalid /\ Parsed(env).suffix # Invalid

(* fault: the suffix need not be below the zone. *)
from_getter_AnySuffix(env) == IF WellFormed(env) THEN Parsed(env) ELSE Rejected
from_getter(env) ==
  IF WellFormed(env) /\ is_strict_subdomain(Parsed(env).suffix, Parsed(env).zone)
  THEN Parsed(env) ELSE Rejected

Configs == {from_getter(e) : e \in Envs} \ {Rejected}
=============================================================================
