------------------------------ MODULE DnsZone ------------------------------
(***************************************************************************)
(* The Cloudflare zone as dns-reconciler sees it: the records, the rule    *)
(* that says which of them the service owns, what a request asks for and   *)
(* what the server does with it.  The server itself is not in the          *)
(* repository; it is modelled from the requests cloudflare/client.rs sends *)
(* and the replies it accepts.                                             *)
(*                                                                         *)
(* Here and in the other modules a definition that says "fault:" is the    *)
(* one after it with a slip a change of the code could make.  Nothing uses *)
(* it: it is there to be put in place of the right one, to see that the    *)
(* runs notice (README, "Seeded faults").                                  *)
(***************************************************************************)
EXTENDS Naturals, FiniteSets

CONSTANTS
  Ids,          \* record identifiers: positive numbers, compared like the id strings
  Managed,      \* normalised names strictly below MANAGED_RECORD_SUFFIX
  RawNames,     \* record names as Cloudflare stores them
  KeyOf,        \* what normalize_fqdn and is_strict_subdomain make of a raw name
  NotManaged,   \* ... when the name does not normalise or is not below the suffix
  Addrs,        \* IPv4 addresses
  NoAddr,       \* "this name has no address": the key is absent from the map
  NoRecord      \* "no record has this id"

ASSUME ZoneAssumption ==
  /\ Ids \subseteq Nat \ {0}
  /\ Managed \subseteq RawNames
  /\ NotManaged \notin Managed
  /\ KeyOf \in [RawNames -> Managed \cup {NotManaged}]
  /\ \A n \in Managed : KeyOf[n] = n
  /\ NoAddr \notin Addrs

(* Ids and names are strings of bounded length. *)
ASSUME FiniteAssumption == IsFiniteSet(Ids) /\ IsFiniteSet(Managed)

(* A record: `opts` folds ttl and proxied, which the code only ever compares
   with DEFAULT_TTL and false.  A record of another type is in the zone too. *)
Types  == {"A", "other"}
Opts   == {"default", "custom"}
Record == [type : Types, name : RawNames, content : Addrs, opts : Opts]

ASSUME NoRecordAssumption == NoRecord \notin Record

Zones == [Ids -> Record \cup {NoRecord}]

(* A desired state: the address each managed name shall resolve to. *)
Wants == [Managed -> Addrs \cup {NoAddr}]

(* The records the service is responsible for: A records whose normalised
   name is strictly below the managed suffix. *)
InScope(r) == r.type = "A" /\ KeyOf[r.name] # NotManaged

Owned(z, i) == z[i] # NoRecord /\ InScope(z[i])

Matches(r, n, a) ==
  r.type = "A" /\ KeyOf[r.name] = n /\ r.content = a /\ r.opts = "default"

(* The zone mirrors the desired state: one matching record for each wanted
   name, none for any other managed name. *)
RecordsOf(z, n) == {i \in Ids : Owned(z, i) /\ KeyOf[z[i].name] = n}

InSync(z, want) ==
  \A n \in Managed :
    IF want[n] = NoAddr THEN RecordsOf(z, n) = {}
    ELSE \E i \in Ids : RecordsOf(z, n) = {i} /\ Matches(z[i], n, want[n])

(***************************************************************************)
(* Requests.  One item of a plan asks for one of these operations; "noop"  *)
(* asks for nothing.  `id` is 0 for a create, which has no record yet;     *)
(* `page` tells two listings of the same record apart.                     *)
(***************************************************************************)
NoId  == 0
Ops   == {"create", "update", "delete", "noop"}
Items ==
  {item \in [op : Ops, name : Managed, addr : Addrs \cup {NoAddr},
             id : Ids \cup {NoId}, page : Nat] :
     /\ item.op = "create" <=> item.id = NoId
     /\ item.op # "delete" => item.addr \in Addrs}

(* fault: the options of the record found are kept. *)
PayloadAsFound(item) ==
  [type |-> "A", name |-> item.name, content |-> item.addr, opts |-> "custom"]

(* The body of a POST or PUT. *)
Payload(item) ==
  [type |-> "A", name |-> item.name, content |-> item.addr, opts |-> "default"]

(* What the server makes of the request: the zones it may leave.  A create
   takes any unused id; the others answer 404 when the record is gone. *)
Outcomes(z, item, unused) ==
  CASE item.op = "create" -> {[z EXCEPT ![i] = Payload(item)] : i \in unused}
    [] item.op = "update" -> {[z EXCEPT ![i] = Payload(item)] :
                                i \in {j \in Ids : j = item.id /\ z[j] # NoRecord}}
    [] item.op = "delete" -> {[z EXCEPT ![i] = NoRecord] :
                                i \in {j \in Ids : j = item.id /\ z[j] # NoRecord}}
    [] OTHER -> {}

(* GET ?type=A&page=p: the p-th window of the A records, in id order. *)
ARecords(z) == {i \in Ids : z[i] # NoRecord /\ z[i].type = "A"}
Position(z, i) == Cardinality({j \in ARecords(z) : j <= i})
OnPage(z, p, size) ==
  {i \in ARecords(z) : (p - 1) * size < Position(z, i) /\ Position(z, i) <= p * size}

(* fault: only the first page is fetched. *)
TotalPagesIgnored(z, size) == 1
TotalPages(z, size) == (Cardinality(ARecords(z)) + size - 1) \div size
=============================================================================
