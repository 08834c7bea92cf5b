---------------------------- MODULE DesiredState ----------------------------
(***************************************************************************)
(* dns/desired_state.rs: from the leases to one address for each name.     *)
(* The loop looks at one lease after another and keeps the preferred       *)
(* candidate of each name; what it ends with must not depend on the order  *)
(* the leases come in.                                                     *)
(***************************************************************************)
EXTENDS Integers, Config

CONSTANTS
  Addrs,      \* IPv4 addresses, as the numbers u32::from gives
  Hosts,      \* hostnames as they stand in a lease
  NoHost,     \* a hostname that is absent or blank
  Subnets,    \* subnet ids that occur
  None,       \* an absent optional field
  MaxU64,     \* the largest value of a time or lifetime
  Now,        \* current_epoch_seconds, read once for the whole loop
  LeaseSets   \* bound: the lists of leases

Times == 0..MaxU64

Lease ==
  [ip_address : Addrs, hostname : Hosts \cup {NoHost}, state : Int \cup {None},
   subnet_id : Subnets \cup {None}, valid_lft : Times \cup {None},
   cltt : Times \cup {None}, expire : Times \cup {None}]

ASSUME DesiredStateAssumption ==
  /\ Addrs \subseteq Nat
  /\ Hosts \subseteq Seq(Char)
  /\ NoHost \notin Hosts
  /\ None \notin Int
  /\ None \notin Subnets
  /\ None \notin Lease
  /\ MaxU64 \in Nat
  /\ Now \in Times
  /\ \A s \in LeaseSets : s \subseteq Lease
  (* rows_by_address keeps one row for each address *)
  /\ \A s \in LeaseSets : \A l, m \in s : l.ip_address = m.ip_address => l = m

(* The record names that hostnames give, below the suffix of a configuration. *)
NameOf == [c \in Configs |-> [h \in Hosts |-> record_name_from_hostname(h, c.suffix)]]
Names  == {NameOf[c][h] : c \in Configs, h \in Hosts} \ {Invalid}

VARIABLES
  config,      \* the configuration the program runs with
  leases,      \* the leases given to build_desired_state
  left,        \* those the loop has not come to
  candidates,  \* the candidate of each name: its lease, or None
  done         \* the records are returned

vars == <<config, leases, left, candidates, done>>

----------------------------------------------------------------------------
(* leases/model.rs *)

expires_at(l) ==
  IF l.expire # None THEN l.expire
  ELSE IF l.cltt # None /\ l.valid_lft # None /\ l.cltt + l.valid_lft <= MaxU64
       THEN l.cltt + l.valid_lft
       ELSE None

ordering_timestamp(l) ==
  IF l.cltt # None THEN l.cltt ELSE IF l.expire # None THEN l.expire ELSE 0

(* fault: >= for >. *)
is_active_AtExpiry(l, now) ==
  /\ l.state = 0
  /\ l.valid_lft # None /\ l.valid_lft > 0
  /\ expires_at(l) # None /\ expires_at(l) >= now
is_active(l, now) ==
  /\ l.state = 0
  /\ l.valid_lft # None /\ l.valid_lft > 0
  /\ expires_at(l) # None /\ expires_at(l) > now

----------------------------------------------------------------------------
(* The loop. *)

Init ==
  /\ config \in Configs
  /\ leases \in LeaseSets
  /\ left = leases
  /\ candidates = [n \in Names |-> None]
  /\ done = FALSE

(* The checks before the candidate, each of which skips the lease. *)
Selected(l) == l.subnet_id \in config.subnet_ids
Named(l)    == l.hostname # NoHost /\ NameOf[config][l.hostname] # Invalid
Usable(l)   == Selected(l) /\ is_active(l, Now) /\ Named(l)

(* fault: no tie-break. *)
prefer_candidate_NewestOnly(l, m) == ordering_timestamp(l) > ordering_timestamp(m)
prefer_candidate(l, m) ==
  \/ ordering_timestamp(l) > ordering_timestamp(m)
  \/ ordering_timestamp(l) = ordering_timestamp(m) /\ l.ip_address < m.ip_address

Skip(l) ==
  /\ l \in left
  /\ ~Usable(l)
  /\ left' = left \ {l}
  /\ UNCHANGED <<config, leases, candidates, done>>

Consider(l) ==
  /\ l \in left
  /\ Usable(l)
  /\ LET n == NameOf[config][l.hostname]
     IN  candidates' =
           IF candidates[n] = None \/ prefer_candidate(l, candidates[n])
           THEN [candidates EXCEPT ![n] = l] ELSE candidates
  /\ left' = left \ {l}
  /\ UNCHANGED <<config, leases, done>>

Return ==
  /\ left = {}
  /\ ~done
  /\ done' = TRUE
  /\ UNCHANGED <<config, leases, left, candidates>>

Next == (\E l \in left : Skip(l) \/ Consider(l)) \/ Return
Spec == Init /\ [][Next]_vars

(* DesiredState.records *)
Records == {<<n, candidates[n].ip_address>> : n \in {m \in Names : candidates[m] # None}}

----------------------------------------------------------------------------
(* Properties. *)

TypeOK ==
  /\ config \in Configs
  /\ leases \subseteq Lease
  /\ \A l, m \in leases : l.ip_address = m.ip_address => l = m
  /\ left \subseteq leases
  /\ candidates \in [Names -> leases \cup {None}]
  /\ done \in BOOLEAN

(* The candidate of each name is the best of the leases seen so far. *)
Seen(n) == {l \in leases \ left : Usable(l) /\ NameOf[config][l.hostname] = n}
BestSoFar ==
  \A n \in Names :
    LET seen == Seen(n)
    IN  IF seen = {} THEN candidates[n] = None
        ELSE /\ candidates[n] \in seen
             /\ \A m \in seen \ {candidates[n]} : prefer_candidate(candidates[n], m)

(* README: "If the same hostname appears more than once, the lease with the
   newest ordering timestamp is selected. Ties are resolved deterministically by
   IPv4 address."  What is returned is what those words say of the whole list,
   whatever its order; they are put in words of their own here, for leases with
   the columns of the lease file (no cltt). *)
Latest(S)  == {l \in S : \A m \in S : l.expire >= m.expire}
Lowest(S)  == {l \in S : \A m \in S : l.ip_address <= m.ip_address}
Live(n)    == {l \in leases : /\ l.subnet_id \in config.subnet_ids
                              /\ l.state = 0 /\ l.valid_lft > 0 /\ Now < l.expire
                              /\ l.hostname \in Hosts /\ NameOf[config][l.hostname] = n}
OrderIndependent ==
  done /\ (\A l \in leases : l.cltt = None /\ l.expire # None /\ l.valid_lft # None) =>
    Records = UNION {{<<n, l.ip_address>> : l \in Lowest(Latest(Live(n)))} : n \in Names}

(* A record the service publishes it will know again, however the server spells
   its name: the planner files it under the same name, so that it is updated or
   deleted and not made a second time; and it is in scope by the rules of
   validate_record_scope. *)
Spellings(n) ==
  {n, n \o <<".">>, <<Space>> \o n,
   [i \in DOMAIN n |-> IF \E u \in Upper : LowerOf[u] = n[i]
                       THEN CHOOSE u \in Upper : LowerOf[u] = n[i] ELSE n[i]]}
KnowsItsOwn ==
  done => \A n \in {m \in Names : candidates[m] # None} :
    /\ \A raw \in Spellings(n) : managed_name(raw, config.suffix) = n
    /\ validate_record_scope(n, config.zone, config.suffix)

(* README: "Only records inside DNS_ZONE are managed", "Only records below
   MANAGED_RECORD_SUFFIX are managed" and "The zone apex is never managed":
   whatever string a listed record has for its name, the planner, which looks at
   the suffix alone, takes it for the service's own exactly when
   validate_record_scope does, and only if the labels before the suffix, which
   has the zone's after its own, are not empty. *)
Below(n, p) == \E k \in 2..Len(n) : n[k] = "." /\ SubSeq(n, k + 1, Len(n)) = p
ScopeByTheRules ==
  done => \A h \in {l.hostname : l \in leases} \ {NoHost} :
    \A raw \in {h, h \o <<".">> \o config.suffix, h \o config.suffix} :
      LET n == managed_name(raw, config.suffix)
      IN  /\ n # Invalid <=> validate_record_scope(raw, config.zone, config.suffix)
          /\ n # Invalid => Below(n, config.suffix) /\ Below(n, config.zone)

(* Two hostnames share a record exactly when they are spellings of one label:
   hosts of different names never replace each other. *)
OneNameOneHost ==
  done => \A l, m \in {k \in leases : Named(k)} :
    NameOf[config][l.hostname] = NameOf[config][m.hostname]
      <=> Lower(TrimDots(Trim(l.hostname))) = Lower(TrimDots(Trim(m.hostname)))
=============================================================================
