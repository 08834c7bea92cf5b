--------------------------- MODULE MCDesiredState ---------------------------
(* The instance of DesiredState that TLC checks. *)
EXTENDS DesiredState

Alphabet == {"a", "b"}
MCLowerOf == [c \in {"A"} |-> "a"]

(* Every string of up to three characters, of which there are two letters and one
   of each other kind; a label too long, and one to be trimmed twice. *)
MCHosts == UNION {[1..n -> Alphabet \cup {"A", "-", ".", " ", "_"}] : n \in 1..3}
             \cup {<<"a", "a", "a", "a">>, <<" ", "A", "b", ".", ".">>}

(* Zones and suffixes, well spelled, badly spelled and misplaced; subnet ids. *)
MCEnvs ==
  {[DHCP_SUBNET_IDS |-> ids, DNS_ZONE |-> z, MANAGED_RECORD_SUFFIX |-> s] :
     ids \in {{10, 20}, {10, 0}, {}},
     z \in {<<"A", ".">>, <<>>},
     s \in {<<" ", "a", ".", "A", ".">>, <<"b", "a">>, <<"a">>, <<"a", ".", ".", "a">>}}

Row(host, state, subnet, lifetime, expire) ==
  [hostname |-> host, state |-> state, subnet_id |-> subnet, valid_lft |-> lifetime,
   cltt |-> None, expire |-> expire]

(* Rows of the lease file, with Now = 2: live ones of two names that expire
   sooner or later, and one for each reason to skip. *)
CsvRows ==
  {Row(<<"A", ".">>, 0, 10, 3, 3), Row(<<"a">>, 0, 10, 3, 4), Row(<<"b">>, 0, 20, 3, 3),
   Row(<<"a">>, 2, 10, 3, 5), Row(<<"a">>, 0, 10, 0, 5), Row(<<"a">>, 0, 10, 3, 2),
   Row(<<"a">>, 0, 30, 3, 5), Row(<<"a", ".", "b">>, 0, 10, 3, 5), Row(NoHost, 0, 10, 3, 5)}

(* Leases a caller may pass that no row gives: an expiry to be added up, one
   that overflows, and missing fields. *)
OtherRows ==
  {[Row(<<"a">>, 0, 10, 2, None) EXCEPT !.cltt = 2],
   [Row(<<"a">>, 0, 10, 5, None) EXCEPT !.cltt = 4],
   Row(<<"a">>, None, None, None, None)}

At(ip, row) ==
  [ip_address |-> ip, hostname |-> row.hostname, state |-> row.state,
   subnet_id |-> row.subnet_id, valid_lft |-> row.valid_lft, cltt |-> row.cltt,
   expire |-> row.expire]

MCLeaseSets ==
  {{At(ip, f[ip]) : ip \in {j \in Addrs : f[j] # None}} :
     f \in [Addrs -> CsvRows \cup OtherRows \cup {None}]}
  \cup {{At(1, Row(<<"a">>, 0, 10, 3, 3)), At(2, Row(h, 0, 10, 3, 3))} : h \in MCHosts}
=============================================================================
