------------------------------ MODULE DnsNames ------------------------------
(***************************************************************************)
(* dns/validation.rs, dns/name.rs and what config.rs and the planner make  *)
(* of names: which strings are names, and which names are below which.     *)
(*                                                                         *)
(* A string is a sequence of characters; there is one character, or more,  *)
(* of each kind the code tells apart.  The tests for a wildcard and for a  *)
(* leading underscore are part of the one for valid characters.            *)
(***************************************************************************)
EXTENDS Naturals, Sequences, FiniteSetsExt

CONSTANTS
  Alnum,     \* lower-case letters and digits
  Upper,     \* upper-case letters
  LowerOf,   \* the lower-case letter of each
  MaxLabel,  \* 63 in the code
  MaxName,   \* 253 in the code, which the name and a final dot must not exceed
  Invalid    \* an error instead of a name

Space == " "  \* for all that trim() takes off
Marks == {"-", ".", Space, "_"}
Char  == Alnum \cup Upper \cup Marks

ASSUME DnsNamesAssumption ==
  /\ (Alnum \cup Upper) \cap Marks = {}
  /\ Alnum \cap Upper = {}
  /\ LowerOf \in [Upper -> Alnum]
  /\ MaxLabel \in Nat /\ MaxName \in Nat
  /\ Invalid \notin Seq(Char)

----------------------------------------------------------------------------
(* What the functions of str do. *)

Trim(s) ==
  LET keep == {i \in DOMAIN s : s[i] # Space}
  IN  IF keep = {} THEN <<>> ELSE SubSeq(s, Min(keep), Max(keep))

TrimDots(s) == SubSeq(s, 1, Max({i \in DOMAIN s : s[i] # "."} \cup {0}))

Lower(s) == [i \in DOMAIN s |-> IF s[i] \in Upper THEN LowerOf[s[i]] ELSE s[i]]

(* split('.'): the pieces between dots; what counts is which they are. *)
Cuts(s)   == {0, Len(s) + 1} \cup {i \in DOMAIN s : s[i] = "."}
Labels(s) ==
  {SubSeq(s, c[1] + 1, c[2] - 1) : c \in
    {d \in Cuts(s) \X Cuts(s) : d[1] < d[2] /\ \A k \in Cuts(s) : k <= d[1] \/ k >= d[2]}}

----------------------------------------------------------------------------
(* validation.rs *)

validate_label(l) ==
  /\ l # <<>>
  /\ Len(l) <= MaxLabel
  /\ l[1] \in Alnum \cup Upper /\ l[Len(l)] \in Alnum \cup Upper
  /\ \A i \in DOMAIN l : l[i] \in Alnum \cup Upper \cup {"-"}

(* fault: of several labels the first is taken. *)
normalize_hostname_label_First(s) ==
  LET t == TrimDots(Trim(s))
      l == SubSeq(t, 1, Min({i \in DOMAIN t : t[i] = "."} \cup {Len(t) + 1}) - 1)
  IN  IF validate_label(Lower(l)) THEN Lower(l) ELSE Invalid
normalize_hostname_label(s) ==
  LET t == TrimDots(Trim(s))
  IN  IF "." \notin {t[i] : i \in DOMAIN t} /\ validate_label(Lower(t)) THEN Lower(t) ELSE Invalid

(* fault: the case is kept. *)
normalize_fqdn_AsWritten(s) ==
  LET t == TrimDots(Trim(s))
  IN  IF /\ \A l \in Labels(t) : validate_label(l)
         /\ Len(t) + 1 <= MaxName
      THEN t ELSE Invalid

(* Fqdn::parse too.  An empty string has one label, the empty one. *)
normalize_fqdn(s) ==
  LET t == Lower(TrimDots(Trim(s)))
  IN  IF /\ \A l \in Labels(t) : validate_label(l)
         /\ Len(t) + 1 <= MaxName
      THEN t ELSE Invalid

(* ends_with, and a dot before that end. *)
is_strict_subdomain(n, p) ==
  /\ Len(n) > Len(p)
  /\ \A i \in DOMAIN p : n[Len(n) - Len(p) + i] = p[i]
  /\ n[Len(n) - Len(p)] = "."

----------------------------------------------------------------------------
(* name.rs, planner.rs and config.rs *)

record_name_from_hostname(hostname, suffix) ==
  LET l == normalize_hostname_label(hostname)
  IN  IF l = Invalid THEN Invalid ELSE normalize_fqdn(l \o <<".">> \o suffix)

(* The name under which build_plan files a listed record, if it does. *)
managed_name(raw, suffix) ==
  LET n == normalize_fqdn(raw)
  IN  IF n # Invalid /\ is_strict_subdomain(n, suffix) THEN n ELSE Invalid

validate_record_scope(raw, dns_zone, suffix) ==
  LET n == normalize_fqdn(raw)
  IN  /\ n # Invalid
      /\ n # dns_zone
      /\ is_strict_subdomain(n, dns_zone)
      /\ is_strict_subdomain(n, suffix)
=============================================================================
