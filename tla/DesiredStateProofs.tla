------------------------- MODULE DesiredStateProofs -------------------------
(***************************************************************************)
(* The loop of build_desired_state keeps the best lease of each name, for  *)
(* every list of leases and every order: preference is a strict total      *)
(* order on leases of different addresses.  And the names it keeps them    *)
(* under, for every hostname and suffix of whatever length: they are known *)
(* again in any spelling, in scope, and one for each label.                *)
(***************************************************************************)
EXTENDS DesiredState, TLAPS, WellFoundedInduction

LEMMA TimestampType ==
  ASSUME NEW l \in Lease
  PROVE  ordering_timestamp(l) \in Nat
BY DesiredStateAssumption DEF Lease, Times, ordering_timestamp

(* Of two leases of different addresses one is preferred ... *)
LEMMA PreferTotal ==
  ASSUME NEW l \in Lease, NEW m \in Lease, l.ip_address # m.ip_address,
         ~prefer_candidate(l, m)
  PROVE  prefer_candidate(m, l)
<1>1. ordering_timestamp(l) \in Nat /\ ordering_timestamp(m) \in Nat
  BY TimestampType
<1>2. l.ip_address \in Nat /\ m.ip_address \in Nat
  BY DesiredStateAssumption DEF Lease
<1> QED BY <1>1, <1>2 DEF prefer_candidate

(* ... and preference is transitive. *)
LEMMA PreferTransitive ==
  ASSUME NEW l \in Lease, NEW m \in Lease, NEW k \in Lease,
         prefer_candidate(l, m), prefer_candidate(m, k)
  PROVE  prefer_candidate(l, k)
<1>1. /\ ordering_timestamp(l) \in Nat
      /\ ordering_timestamp(m) \in Nat
      /\ ordering_timestamp(k) \in Nat
  BY TimestampType
<1>2. l.ip_address \in Nat /\ m.ip_address \in Nat /\ k.ip_address \in Nat
  BY DesiredStateAssumption DEF Lease
<1> QED BY <1>1, <1>2 DEF prefer_candidate

LEMMA UsableNamed ==
  ASSUME NEW l \in Lease, Usable(l), config \in Configs
  PROVE  NameOf[config][l.hostname] \in Names
BY DEF Usable, Named, Lease, Names

LEMMA TypeInit == Init => TypeOK
BY DesiredStateAssumption DEF Init, TypeOK

LEMMA TypeStep == TypeOK /\ [Next]_vars => TypeOK'
<1> SUFFICES ASSUME TypeOK, [Next]_vars PROVE TypeOK'
  OBVIOUS
<1>1. ASSUME NEW l \in left, Skip(l) PROVE TypeOK'
  BY <1>1 DEF Skip, TypeOK
<1>2. ASSUME NEW l \in left, Consider(l) PROVE TypeOK'
  BY <1>2 DEF Consider, TypeOK
<1>3. CASE Return
  BY <1>3 DEF Return, TypeOK
<1>4. CASE UNCHANGED vars
  BY <1>4 DEF vars, TypeOK
<1> QED BY <1>1, <1>2, <1>3, <1>4 DEF Next

LEMMA TypeAlways == Spec => []TypeOK
BY TypeInit, TypeStep, PTL DEF Spec

LEMMA BestInit == Init => BestSoFar
BY DEF Init, BestSoFar, Seen

LEMMA BestStep == TypeOK /\ BestSoFar /\ [Next]_vars => BestSoFar'
<1> SUFFICES ASSUME TypeOK, BestSoFar, [Next]_vars PROVE BestSoFar'
  OBVIOUS
<1>a. config' = config /\ leases' = leases
  BY DEF Next, Skip, Consider, Return, vars
<1>b. ASSUME NEW l PROVE Usable(l)' <=> Usable(l)
  BY <1>a DEF Usable, Selected, Named
<1>c. ASSUME NEW n PROVE Seen(n)' = {l \in leases \ left' : Usable(l) /\ NameOf[config][l.hostname] = n}
  BY <1>a, <1>b DEF Seen
<1>1. ASSUME NEW l \in left, Skip(l) PROVE BestSoFar'
  <2>1. \A n : Seen(n)' = Seen(n)
    BY <1>1, <1>c DEF Skip, Seen
  <2> QED BY <1>1, <2>1 DEF Skip, BestSoFar
<1>2. ASSUME NEW l \in left, Consider(l) PROVE BestSoFar'
  <2>0. PICK n \in Names : n = NameOf[config][l.hostname]
    BY <1>2, UsableNamed DEF Consider, TypeOK
  <2> DEFINE c == candidates[n]
  <2>1. l \in Lease /\ l \in leases /\ Usable(l) /\ n = NameOf[config][l.hostname]
    BY <1>2, <2>0 DEF Consider, TypeOK
  <2>2. Seen(n)' = Seen(n) \cup {l} /\ l \notin Seen(n)
    BY <1>2, <1>c, <2>1 DEF Consider, Seen, TypeOK
  <2>3. \A k \in Names \ {n} : Seen(k)' = Seen(k) /\ candidates'[k] = candidates[k]
    BY <1>2, <1>c, <2>1 DEF Consider, Seen, TypeOK
  <2>4. candidates'[n] = IF c = None \/ prefer_candidate(l, c) THEN l ELSE c
    BY <1>2, <2>1 DEF Consider, TypeOK
  <2>5. \A m \in Seen(n) : m \in Lease /\ m.ip_address # l.ip_address
    BY <2>1, <2>2 DEF Seen, TypeOK
  <2>6. candidates'[n] \in Seen(n)'
        /\ \A m \in Seen(n)' \ {candidates'[n]} : prefer_candidate(candidates'[n], m)
    <3>1. CASE Seen(n) = {}
      <4>1. c = None
        BY <3>1, <2>1 DEF BestSoFar
      <4> QED BY <3>1, <4>1, <2>2, <2>4
    <3>2. CASE Seen(n) # {}
      <4>1. c \in Seen(n) /\ \A m \in Seen(n) \ {c} : prefer_candidate(c, m)
        BY <3>2, <2>1 DEF BestSoFar
      <4>2. CASE prefer_candidate(l, c)
        <5>1. \A m \in Seen(n) : prefer_candidate(l, m)
          BY <4>1, <4>2, <2>1, <2>5, PreferTransitive
        <5> QED BY <4>2, <5>1, <2>2, <2>4
      <4>3. CASE ~prefer_candidate(l, c)
        <5>1. prefer_candidate(c, l)
          BY <4>1, <4>3, <2>1, <2>5, PreferTotal
        <5>2. c # None
          BY <4>1, <2>5, DesiredStateAssumption
        <5> QED BY <4>1, <4>3, <5>1, <5>2, <2>2, <2>4
      <4> QED BY <4>2, <4>3
    <3> QED BY <3>1, <3>2
  <2> HIDE DEF c
  <2>7. ASSUME NEW k \in Names
        PROVE  IF Seen(k)' = {} THEN candidates'[k] = None
               ELSE /\ candidates'[k] \in Seen(k)'
                    /\ \A m \in Seen(k)' \ {candidates'[k]} :
                         prefer_candidate(candidates'[k], m)
    <3>1. CASE k = n
      BY <3>1, <2>6
    <3>2. CASE k # n
      BY <3>2, <2>3 DEF BestSoFar
    <3> QED BY <3>1, <3>2
  <2> QED BY <2>7 DEF BestSoFar
<1>3. CASE Return \/ UNCHANGED vars
  <2>1. left' = left /\ candidates' = candidates
    BY <1>3 DEF Return, vars
  <2>2. \A n : Seen(n)' = Seen(n)
    BY <2>1, <1>c DEF Seen
  <2> QED BY <2>1, <2>2 DEF BestSoFar
<1> QED BY <1>1, <1>2, <1>3 DEF Next

(* README: "the lease with the newest ordering timestamp is selected.  Ties are
   resolved deterministically by IPv4 address": at every point of the loop the
   candidate of a name is preferred to every other usable lease of that name
   seen so far, in whatever order they came. *)
THEOREM KeepsTheBest == Spec => []BestSoFar
<1>1. TypeOK /\ BestSoFar /\ [Next]_vars => TypeOK' /\ BestSoFar'
  BY TypeStep, BestStep
<1> QED BY <1>1, TypeInit, BestInit, PTL DEF Spec

----------------------------------------------------------------------------
(* The columns a row of the lease file has. *)
Columns(l) == l.cltt = None /\ l.expire # None /\ l.valid_lft # None

LEMMA ColumnTypes ==
  ASSUME NEW l \in Lease, Columns(l)
  PROVE  /\ l.expire \in Nat /\ l.valid_lft \in Nat /\ l.ip_address \in Nat
         /\ ordering_timestamp(l) = l.expire
         /\ is_active(l, Now) <=> l.state = 0 /\ l.valid_lft > 0 /\ Now < l.expire
<1>0. Times \subseteq Nat /\ Addrs \subseteq Nat
  BY DesiredStateAssumption DEF Times
<1>1. l.expire \in Nat /\ l.valid_lft \in Nat /\ l.ip_address \in Nat
  <2>1. /\ l.expire \in Times \cup {None}
        /\ l.valid_lft \in Times \cup {None}
        /\ l.ip_address \in Addrs
    BY DEF Lease
  <2>2. l.expire # None /\ l.valid_lft # None
    BY DEF Columns
  <2> QED BY <1>0, <2>1, <2>2
<1>2. Now \in Nat
  BY DesiredStateAssumption DEF Times
<1>3. expires_at(l) = l.expire /\ ordering_timestamp(l) = l.expire
  BY DEF Columns, expires_at, ordering_timestamp
<1> QED BY <1>1, <1>2, <1>3, DesiredStateAssumption DEF is_active, Columns

(* When the loop is over, what it has seen of a name is what is live of it. *)
LEMMA SeenIsLive ==
  ASSUME TypeOK, left = {}, \A l \in leases : Columns(l), NEW n \in Names
  PROVE  Seen(n) = Live(n)
<1> SUFFICES ASSUME NEW l \in leases
             PROVE  (Usable(l) /\ NameOf[config][l.hostname] = n) <=>
                      /\ l.subnet_id \in config.subnet_ids
                      /\ l.state = 0 /\ l.valid_lft > 0 /\ Now < l.expire
                      /\ l.hostname \in Hosts /\ NameOf[config][l.hostname] = n
  BY DEF Seen, Live
<1>1. l \in Lease /\ n # Invalid
  BY DEF TypeOK, Names
<1>2. l.hostname \in Hosts \cup {NoHost} /\ NoHost \notin Hosts
  BY <1>1, DesiredStateAssumption DEF Lease
<1> QED BY <1>1, <1>2, ColumnTypes DEF Usable, Selected, Named

(* A lease preferred to every other is the newest, and among the newest the one
   of the lowest address. *)
LEMMA BestIsOnly ==
  ASSUME NEW S \in SUBSET Lease, \A l \in S : Columns(l), NEW c \in S,
         \A m \in S \ {c} : prefer_candidate(c, m)
  PROVE  Lowest(Latest(S)) = {c}
<1>1. \A l \in S : l.expire \in Nat /\ l.ip_address \in Nat /\ ordering_timestamp(l) = l.expire
  BY ColumnTypes
<1>2. \A m \in S \ {c} :
        c.expire > m.expire \/ (c.expire = m.expire /\ c.ip_address < m.ip_address)
  BY <1>1 DEF prefer_candidate
<1>3. c \in Latest(S)
  BY <1>1, <1>2 DEF Latest
<1>4. c \in Lowest(Latest(S))
  BY <1>1, <1>2, <1>3 DEF Latest, Lowest
<1>5. ASSUME NEW m \in Lowest(Latest(S)), m # c PROVE FALSE
  <2>1. m \in S /\ m.expire >= c.expire /\ m.ip_address <= c.ip_address
    BY <1>3, <1>5 DEF Latest, Lowest
  <2> QED BY <1>1, <1>2, <1>5, <2>1
<1> QED BY <1>4, <1>5

LEMMA DoneMeansAll == Spec => [](done => left = {})
<1>1. Init => (done => left = {})
  BY DEF Init
<1>2. (done => left = {}) /\ [Next]_vars => (done => left = {})'
  BY DEF Next, Skip, Consider, Return, vars
<1> QED BY <1>1, <1>2, PTL DEF Spec

(* What is returned is what the README's words say of the whole list of leases,
   however the loop went through it. *)
THEOREM LoopIsOrderIndependent == Spec => []OrderIndependent
<1>1. ASSUME TypeOK, BestSoFar, done => left = {} PROVE OrderIndependent
  <2> SUFFICES ASSUME done, \A l \in leases : Columns(l)
               PROVE  Records =
                 UNION {{<<n, l.ip_address>> : l \in Lowest(Latest(Live(n)))} : n \in Names}
    BY DEF OrderIndependent, Columns
  <2>1. ASSUME NEW n \in Names
        PROVE  {<<n, l.ip_address>> : l \in Lowest(Latest(Live(n)))} =
                 IF candidates[n] = None THEN {} ELSE {<<n, candidates[n].ip_address>>}
    <3>1. Live(n) = Seen(n) /\ Seen(n) \in SUBSET Lease /\ \A l \in Seen(n) : Columns(l)
      BY <1>1, SeenIsLive DEF Seen, TypeOK
    <3>2. CASE Seen(n) = {}
      BY <1>1, <3>1, <3>2 DEF BestSoFar, Lowest, Latest
    <3>3. CASE Seen(n) # {}
      <4>1. candidates[n] \in Seen(n)
            /\ \A m \in Seen(n) \ {candidates[n]} : prefer_candidate(candidates[n], m)
        BY <1>1, <3>3 DEF BestSoFar
      <4>2. Lowest(Latest(Seen(n))) = {candidates[n]}
        BY <3>1, <4>1, BestIsOnly
      <4>3. candidates[n] # None
        BY <3>1, <4>1, DesiredStateAssumption
      <4> QED BY <3>1, <4>2, <4>3
    <3> QED BY <3>2, <3>3
  <2> QED BY <2>1 DEF Records
<1> QED BY <1>1, TypeAlways, KeepsTheBest, DoneMeansAll, PTL

----------------------------------------------------------------------------
(* Names.  Max of FiniteSetsExt is a CHOOSE: it is what it is said to be once there
   is such a thing. *)

LEMMA MinNat ==
  ASSUME NEW S \in SUBSET Nat, S # {}
  PROVE  \E m \in S : \A k \in S : m <= k
<1>1. IsWellFoundedOn(OpToRel(<, Nat), Nat)
  BY NatLessThanWellFounded
<1>2. PICK m \in S : \A y \in S : <<y, m>> \notin OpToRel(<, Nat)
  BY <1>1, WFMin
<1>3. \A y \in S : ~(y < m)
  BY <1>2 DEF OpToRel
<1> QED BY <1>3

LEMMA MaxNat ==
  ASSUME NEW b \in Nat, NEW S \in SUBSET (0..b), S # {}
  PROVE  \E m \in S : \A k \in S : k <= m
<1> DEFINE T == {b - k : k \in S}
<1>1. T \in SUBSET Nat /\ T # {}
  <2>1. \A k \in S : b - k \in Nat
    OBVIOUS
  <2> QED BY <2>1
<1>2. PICK t \in T : \A k \in T : t <= k
  BY <1>1, MinNat
<1>3. PICK m \in S : t = b - m
  OBVIOUS
<1>4. ASSUME NEW k \in S PROVE k <= m
  <2>1. b - k \in T /\ b - m <= b - k
    BY <1>2, <1>3
  <2> QED BY <2>1
<1> QED BY <1>4

LEMMA MaxIs ==
  ASSUME NEW S, NEW x \in S, \A y \in S : y \in Nat /\ y <= x
  PROVE  Max(S) = x
<1>1. x \in Nat /\ \A y \in S : x >= y
  OBVIOUS
<1>2. Max(S) \in S /\ \A y \in S : Max(S) >= y
  BY <1>1, Zenon DEF Max
<1>3. ASSUME NEW m \in S, \A y \in S : m >= y PROVE m = x
  <2>1. m \in Nat /\ m <= x /\ m >= x
    BY <1>3
  <2> QED BY <1>1, <2>1
<1> QED BY <1>2, <1>3, Zenon

LEMMA MinIs ==
  ASSUME NEW S, NEW x \in S, \A y \in S : y \in Nat /\ x <= y
  PROVE  Min(S) = x
<1>1. x \in Nat /\ \A y \in S : x <= y
  OBVIOUS
<1>2. Min(S) \in S /\ \A y \in S : Min(S) <= y
  BY <1>1, Zenon DEF Min
<1>3. ASSUME NEW m \in S, \A y \in S : m <= y PROVE m = x
  <2>1. m \in Nat /\ x <= m /\ m <= x
    BY <1>3
  <2> QED BY <1>1, <2>1
<1> QED BY <1>2, <1>3, Zenon

----------------------------------------------------------------------------
(* The labels of a name, one after another: what is between neighbouring cuts. *)

Neighbours(s, c, d) ==
  c \in Cuts(s) /\ d \in Cuts(s) /\ c < d /\ \A k \in Cuts(s) : k <= c \/ k >= d

LEMMA CutsAre ==
  ASSUME NEW s \in Seq(Char)
  PROVE  /\ Cuts(s) \subseteq 0..(Len(s) + 1) /\ 0 \in Cuts(s) /\ Len(s) + 1 \in Cuts(s)
         /\ \A i \in 1..Len(s) : i \in Cuts(s) <=> s[i] = "."
BY DEF Cuts

LEMMA CutBefore ==
  ASSUME NEW s \in Seq(Char), NEW i \in 1..(Len(s) + 1)
  PROVE  \E c \in Cuts(s) : c < i /\ \A k \in Cuts(s) : k < i => k <= c
<1> DEFINE S == {k \in Cuts(s) : k < i}
<1>1. S \in SUBSET (0..(Len(s) + 1)) /\ 0 \in S /\ Len(s) + 1 \in Nat
  BY CutsAre
<1>2. PICK c \in S : \A k \in S : k <= c
  BY <1>1, MaxNat
<1> QED BY <1>2

LEMMA CutAfter ==
  ASSUME NEW s \in Seq(Char), NEW i \in 0..Len(s)
  PROVE  \E d \in Cuts(s) : i < d /\ \A k \in Cuts(s) : i < k => d <= k
<1> DEFINE S == {k \in Cuts(s) : i < k}
<1>1. S \in SUBSET Nat /\ Len(s) + 1 \in S
  BY CutsAre
<1>2. PICK d \in S : \A k \in S : d <= k
  BY <1>1, MinNat
<1> QED BY <1>2

(* What normalize_fqdn returns, if not an error. *)
IsName(n) ==
  /\ n \in Seq(Char)
  /\ \A l \in Labels(n) : validate_label(l)
  /\ Len(n) + 1 <= MaxName
  /\ \A i \in 1..Len(n) : n[i] \notin Upper

LEMMA LabelOf ==
  ASSUME NEW n, IsName(n), NEW c, NEW d, Neighbours(n, c, d)
  PROVE  /\ c + 1 \in 1..Len(n) /\ d - 1 \in (c + 1)..Len(n)
         /\ n[c + 1] \in Alnum /\ n[d - 1] \in Alnum
         /\ \A i \in (c + 1)..(d - 1) : n[i] \in Alnum \cup {"-"}
<1> DEFINE l == SubSeq(n, c + 1, d - 1)
<1>1. /\ n \in Seq(Char) /\ c \in 0..(Len(n) + 1) /\ d \in 0..(Len(n) + 1) /\ c < d
      /\ \A i \in 1..Len(n) : n[i] \notin Upper
  BY CutsAre DEF Neighbours, IsName
<1>2. l \in Labels(n)
  <2> DEFINE D == {e \in Cuts(n) \X Cuts(n) :
                     e[1] < e[2] /\ \A k \in Cuts(n) : k <= e[1] \/ k >= e[2]}
  <2>1. <<c, d>> \in D /\ <<c, d>>[1] = c /\ <<c, d>>[2] = d
    BY DEF Neighbours
  <2> HIDE DEF D
  <2>2. l \in {SubSeq(n, e[1] + 1, e[2] - 1) : e \in D}
    BY <2>1
  <2> QED BY <2>2 DEF Labels, D
<1>3. validate_label(l)
  BY <1>2 DEF IsName
<1>4. d - 1 >= c + 1
  <2>1. ASSUME d - 1 < c + 1 PROVE l = <<>>
    BY <1>1, <2>1
  <2> QED BY <1>1, <1>3, <2>1 DEF validate_label
<1>5. /\ Len(l) = d - c - 1 /\ \A i \in 1..(d - c - 1) : l[i] = n[c + i]
      /\ DOMAIN l = 1..(d - c - 1)
  BY <1>1, <1>4
<1>6. /\ l[1] = n[c + 1] /\ l[Len(l)] = n[d - 1]
      /\ \A i \in (c + 1)..(d - 1) : n[i] = l[i - c] /\ i - c \in DOMAIN l
  BY <1>1, <1>4, <1>5
<1> HIDE DEF l
<1>7. /\ l[1] \in Alnum \cup Upper /\ l[Len(l)] \in Alnum \cup Upper
      /\ \A i \in DOMAIN l : l[i] \in Alnum \cup Upper \cup {"-"}
  BY <1>3 DEF validate_label
<1>8. c + 1 \in 1..Len(n) /\ d - 1 \in (c + 1)..Len(n)
  BY <1>1, <1>4
<1>9. n[c + 1] \in Alnum /\ n[d - 1] \in Alnum
  BY <1>1, <1>6, <1>7, <1>8
<1>10. ASSUME NEW i \in (c + 1)..(d - 1) PROVE n[i] \in Alnum \cup {"-"}
  <2>1. i \in 1..Len(n)
    BY <1>1, <1>8
  <2> QED BY <1>1, <1>6, <1>7, <2>1
<1> QED BY <1>8, <1>9, <1>10

(* A normalised name begins and ends with a letter or a digit, and there are only
   these, hyphens and dots in it. *)
LEMMA NameChars ==
  ASSUME NEW n, IsName(n)
  PROVE  /\ n \in Seq(Char) /\ Len(n) \in Nat /\ Len(n) >= 1
         /\ n[1] \in Alnum /\ n[Len(n)] \in Alnum
         /\ \A i \in 1..Len(n) : n[i] \in Alnum \cup {"-", "."}
<1>1. n \in Seq(Char) /\ Len(n) \in Nat
  BY DEF IsName
<1>2. PICK d \in Cuts(n) : 0 < d /\ \A k \in Cuts(n) : 0 < k => d <= k
  BY <1>1, CutAfter
<1>3. Neighbours(n, 0, d)
  BY <1>1, <1>2, CutsAre DEF Neighbours
<1>4. Len(n) >= 1 /\ n[1] \in Alnum
  BY <1>1, <1>3, LabelOf
<1>5. PICK c \in Cuts(n) : c < Len(n) + 1 /\ \A k \in Cuts(n) : k < Len(n) + 1 => k <= c
  BY <1>1, CutBefore
<1>6. Neighbours(n, c, Len(n) + 1)
  BY <1>1, <1>5, CutsAre DEF Neighbours
<1>7. n[Len(n)] \in Alnum
  BY <1>1, <1>6, LabelOf
<1>8. ASSUME NEW i \in 1..Len(n), n[i] # "." PROVE n[i] \in Alnum \cup {"-"}
  <2>1. PICK b \in Cuts(n) : b < i /\ \A k \in Cuts(n) : k < i => k <= b
    BY <1>1, CutBefore
  <2>2. PICK e \in Cuts(n) : i < e /\ \A k \in Cuts(n) : i < k => e <= k
    BY <1>1, CutAfter
  <2>3. i \notin Cuts(n) /\ Cuts(n) \subseteq 0..(Len(n) + 1)
    BY <1>1, <1>8, CutsAre
  <2>4. Neighbours(n, b, e) /\ i \in (b + 1)..(e - 1)
    BY <2>1, <2>2, <2>3 DEF Neighbours
  <2> QED BY <2>4, LabelOf
<1> QED BY <1>1, <1>4, <1>7, <1>8

----------------------------------------------------------------------------
(* Trimming and lower case. *)

LEMMA LowerIs ==
  ASSUME NEW s \in Seq(Char)
  PROVE  /\ Lower(s) \in Seq(Char) /\ Len(Lower(s)) = Len(s)
         /\ \A i \in 1..Len(s) :
              /\ Lower(s)[i] = IF s[i] \in Upper THEN LowerOf[s[i]] ELSE s[i]
              /\ Lower(s)[i] \notin Upper
<1>1. DOMAIN s = 1..Len(s) /\ \A i \in 1..Len(s) : s[i] \in Char
  OBVIOUS
<1> QED BY <1>1, DnsNamesAssumption DEF Lower, Char

(* What is between first and last of what is not blank; of that, up to the last of
   what is not a dot. *)
LEMMA TrimIs ==
  ASSUME NEW s \in Seq(Char), NEW a \in 1..Len(s), NEW b \in a..Len(s),
         s[a] # Space, s[b] # Space,
         \A i \in 1..Len(s) : i < a \/ b < i => s[i] = Space
  PROVE  Trim(s) = SubSeq(s, a, b)
<1> DEFINE keep == {i \in DOMAIN s : s[i] # Space}
<1>1. /\ a \in keep /\ b \in keep
      /\ \A i \in keep : i \in Nat /\ a <= i /\ i <= b
  OBVIOUS
<1> HIDE DEF keep
<1>2. keep # {} /\ Min(keep) = a /\ Max(keep) = b
  BY <1>1, MinIs, MaxIs
<1> QED BY <1>2 DEF Trim, keep

LEMMA TrimDotsIs ==
  ASSUME NEW s \in Seq(Char), NEW b \in 1..Len(s), s[b] # ".",
         \A i \in (b + 1)..Len(s) : s[i] = "."
  PROVE  TrimDots(s) = SubSeq(s, 1, b)
<1> DEFINE keep == {i \in DOMAIN s : s[i] # "."} \cup {0}
<1>1. b \in keep /\ \A i \in keep : i \in Nat /\ i <= b
  OBVIOUS
<1> HIDE DEF keep
<1>2. Max(keep) = b
  BY <1>1, MaxIs
<1> QED BY <1>2 DEF TrimDots, keep

(* Whatever is trimmed, it is a string. *)
LEMMA TrimType ==
  ASSUME NEW s \in Seq(Char)
  PROVE  Trim(s) \in Seq(Char)
<1> DEFINE keep == {i \in DOMAIN s : s[i] # Space}
<1>1. CASE keep = {}
  BY <1>1 DEF Trim
<1>2. CASE keep # {}
  <2>1. /\ keep \in SUBSET (0..Len(s)) /\ keep \in SUBSET Nat /\ Len(s) \in Nat
        /\ \A i \in keep : i \in Nat /\ i \in 1..Len(s)
    OBVIOUS
  <2> HIDE DEF keep
  <2>2. PICK a \in keep : \A i \in keep : a <= i
    BY <1>2, <2>1, MinNat
  <2>3. PICK b \in keep : \A i \in keep : i <= b
    BY <1>2, <2>1, MaxNat
  <2>4. Min(keep) = a /\ Max(keep) = b
    BY <2>1, <2>2, <2>3, MinIs, MaxIs
  <2>5. a \in 1..Len(s) /\ b \in a..Len(s)
    BY <2>1, <2>2, <2>3
  <2>6. SubSeq(s, a, b) \in Seq(Char)
    BY <2>5
  <2> QED BY <1>2, <2>4, <2>6 DEF Trim, keep
<1> QED BY <1>1, <1>2

LEMMA TrimDotsType ==
  ASSUME NEW s \in Seq(Char)
  PROVE  TrimDots(s) \in Seq(Char)
<1> DEFINE keep == {i \in DOMAIN s : s[i] # "."} \cup {0}
<1>1. /\ keep \in SUBSET (0..Len(s)) /\ keep # {} /\ Len(s) \in Nat
      /\ \A i \in keep : i \in Nat
  OBVIOUS
<1> HIDE DEF keep
<1>2. PICK b \in keep : \A i \in keep : i <= b
  BY <1>1, MaxNat
<1>3. Max(keep) = b /\ b \in 0..Len(s)
  BY <1>1, <1>2, MaxIs
<1>4. SubSeq(s, 1, b) \in Seq(Char)
  BY <1>3
<1> QED BY <1>3, <1>4 DEF TrimDots, keep

Core(s) == Lower(TrimDots(Trim(s)))

(* normalize_fqdn returns a name or an error, and a name is what it began with. *)
LEMMA NormalizeGives ==
  ASSUME NEW s \in Seq(Char), normalize_fqdn(s) # Invalid
  PROVE  IsName(normalize_fqdn(s)) /\ normalize_fqdn(s) = Core(s)
<1>1. Core(s) \in Seq(Char) /\ \A i \in 1..Len(Core(s)) : Core(s)[i] \notin Upper
  BY TrimType, TrimDotsType, LowerIs DEF Core
<1> QED BY <1>1 DEF normalize_fqdn, Core, IsName

LEMMA NormalizeKeeps ==
  ASSUME NEW s, IsName(Core(s))
  PROVE  normalize_fqdn(s) = Core(s) /\ normalize_fqdn(s) # Invalid
<1>1. normalize_fqdn(s) = Core(s)
  BY DEF normalize_fqdn, Core, IsName
<1> QED BY <1>1, DnsNamesAssumption DEF IsName

(* A string without blanks or dots at its ends and without capitals is as it is. *)
LEMMA CoreSame ==
  ASSUME NEW s \in Seq(Char), Len(s) >= 1, s[1] # Space, s[Len(s)] \notin {Space, "."},
         \A i \in 1..Len(s) : s[i] \notin Upper
  PROVE  Core(s) = s
<1>1. SubSeq(s, 1, Len(s)) = s
  OBVIOUS
<1>2. Trim(s) = s
  BY <1>1, TrimIs
<1>3. TrimDots(s) = s
  BY <1>1, TrimDotsIs
<1>4. Lower(s) = s
  BY LowerIs
<1> QED BY <1>2, <1>3, <1>4 DEF Core

LEMMA NotMarks ==
  /\ \A x \in Alnum \cup Upper : x \notin {Space, ".", "-", "_"}
  /\ \A x \in Alnum \cup Marks : x \notin Upper
  /\ Space # "." /\ Space # "-" /\ Space \in Char /\ "." \in Char
<1>1. Space # "." /\ Space # "-"
  BY Zenon DEF Space
<1> QED BY <1>1, DnsNamesAssumption DEF Marks, Char

LEMMA CoreOfName ==
  ASSUME NEW n, IsName(n)
  PROVE  Core(n) = n
BY NameChars, NotMarks, CoreSame DEF IsName

(* normalize_fqdn leaves what it returns as it is, for every string: a name that
   was normalised twice, by the configuration and again by the planner, is the
   same, which SyncCycle takes for granted of KeyOf. *)
THEOREM NormalizeIdempotent ==
  \A s \in Seq(Char) :
    LET n == normalize_fqdn(s) IN n # Invalid => normalize_fqdn(n) = n
<1> SUFFICES ASSUME NEW s \in Seq(Char), normalize_fqdn(s) # Invalid
             PROVE  normalize_fqdn(normalize_fqdn(s)) = normalize_fqdn(s)
  OBVIOUS
<1> DEFINE n == normalize_fqdn(s)
<1>1. IsName(n)
  BY NormalizeGives
<1> HIDE DEF n
<1>2. normalize_fqdn(n) = n
  BY <1>1, CoreOfName, NormalizeKeeps
<1> QED BY <1>2 DEF n

LEMMA OneChar ==
  ASSUME NEW x \in Char
  PROVE  <<x>> \in Seq(Char) /\ Len(<<x>>) = 1 /\ <<x>>[1] = x
OBVIOUS

(* The service knows a name again however it is spelled. *)
LEMMA CoreOfSpelling ==
  ASSUME NEW n, IsName(n), NEW raw \in Spellings(n)
  PROVE  Core(raw) = n
<1>1. /\ n \in Seq(Char) /\ Len(n) \in Nat /\ Len(n) >= 1
      /\ n[1] \notin {Space, "."} /\ n[Len(n)] \notin {Space, "."}
      /\ Lower(n) = n
  <2>1. /\ n \in Seq(Char) /\ Len(n) \in Nat /\ Len(n) >= 1
        /\ n[1] \in Alnum /\ n[Len(n)] \in Alnum
    BY NameChars
  <2>2. Lower(n) = n
    BY <2>1, LowerIs DEF IsName
  <2> QED BY <2>1, <2>2, NotMarks
<1>2. CASE raw = n
  BY <1>2, CoreOfName
<1>3. CASE raw = n \o <<".">>
  <2>1. /\ raw \in Seq(Char) /\ Len(raw) = Len(n) + 1 /\ raw[Len(raw)] = "."
        /\ \A i \in 1..Len(n) : raw[i] = n[i]
    <3>1. <<".">> \in Seq(Char) /\ Len(<<".">>) = 1 /\ <<".">>[1] = "."
      BY NotMarks, OneChar
    <3> QED BY <1>1, <1>3, <3>1
  <2>2. Trim(raw) = SubSeq(raw, 1, Len(raw))
    <3>1. 1 \in 1..Len(n) /\ 1 \in 1..Len(raw) /\ Len(raw) \in 1..Len(raw)
      BY <1>1, <2>1
    <3>2. raw[1] # Space /\ raw[Len(raw)] # Space
      BY <1>1, <2>1, <3>1, NotMarks
    <3> QED BY <2>1, <3>1, <3>2, TrimIs
  <2>3. SubSeq(raw, 1, Len(raw)) = raw
    BY <2>1
  <2>4. TrimDots(raw) = SubSeq(raw, 1, Len(n))
    BY <1>1, <2>1, TrimDotsIs
  <2>5. SubSeq(raw, 1, Len(n)) = n
    BY <1>1, <2>1
  <2> QED BY <1>1, <2>2, <2>3, <2>4, <2>5 DEF Core
<1>4. CASE raw = <<Space>> \o n
  <2>1. /\ raw \in Seq(Char) /\ Len(raw) = Len(n) + 1 /\ raw[1] = Space
        /\ \A i \in 1..Len(n) : raw[i + 1] = n[i]
    <3>1. <<Space>> \in Seq(Char) /\ Len(<<Space>>) = 1 /\ <<Space>>[1] = Space
      BY NotMarks, OneChar
    <3> QED BY <1>1, <1>4, <3>1
  <2>2. raw[2] = n[1] /\ raw[Len(raw)] = n[Len(n)]
    BY <1>1, <2>1
  <2>3. Trim(raw) = SubSeq(raw, 2, Len(raw))
    <3>1. raw[2] # Space /\ raw[Len(raw)] # Space /\ 2 \in 1..Len(raw) /\ Len(raw) \in 2..Len(raw)
          /\ \A i \in 1..Len(raw) : i < 2 \/ Len(raw) < i => raw[i] = Space
      BY <1>1, <2>1, <2>2
    <3> QED BY <2>1, <3>1, TrimIs
  <2>4. SubSeq(raw, 2, Len(raw)) = n
    BY <1>1, <2>1
  <2>5. TrimDots(n) = SubSeq(n, 1, Len(n)) /\ SubSeq(n, 1, Len(n)) = n
    BY <1>1, TrimDotsIs
  <2> QED BY <1>1, <2>3, <2>4, <2>5 DEF Core
<1>5. CASE raw = [i \in DOMAIN n |-> IF \E u \in Upper : LowerOf[u] = n[i]
                    THEN CHOOSE u \in Upper : LowerOf[u] = n[i] ELSE n[i]]
  <2>1. DOMAIN raw = 1..Len(n)
    BY <1>1, <1>5
  <2>2. ASSUME NEW i \in 1..Len(n)
        PROVE  \/ raw[i] \in Upper /\ LowerOf[raw[i]] = n[i]
               \/ raw[i] = n[i]
    <3>1. CASE \E u \in Upper : LowerOf[u] = n[i]
      <4>1. raw[i] = CHOOSE u \in Upper : LowerOf[u] = n[i]
        BY <1>1, <1>5, <3>1
      <4> QED BY <3>1, <4>1
    <3>2. CASE ~ \E u \in Upper : LowerOf[u] = n[i]
      BY <1>1, <1>5, <3>2
    <3> QED BY <3>1, <3>2
  <2>3. raw \in Seq(Char) /\ Len(raw) = Len(n)
    BY <1>1, <1>5, <2>1, <2>2 DEF Char
  <2>4. raw[1] # Space /\ raw[Len(raw)] \notin {Space, "."}
    <3>1. 1 \in 1..Len(n) /\ Len(n) \in 1..Len(n)
      BY <1>1
    <3>2. raw[1] \in Upper \/ raw[1] = n[1]
      BY <2>2, <3>1
    <3>3. raw[Len(n)] \in Upper \/ raw[Len(n)] = n[Len(n)]
      BY <2>2, <3>1
    <3> QED BY <1>1, <2>3, <3>2, <3>3, NotMarks
  <2>5. SubSeq(raw, 1, Len(raw)) = raw
    BY <2>3
  <2>6. Trim(raw) = raw
    BY <1>1, <2>3, <2>4, <2>5, TrimIs
  <2>7. TrimDots(raw) = raw
    BY <1>1, <2>3, <2>4, <2>5, TrimDotsIs
  <2>8. \A i \in 1..Len(n) : Lower(raw)[i] = n[i]
    BY <2>2, <2>3, LowerIs DEF IsName
  <2>9. Lower(raw) = n
    BY <1>1, <2>3, <2>8, LowerIs
  <2> QED BY <2>6, <2>7, <2>9 DEF Core
<1> QED BY <1>2, <1>3, <1>4, <1>5 DEF Spellings

----------------------------------------------------------------------------
(* A configuration that was accepted, and the names it gives. *)

LEMMA ConfigNames ==
  ASSUME NEW c \in Configs
  PROVE  /\ IsName(c.suffix) /\ IsName(c.zone)
         /\ is_strict_subdomain(c.suffix, c.zone)
<1>1. PICK e \in Envs : c = from_getter(e) /\ c # Rejected
  BY DEF Configs
<1>2. /\ WellFormed(e) /\ is_strict_subdomain(Parsed(e).suffix, Parsed(e).zone)
      /\ c = Parsed(e)
  BY <1>1 DEF from_getter
<1>3. e.DNS_ZONE \in Seq(Char) /\ e.MANAGED_RECORD_SUFFIX \in Seq(Char)
  BY ConfigAssumption DEF Env
<1>4. c.zone = normalize_fqdn(e.DNS_ZONE) /\ c.suffix = normalize_fqdn(e.MANAGED_RECORD_SUFFIX)
  BY <1>2 DEF Parsed
<1> QED BY <1>2, <1>3, <1>4, NormalizeGives DEF WellFormed

(* What is below something below p is below p. *)
LEMMA BelowBelow ==
  ASSUME NEW n \in Seq(Char), NEW m \in Seq(Char), NEW p \in Seq(Char),
         is_strict_subdomain(n, m), is_strict_subdomain(m, p)
  PROVE  is_strict_subdomain(n, p) /\ n # p
<1>1. /\ Len(n) \in Nat /\ Len(m) \in Nat /\ Len(p) \in Nat
      /\ Len(n) > Len(m) /\ Len(m) > Len(p)
      /\ \A i \in 1..Len(m) : n[Len(n) - Len(m) + i] = m[i]
      /\ \A i \in 1..Len(p) : m[Len(m) - Len(p) + i] = p[i]
      /\ m[Len(m) - Len(p)] = "."
  BY DEF is_strict_subdomain
<1>2. ASSUME NEW i \in 1..Len(p) PROVE n[Len(n) - Len(p) + i] = p[i]
  <2> DEFINE j == Len(m) - Len(p) + i
  <2>1. j \in 1..Len(m) /\ Len(n) - Len(m) + j = Len(n) - Len(p) + i
    BY <1>1
  <2>2. n[Len(n) - Len(m) + j] = m[j] /\ m[j] = p[i]
    BY <1>1, <2>1
  <2> HIDE DEF j
  <2> QED BY <2>1, <2>2
<1>3. n[Len(n) - Len(p)] = "."
  <2> DEFINE j == Len(m) - Len(p)
  <2>1. j \in 1..Len(m) /\ Len(n) - Len(m) + j = Len(n) - Len(p)
    BY <1>1
  <2>2. n[Len(n) - Len(m) + j] = m[j] /\ m[j] = "."
    BY <1>1, <2>1
  <2> HIDE DEF j
  <2> QED BY <2>1, <2>2
<1>4. DOMAIN p = 1..Len(p)
  OBVIOUS
<1> QED BY <1>1, <1>2, <1>3, <1>4 DEF is_strict_subdomain

(* ends_with after a dot, in other words: there are labels before. *)
LEMMA SubdomainIsBelow ==
  ASSUME NEW n, IsName(n), NEW p \in Seq(Char), is_strict_subdomain(n, p)
  PROVE  Below(n, p)
<1> DEFINE k == Len(n) - Len(p)
<1>1. n \in Seq(Char) /\ n[1] # "."
  BY NameChars, NotMarks
<1>2. /\ Len(n) \in Nat /\ Len(p) \in Nat /\ DOMAIN p = 1..Len(p)
  BY <1>1
<1>3. /\ Len(n) > Len(p) /\ n[k] = "."
      /\ \A i \in 1..Len(p) : n[k + i] = p[i]
  BY <1>2 DEF is_strict_subdomain
<1>4. k \in 2..Len(n)
  <2>1. k # 1
    BY <1>1, <1>3
  <2> QED BY <1>2, <1>3, <2>1
<1>5. SubSeq(n, k + 1, Len(n)) = p
  <2> DEFINE q == SubSeq(n, k + 1, Len(n))
  <2>1. /\ q \in Seq(Char) /\ Len(q) = Len(p)
        /\ \A i \in 1..Len(p) : q[i] = n[k + i]
    BY <1>1, <1>2, <1>4
  <2> HIDE DEF q
  <2> QED BY <1>2, <1>3, <2>1
<1> HIDE DEF k
<1> QED BY <1>3, <1>4, <1>5 DEF Below

(* A record name is the label of the host before the suffix. *)
LEMMA RecordNameIs ==
  ASSUME NEW h \in Seq(Char), NEW p, IsName(p), record_name_from_hostname(h, p) # Invalid
  PROVE  /\ Core(h) \in Seq(Char)
         /\ record_name_from_hostname(h, p) = Core(h) \o <<".">> \o p
         /\ IsName(record_name_from_hostname(h, p))
         /\ is_strict_subdomain(record_name_from_hostname(h, p), p)
<1> DEFINE l == Core(h)
           w == l \o <<".">> \o p
<1>1. /\ l \in Seq(Char) /\ Len(l) \in Nat /\ \A i \in 1..Len(l) : l[i] \notin Upper
      /\ validate_label(l) /\ normalize_hostname_label(h) = l
      /\ record_name_from_hostname(h, p) = normalize_fqdn(w)
  BY TrimType, TrimDotsType, LowerIs
  DEF record_name_from_hostname, normalize_hostname_label, Core
<1>2. Len(l) >= 1 /\ l[1] \in Alnum
  BY <1>1 DEF validate_label
<1> HIDE DEF l
<1>3. /\ p \in Seq(Char) /\ Len(p) \in Nat /\ Len(p) >= 1 /\ p[Len(p)] \in Alnum
      /\ \A i \in 1..Len(p) : p[i] \notin Upper
  BY NameChars DEF IsName
<1>4. /\ <<".">> \in Seq(Char) /\ Len(<<".">>) = 1 /\ <<".">>[1] = "."
  BY NotMarks, OneChar
<1>5. /\ w \in Seq(Char) /\ Len(w) = Len(l) + 1 + Len(p)
      /\ \A i \in 1..Len(l) : w[i] = l[i]
      /\ w[Len(l) + 1] = "."
      /\ \A i \in 1..Len(p) : w[Len(l) + 1 + i] = p[i]
  BY <1>1, <1>3, <1>4
<1> HIDE DEF w
<1>6. w[1] = l[1] /\ w[Len(w)] = p[Len(p)]
  BY <1>1, <1>2, <1>3, <1>5
<1>7. \A i \in 1..Len(w) : w[i] \notin Upper
  <2> SUFFICES ASSUME NEW i \in 1..Len(w) PROVE w[i] \notin Upper
    OBVIOUS
  <2>1. CASE i \in 1..Len(l)
    BY <1>1, <1>5, <2>1
  <2>2. CASE i = Len(l) + 1
    BY <1>5, <2>2, NotMarks
  <2>3. CASE i > Len(l) + 1
    <3>1. i - Len(l) - 1 \in 1..Len(p) /\ Len(l) + 1 + (i - Len(l) - 1) = i
      BY <1>1, <1>3, <1>5, <2>3
    <3> QED BY <1>3, <1>5, <3>1
  <2> QED BY <1>1, <2>1, <2>2, <2>3
<1>8. Core(w) = w
  <2>1. w[1] # Space /\ w[Len(w)] \notin {Space, "."}
    BY <1>2, <1>3, <1>6, NotMarks
  <2>2. Len(w) >= 1
    BY <1>1, <1>3, <1>5
  <2> QED BY <1>5, <1>7, <2>1, <2>2, CoreSame
<1>9. record_name_from_hostname(h, p) = w /\ IsName(w)
  BY <1>1, <1>5, <1>8, NormalizeGives
<1>10. is_strict_subdomain(w, p)
  <2>1. DOMAIN p = 1..Len(p) /\ Len(w) - Len(p) = Len(l) + 1
    BY <1>1, <1>3, <1>5
  <2>2. Len(w) > Len(p)
    BY <1>1, <1>3, <1>5
  <2> QED BY <1>5, <2>1, <2>2 DEF is_strict_subdomain
<1> QED BY <1>1, <1>9, <1>10 DEF w, l

LEMMA NameOfIs ==
  ASSUME NEW c \in Configs, NEW h \in Hosts
  PROVE  NameOf[c][h] = record_name_from_hostname(h, c.suffix) /\ h \in Seq(Char)
BY DesiredStateAssumption DEF NameOf

(* What the service publishes it will know again: the record of a host, whether
   the server gives its name with a final dot, in capitals or with blanks, is
   filed under the name it was made for, and is in scope.  A record that were not
   would be created anew by every cycle. *)
THEOREM KnowsItsOwnAlways == Spec => []KnowsItsOwn
<1>1. ASSUME TypeOK, BestSoFar PROVE KnowsItsOwn
  <2> SUFFICES ASSUME NEW n \in Names, candidates[n] # None
               PROVE  /\ \A raw \in Spellings(n) : managed_name(raw, config.suffix) = n
                      /\ validate_record_scope(n, config.zone, config.suffix)
    BY DEF KnowsItsOwn
  <2>1. candidates[n] \in Seen(n)
    BY <1>1 DEF BestSoFar
  <2>2. PICK h \in Hosts : n = NameOf[config][h] /\ n # Invalid
    BY <1>1, <2>1 DEF Seen, Usable, Named, TypeOK, Lease
  <2>3. /\ config \in Configs /\ IsName(config.suffix) /\ IsName(config.zone)
        /\ is_strict_subdomain(config.suffix, config.zone)
    BY <1>1, ConfigNames DEF TypeOK
  <2>4. IsName(n) /\ is_strict_subdomain(n, config.suffix)
    BY <2>2, <2>3, NameOfIs, RecordNameIs
  <2>5. ASSUME NEW raw \in Spellings(n) PROVE normalize_fqdn(raw) = n
    BY <2>4, CoreOfSpelling, NormalizeKeeps
  <2>6. normalize_fqdn(n) = n
    BY <2>4, CoreOfName, NormalizeKeeps
  <2>7. is_strict_subdomain(n, config.zone) /\ n # config.zone
    BY <2>3, <2>4, BelowBelow DEF IsName
  <2> QED
    BY <2>2, <2>4, <2>5, <2>6, <2>7 DEF managed_name, validate_record_scope
<1> QED BY <1>1, TypeAlways, KeepsTheBest, PTL

(* README: "Only records inside DNS_ZONE are managed", "Only records below
   MANAGED_RECORD_SUFFIX are managed", "The zone apex is never managed": the
   planner asks for the suffix alone, and that is enough. *)
THEOREM ScopeByTheRulesAlways == Spec => []ScopeByTheRules
<1>1. ASSUME TypeOK PROVE ScopeByTheRules
  <2> SUFFICES ASSUME NEW h \in {l.hostname : l \in leases} \ {NoHost},
                      NEW raw \in {h, h \o <<".">> \o config.suffix, h \o config.suffix}
               PROVE  LET n == managed_name(raw, config.suffix)
                      IN  /\ n # Invalid <=>
                               validate_record_scope(raw, config.zone, config.suffix)
                          /\ n # Invalid =>
                               Below(n, config.suffix) /\ Below(n, config.zone)
    BY DEF ScopeByTheRules
  <2> DEFINE n == normalize_fqdn(raw)
  <2>1. /\ config \in Configs /\ IsName(config.suffix) /\ IsName(config.zone)
        /\ config.suffix \in Seq(Char) /\ config.zone \in Seq(Char)
        /\ is_strict_subdomain(config.suffix, config.zone)
    BY <1>1, ConfigNames DEF TypeOK, IsName
  <2>2. raw \in Seq(Char)
    <3>1. h \in Seq(Char)
      BY <1>1, DesiredStateAssumption DEF TypeOK, Lease
    <3>2. <<".">> \in Seq(Char)
      BY NotMarks, OneChar
    <3>3. h \o config.suffix \in Seq(Char) /\ h \o <<".">> \in Seq(Char)
      BY <2>1, <3>1, <3>2
    <3>4. h \o <<".">> \o config.suffix \in Seq(Char)
      BY <2>1, <3>3
    <3> QED BY <3>1, <3>3, <3>4
  <2>3. ASSUME n # Invalid, is_strict_subdomain(n, config.suffix)
        PROVE  /\ n # config.zone /\ is_strict_subdomain(n, config.zone)
               /\ Below(n, config.suffix) /\ Below(n, config.zone)
    <3>1. IsName(n) /\ n \in Seq(Char)
      BY <2>2, <2>3, NormalizeGives DEF IsName
    <3>2. n # config.zone /\ is_strict_subdomain(n, config.zone)
      BY <2>1, <2>3, <3>1, BelowBelow
    <3> QED BY <2>1, <2>3, <3>1, <3>2, SubdomainIsBelow
  <2> HIDE DEF n
  <2> QED BY <2>3 DEF managed_name, validate_record_scope, n
<1> QED BY <1>1, TypeAlways, PTL

(* Two hostnames share a record exactly when they are spellings of one label: no
   host's record is ever replaced by that of a host of another name. *)
THEOREM OneNameOneHostAlways == Spec => []OneNameOneHost
<1>1. ASSUME TypeOK PROVE OneNameOneHost
  <2> SUFFICES ASSUME NEW l \in leases, NEW m \in leases, Named(l), Named(m)
               PROVE  NameOf[config][l.hostname] = NameOf[config][m.hostname]
                        <=> Core(l.hostname) = Core(m.hostname)
    BY DEF OneNameOneHost, Core
  <2> DEFINE p == config.suffix
             g == l.hostname
             h == m.hostname
  <2>1. config \in Configs /\ IsName(p) /\ p \in Seq(Char)
    BY <1>1, ConfigNames DEF TypeOK, IsName
  <2>2. g \in Hosts /\ h \in Hosts
    BY <1>1, DesiredStateAssumption DEF Named, TypeOK, Lease
  <2>3. /\ NameOf[config][g] = Core(g) \o <<".">> \o p /\ Core(g) \in Seq(Char)
        /\ NameOf[config][h] = Core(h) \o <<".">> \o p /\ Core(h) \in Seq(Char)
    BY <2>1, <2>2, NameOfIs, RecordNameIs DEF Named
  <2> HIDE DEF p, g, h
  <2>4. <<".">> \in Seq(Char)
    BY NotMarks, OneChar
  <2>5. ASSUME NEW a \in Seq(Char), NEW b \in Seq(Char),
               a \o <<".">> \o p = b \o <<".">> \o p
        PROVE  a = b
    <3> DEFINE u == a \o <<".">>
               v == b \o <<".">>
    <3>1. /\ u \in Seq(Char) /\ Len(u) = Len(a) + 1 /\ \A i \in 1..Len(a) : u[i] = a[i]
          /\ v \in Seq(Char) /\ Len(v) = Len(b) + 1 /\ \A i \in 1..Len(b) : v[i] = b[i]
      BY <2>4
    <3>2. u \o p = v \o p
      BY <2>5
    <3> HIDE DEF u, v
    <3>3. /\ Len(u \o p) = Len(u) + Len(p) /\ Len(v \o p) = Len(v) + Len(p)
          /\ \A i \in 1..Len(u) : (u \o p)[i] = u[i]
          /\ \A i \in 1..Len(v) : (v \o p)[i] = v[i]
      <4>1. ASSUME NEW w \in Seq(Char)
            PROVE  /\ Len(w \o p) = Len(w) + Len(p)
                   /\ \A i \in 1..Len(w) : (w \o p)[i] = w[i]
        BY <2>1
      <4> QED BY <3>1, <4>1
    <3>4. Len(a) = Len(b) /\ Len(a) \in Nat /\ Len(p) \in Nat
      BY <2>1, <3>1, <3>2, <3>3
    <3>5. \A i \in 1..Len(a) : a[i] = b[i]
      BY <3>1, <3>2, <3>3, <3>4
    <3> QED BY <3>4, <3>5
  <2> QED BY <2>3, <2>5 DEF g, h
<1> QED BY <1>1, TypeAlways, PTL
=============================================================================
