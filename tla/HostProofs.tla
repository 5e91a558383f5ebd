----------------------------- MODULE HostProofs -----------------------------
(* Theorems about DomainRegistry and about the host over it, for any set of *)
(* domains, names, operations and callers.  A host composes its callers and *)
(* its index with the registry, which goes on as specified beneath them.    *)
EXTENDS Host, Induction, TLAPS

(* The registry. *)

(* What a domain declares. *)
LEMMA InfoType ==
    ASSUME RegistryTypeOK, NEW d \in Doms
    PROVE  /\ info[d].scheme \in Names
           /\ \A i \in DOMAIN info[d].aliases : info[d].aliases[i] \in Names
<1>1. info[d] \in [scheme : Names, aliases : Seq(Names)]
    BY RegistryAssumption DEF RegistryTypeOK
<1>. QED BY <1>1

(* A registration claims free and usable names only, its scheme among them. *)
LEMMA ClaimsWereFree ==
    ASSUME RegistryTypeOK, NEW d \in Doms, SchemeFree(d)
    PROVE  /\ Claimed(d) \subseteq Names
           /\ info[d].scheme \in Claimed(d)
           /\ \A n \in Claimed(d) : aliases[n] = Nobody /\ Usable(n)
<1>1. ASSUME NEW i \in Claims(d)
      PROVE  /\ i \in DOMAIN info[d].aliases
             /\ info[d].aliases[i] \in Names
             /\ AliasFree(d, i)
  <2>1. i \in DOMAIN info[d].aliases /\ \A j \in 1..i : AliasFree(d, j)
      BY DEF Claims
  <2>2. DOMAIN info[d].aliases = 1..Len(info[d].aliases)
    <3>1. info[d] \in [scheme : Names, aliases : Seq(Names)]
        BY RegistryAssumption DEF RegistryTypeOK
    <3>. QED BY <3>1
  <2>3. i \in 1..i
      BY <2>1, <2>2
  <2>. QED BY <2>1, <2>3, InfoType
<1>2. info[d].scheme \in Names
    BY InfoType
<1>3. aliases[info[d].scheme] = Nobody /\ Usable(info[d].scheme)
    BY DEF SchemeFree
<1>. QED BY <1>1, <1>2, <1>3 DEF Claimed, AliasFree

(* Every step preserves the type invariant. *)
LEMMA StepType ==
    ASSUME RegistryTypeOK, [RegistryNext]_registryVars
    PROVE  RegistryTypeOK'
<1>1. ASSUME NEW d \in Doms, RegisterPanics(d) PROVE RegistryTypeOK'
    BY <1>1 DEF RegisterPanics, RegistryTypeOK
<1>2. ASSUME NEW d \in Doms, Register(d) PROVE RegistryTypeOK'
  <2>1. info' = info /\ tried' \subseteq Doms
      BY <1>2 DEF Register, RegistryTypeOK
  <2>2. panicked' \subseteq tried'
      BY <1>2 DEF Register, RegistryTypeOK
  <2>3. domains' \in [Names -> Doms \union {Nobody}]
      BY <1>2, InfoType DEF Register, RegistryTypeOK
  <2>4. aliases' \in [Names -> Names \union {Nobody}]
      BY <1>2, InfoType DEF Register, RegistryTypeOK
  <2>. QED BY <2>1, <2>2, <2>3, <2>4 DEF RegistryTypeOK
<1>3. CASE UNCHANGED registryVars
    BY <1>3 DEF registryVars, RegistryTypeOK
<1>. QED BY <1>1, <1>2, <1>3 DEF RegistryNext

(* A step leaves every claimed name and every filed scheme as it is. *)
LEMMA StepKeepsNames ==
    ASSUME RegistryTypeOK, [RegistryNext]_registryVars, NEW n \in Names
    PROVE  /\ aliases[n] # Nobody => aliases'[n] = aliases[n]
           /\ domains[n] # Nobody => domains'[n] = domains[n]
<1>1. ASSUME NEW d \in Doms, RegisterPanics(d)
      PROVE  aliases'[n] = aliases[n] /\ domains'[n] = domains[n]
    BY <1>1 DEF RegisterPanics
<1>2. ASSUME NEW d \in Doms, Register(d)
      PROVE  /\ aliases[n] # Nobody => aliases'[n] = aliases[n]
             /\ domains[n] # Nobody => domains'[n] = domains[n]
  <2>1. SchemeFree(d)
      BY <1>2 DEF Register
  <2>2. aliases[n] # Nobody => n \notin Claimed(d)
      BY <2>1, ClaimsWereFree
  <2>3. aliases'[n] = IF n \in Claimed(d) THEN info[d].scheme ELSE aliases[n]
      BY <1>2 DEF Register
  <2>4. domains[n] # Nobody => n # info[d].scheme
      BY <2>1 DEF SchemeFree
  <2>5. domains' = [domains EXCEPT ![info[d].scheme] = d]
      BY <1>2 DEF Register
  <2>6. domains[n] # Nobody => domains'[n] = domains[n]
      BY <2>4, <2>5, InfoType DEF RegistryTypeOK
  <2>. QED BY <2>2, <2>3, <2>6
<1>3. CASE UNCHANGED registryVars
    BY <1>3 DEF registryVars
<1>. QED BY <1>1, <1>2, <1>3 DEF RegistryNext

(* What Register leaves in the two maps for the names it claims. *)
LEMMA RegisterFiles ==
    ASSUME RegistryTypeOK, NEW d \in Doms, Register(d)
    PROVE  /\ domains'[info[d].scheme] = d
           /\ \A n \in Claimed(d) : aliases'[n] = info[d].scheme
           /\ \A n \in Names \ Claimed(d) : aliases'[n] = aliases[n] /\ domains'[n] = domains[n]
<1>1. SchemeFree(d)
    BY DEF Register
<1>2. /\ domains' = [domains EXCEPT ![info[d].scheme] = d]
      /\ aliases' = [n \in Names |-> IF n \in Claimed(d) THEN info[d].scheme ELSE aliases[n]]
    BY DEF Register
<1>3. Claimed(d) \subseteq Names /\ info[d].scheme \in Claimed(d)
    BY <1>1, ClaimsWereFree
<1>. QED BY <1>2, <1>3 DEF RegistryTypeOK

(* RegistryInv holds at the start. *)
LEMMA InitRegistryInv == RegistryInit => RegistryInv
BY RegistryAssumption
   DEF RegistryInit, RegistryInv, RegistryTypeOK, ClaimsAreBacked, KindsStayFree, OwnsItsNames

(* A claimed name stays backed by a scheme that leads to itself. *)
LEMMA StepBacked ==
    ASSUME RegistryInv, [RegistryNext]_registryVars
    PROVE  ClaimsAreBacked'
<1>. SUFFICES ASSUME NEW n \in Names, aliases'[n] # Nobody
              PROVE  domains'[aliases'[n]] # Nobody /\ aliases'[aliases'[n]] = aliases'[n]
    BY DEF ClaimsAreBacked
<1>1. CASE aliases[n] # Nobody
  <2>1. aliases'[n] = aliases[n]
      BY <1>1, StepKeepsNames DEF RegistryInv
  <2>2. /\ aliases[n] \in Names
        /\ domains[aliases[n]] # Nobody /\ aliases[aliases[n]] = aliases[n]
      BY <1>1 DEF RegistryInv, RegistryTypeOK, ClaimsAreBacked
  <2>3. /\ domains'[aliases[n]] = domains[aliases[n]]
        /\ aliases'[aliases[n]] = aliases[aliases[n]]
      BY <1>1, <2>2, StepKeepsNames DEF RegistryInv
  <2>. QED BY <2>1, <2>2, <2>3
<1>2. CASE aliases[n] = Nobody
  <2>1. PICK d \in Doms : Register(d)
      BY <1>2 DEF RegistryNext, RegisterPanics, registryVars
  <2>2. n \in Claimed(d)
      BY <1>2, <2>1, RegisterFiles DEF RegistryInv
  <2>3. SchemeFree(d)
      BY <2>1 DEF Register
  <2>4. info[d].scheme \in Claimed(d)
      BY <2>3, ClaimsWereFree DEF RegistryInv
  <2>5. /\ aliases'[n] = info[d].scheme
        /\ aliases'[info[d].scheme] = info[d].scheme
        /\ domains'[info[d].scheme] = d
      BY <2>1, <2>2, <2>4, RegisterFiles DEF RegistryInv
  <2>. QED BY <2>5, RegistryAssumption
<1>. QED BY <1>1, <1>2

(* No step claims a reserved kind or a malformed token. *)
LEMMA StepKinds ==
    ASSUME RegistryInv, [RegistryNext]_registryVars
    PROVE  KindsStayFree'
<1>. SUFFICES ASSUME NEW n \in Malformed \union Reserved
              PROVE  aliases'[n] = Nobody /\ domains'[n] = Nobody
    BY DEF KindsStayFree
<1>1. n \in Names /\ aliases[n] = Nobody /\ domains[n] = Nobody
    BY RegistryAssumption DEF RegistryInv, KindsStayFree
<1>2. ASSUME NEW d \in Doms, Register(d)
      PROVE  aliases'[n] = Nobody /\ domains'[n] = Nobody
  <2>1. n \notin Claimed(d)
      BY <1>2, ClaimsWereFree DEF RegistryInv, Register, Usable
  <2>. QED BY <1>1, <1>2, <2>1, RegisterFiles DEF RegistryInv
<1>3. ASSUME NEW d \in Doms, RegisterPanics(d)
      PROVE  aliases'[n] = Nobody /\ domains'[n] = Nobody
    BY <1>1, <1>3 DEF RegisterPanics
<1>4. CASE UNCHANGED registryVars
    BY <1>1, <1>4 DEF registryVars
<1>. QED BY <1>2, <1>3, <1>4 DEF RegistryNext

(* A domain whose Register returned keeps its names. *)
LEMMA StepOwns ==
    ASSUME RegistryInv, [RegistryNext]_registryVars
    PROVE  OwnsItsNames'
<1>. SUFFICES ASSUME NEW e \in tried' \ panicked'
              PROVE  /\ domains'[info'[e].scheme] = e
                     /\ aliases'[info'[e].scheme] = info'[e].scheme
                     /\ \A i \in DOMAIN info'[e].aliases :
                            aliases'[info'[e].aliases[i]] = info'[e].scheme
    BY DEF OwnsItsNames
<1>1. info' = info /\ e \in Doms
  <2>1. RegistryTypeOK'
      BY StepType DEF RegistryInv
  <2>2. info' = info
      BY DEF RegistryNext, Register, RegisterPanics, registryVars
  <2>. QED BY <2>1, <2>2 DEF RegistryTypeOK
<1>2. CASE e \in tried \ panicked
  <2>1. /\ domains[info[e].scheme] = e
        /\ aliases[info[e].scheme] = info[e].scheme
        /\ \A i \in DOMAIN info[e].aliases : aliases[info[e].aliases[i]] = info[e].scheme
      BY <1>2 DEF RegistryInv, OwnsItsNames
  <2>2. /\ info[e].scheme \in Names /\ info[e].scheme # Nobody /\ e # Nobody
        /\ \A i \in DOMAIN info[e].aliases : info[e].aliases[i] \in Names
      BY <1>1, InfoType, RegistryAssumption DEF RegistryInv
  <2>3. /\ domains'[info[e].scheme] = e
        /\ aliases'[info[e].scheme] = info[e].scheme
      BY <2>1, <2>2, StepKeepsNames DEF RegistryInv
  <2>4. ASSUME NEW i \in DOMAIN info[e].aliases
        PROVE  aliases'[info[e].aliases[i]] = info[e].scheme
      BY <2>1, <2>2, StepKeepsNames DEF RegistryInv
  <2>. QED BY <1>1, <2>3, <2>4
<1>3. CASE e \notin tried \ panicked
  <2>1. PICK d \in Doms : Register(d)
      BY <1>3 DEF RegistryNext, RegisterPanics, registryVars
  <2>2. d = e /\ Claims(e) = DOMAIN info[e].aliases
      BY <1>3, <2>1 DEF Register
  <2>3. SchemeFree(e)
      BY <2>1, <2>2 DEF Register
  <2>4. /\ info[e].scheme \in Claimed(e)
        /\ \A i \in DOMAIN info[e].aliases : info[e].aliases[i] \in Claimed(e)
      BY <2>2 DEF Claimed
  <2>. QED BY <1>1, <2>1, <2>2, <2>4, RegisterFiles DEF RegistryInv
<1>. QED BY <1>2, <1>3

LEMMA RegistryStep == RegistryInv /\ [RegistryNext]_registryVars => RegistryInv'
BY StepType, StepBacked, StepKinds, StepOwns DEF RegistryInv

(* The inductive invariant of the registry. *)
THEOREM RegistryCorrect == RegistrySpec => []RegistryInv
BY InitRegistryInv, RegistryStep, PTL DEF RegistrySpec

(* Every claimed name leads to a registered domain (Lookup never returns a  *)
(* nil domain with ok set), also after registrations that panicked.         *)
THEOREM ClaimsBacked == RegistrySpec => []ClaimsAreBacked
<1>1. RegistryInv => ClaimsAreBacked
    BY DEF RegistryInv
<1>. QED BY <1>1, RegistryCorrect, PTL

(* A domain whose Register returned owns every name it declares for good.   *)
THEOREM NamesOwned == RegistrySpec => []OwnsItsNames
<1>1. RegistryInv => OwnsItsNames
    BY DEF RegistryInv
<1>. QED BY <1>1, RegistryCorrect, PTL

(* The reserved kinds and the malformed tokens are never claimed.           *)
THEOREM KindsFree == RegistrySpec => []KindsStayFree
<1>1. RegistryInv => KindsStayFree
    BY DEF RegistryInv
<1>. QED BY <1>1, RegistryCorrect, PTL

(* A name never changes hands: resolving a URI is stable over the life of   *)
(* the process, whatever is registered later.                               *)
THEOREM NamesFinal == RegistrySpec => NamesAreFinal
<1>1. RegistryInv /\ [RegistryNext]_registryVars =>
          [\A n \in Names : /\ aliases[n] # Nobody => aliases'[n] = aliases[n]
                            /\ domains[n] # Nobody => domains'[n] = domains[n]]_registryVars
    BY StepKeepsNames DEF RegistryInv
<1>. QED BY <1>1, RegistryCorrect, PTL DEF RegistrySpec, NamesAreFinal
----------------------------------------------------------------------------
(* The index of a domain, and the ids in its names. *)

Indexes == [search : Nat, resolvers : [Authorities -> Nat], picked : SUBSET Authorities,
            lists : [Authorities -> Nat], names : [Types -> Authorities \union {Nobody}]]

(* The operations that emit under authority a, among the first k of a list. *)
Emitters(list, a, k) ==
    {i \in DOMAIN list : i <= k /\ list[i].type # NoType /\ ~list[i].list /\ Authority(list[i]) = a}
Marked(list, a, k) == {i \in Emitters(list, a, k) : list[i].resolver}

(* What the loop of index has made of the first k operations: an authority   *)
(* has the first marked operation, or else the first.                        *)
FiledUpTo(list, ix, k) ==
    /\ ix \in Indexes
    /\ \A t \in Types : ix.names[t] # Nobody => ix.resolvers[ix.names[t]] # 0
    /\ \A a \in ix.picked : /\ ix.resolvers[a] \in Marked(list, a, k)
                            /\ \A j \in Marked(list, a, k) : ix.resolvers[a] <= j
    /\ \A a \in Authorities \ ix.picked :
           /\ Marked(list, a, k) = {}
           /\ \A j \in Emitters(list, a, k) : ix.resolvers[a] <= j
           /\ ix.resolvers[a] = 0 => Emitters(list, a, k) = {}
           /\ ix.resolvers[a] # 0 => ix.resolvers[a] \in Emitters(list, a, k)

LEMMA AuthorityType ==
    ASSUME NEW o \in Ops, o.type # NoType
    PROVE  Authority(o) \in Authorities /\ o.type \in Types
<1>1. o.type \in Types /\ o.uri \in Authorities \union {Nobody}
    BY DEF Ops
<1>2. TypeAuthority[o.type] \in Authorities
    BY <1>1, HostAssumption
<1>. QED BY <1>1, <1>2 DEF Authority

LEMMA OpOfList ==
    ASSUME NEW list \in OpLists
    PROVE  /\ Len(list) \in Nat /\ DOMAIN list = 1..Len(list)
           /\ \A i \in 1..Len(list) : list[i] \in Ops
<1>1. list \in Seq(Ops)
    BY HostAssumption
<1>. QED BY <1>1

LEMMA CaptureKeeps ==
    ASSUME NEW ix \in Indexes, NEW i \in Nat, NEW o
    PROVE  LET cx == CaptureSearch(ix, i, o)
           IN  /\ cx \in Indexes /\ cx.resolvers = ix.resolvers /\ cx.picked = ix.picked
               /\ cx.lists = ix.lists /\ cx.names = ix.names
BY DEF CaptureSearch, Indexes

(* One turn of the loop. *)
LEMMA FileStep ==
    ASSUME NEW list \in OpLists, NEW k \in 1..Len(list), NEW ix, FiledUpTo(list, ix, k - 1)
    PROVE  FiledUpTo(list, IndexStep(list, ix, k), k)
<1>. DEFINE o == list[k]
            cx == CaptureSearch(ix, k, o)
            a == Authority(o)
            nx == IndexStep(list, ix, k)
<1>1. /\ k \in Nat /\ k \in DOMAIN list /\ o \in Ops
      /\ DOMAIN list \subseteq Nat
    BY OpOfList
<1>2. /\ cx \in Indexes /\ cx.resolvers = ix.resolvers /\ cx.picked = ix.picked
      /\ cx.lists = ix.lists /\ cx.names = ix.names
    BY <1>1, CaptureKeeps DEF FiledUpTo
<1>3. nx = FileOp(cx, k, o)
    BY DEF IndexStep
<1>4. ASSUME NEW b
      PROVE  Emitters(list, b, k) = IF o.type # NoType /\ ~o.list /\ a = b
                                    THEN Emitters(list, b, k - 1) \union {k}
                                    ELSE Emitters(list, b, k - 1)
  <2>1. \A i \in DOMAIN list : i <= k <=> (i <= k - 1 \/ i = k)
      BY <1>1
  <2>. QED BY <1>1, <2>1 DEF Emitters
<1>5. CASE o.type = NoType
    BY <1>2, <1>3, <1>4, <1>5 DEF FileOp, FiledUpTo, Marked
<1>6. CASE o.type # NoType /\ o.list
  <2>1. a \in Authorities
      BY <1>1, <1>6, AuthorityType
  <2>2. nx = [cx EXCEPT !.lists[a] = IF @ = 0 THEN k ELSE @]
      BY <1>3, <1>6 DEF FileOp
  <2>. DEFINE l == [cx.lists EXCEPT ![a] = IF @ = 0 THEN k ELSE @]
  <2>3. /\ nx = [search |-> cx.search, resolvers |-> cx.resolvers, picked |-> cx.picked,
                 lists |-> l, names |-> cx.names]
        /\ l \in [Authorities -> Nat]
      BY <1>1, <1>2, <2>1, <2>2 DEF Indexes
  <2>4. nx \in Indexes /\ nx.resolvers = ix.resolvers /\ nx.picked = ix.picked /\ nx.names = ix.names
      BY <1>2, <2>3 DEF Indexes
  <2>. QED BY <1>4, <1>6, <2>4 DEF FiledUpTo, Marked
<1>7. CASE o.type # NoType /\ ~o.list
  <2>1. a \in Authorities /\ o.type \in Types
      BY <1>1, <1>7, AuthorityType
  <2>. DEFINE wins == ix.resolvers[a] = 0 \/ (o.resolver /\ a \notin ix.picked)
  <2>2. nx = [cx EXCEPT !.resolvers[a] = IF wins THEN k ELSE @,
                        !.picked = IF wins /\ o.resolver THEN @ \union {a} ELSE @,
                        !.names[o.type] = IF @ = Nobody THEN a ELSE @]
      BY <1>2, <1>3, <1>7 DEF FileOp
  <2>. DEFINE r == [cx.resolvers EXCEPT ![a] = IF wins THEN k ELSE @]
              p == IF wins /\ o.resolver THEN cx.picked \union {a} ELSE cx.picked
              m == [cx.names EXCEPT ![o.type] = IF @ = Nobody THEN a ELSE @]
  <2>20. /\ r \in [Authorities -> Nat] /\ p \in SUBSET Authorities
         /\ m \in [Types -> Authorities \union {Nobody}]
      BY <1>1, <1>2, <2>1 DEF Indexes
  <2>21. nx = [search |-> cx.search, resolvers |-> r, picked |-> p, lists |-> cx.lists, names |-> m]
      BY <1>2, <2>1, <2>2 DEF Indexes
  <2>22. nx \in Indexes
      BY <1>2, <2>20, <2>21 DEF Indexes
  <2>3. /\ nx \in Indexes
        /\ nx.resolvers = [ix.resolvers EXCEPT ![a] = IF wins THEN k ELSE @]
        /\ nx.picked = IF wins /\ o.resolver THEN ix.picked \union {a} ELSE ix.picked
        /\ nx.names = [ix.names EXCEPT ![o.type] = IF @ = Nobody THEN a ELSE @]
      BY <1>2, <2>21, <2>22
  <2>4. ix \in Indexes
      BY DEF FiledUpTo
  <2>5. /\ nx.resolvers[a] = IF wins THEN k ELSE ix.resolvers[a]
        /\ \A b \in Authorities \ {a} : nx.resolvers[b] = ix.resolvers[b]
        /\ \A b \in Authorities : nx.resolvers[b] \in Nat /\ ix.resolvers[b] \in Nat
      BY <1>1, <2>1, <2>3, <2>4 DEF Indexes
  <2>6. nx.resolvers[a] # 0
      BY <1>1, <2>5
  <2>7. ASSUME NEW t \in Types, nx.names[t] # Nobody PROVE nx.resolvers[nx.names[t]] # 0
    <3>1. nx.names[t] = ix.names[t] \/ nx.names[t] = a
        BY <2>1, <2>3, <2>4 DEF Indexes
    <3>2. nx.names[t] \in Authorities
        BY <2>3, <2>7 DEF Indexes
    <3>3. CASE nx.names[t] = a
        BY <3>3, <2>6
    <3>4. CASE nx.names[t] # a
        BY <3>1, <3>2, <3>4, <2>5, <2>7 DEF FiledUpTo
    <3>. QED BY <3>3, <3>4
  <2>8. ASSUME NEW b \in Authorities \ {a}
        PROVE  /\ b \in nx.picked <=> b \in ix.picked
               /\ nx.resolvers[b] = ix.resolvers[b]
               /\ Emitters(list, b, k) = Emitters(list, b, k - 1)
               /\ Marked(list, b, k) = Marked(list, b, k - 1)
      BY <1>4, <2>3, <2>5 DEF Marked
  <2>9. Emitters(list, a, k) = Emitters(list, a, k - 1) \union {k}
      BY <1>4, <1>7
  <2>10. Marked(list, a, k) = IF o.resolver THEN Marked(list, a, k - 1) \union {k}
                              ELSE Marked(list, a, k - 1)
      BY <2>9 DEF Marked
  <2>11. /\ \A j \in Emitters(list, a, k - 1) : j \in Nat /\ j <= k
         /\ \A j \in Marked(list, a, k - 1) : j \in Emitters(list, a, k - 1)
      BY <1>1 DEF Emitters, Marked
  <2>12. ASSUME a \in nx.picked
         PROVE  /\ nx.resolvers[a] \in Marked(list, a, k)
                /\ \A j \in Marked(list, a, k) : nx.resolvers[a] <= j
    <3>1. CASE a \in ix.picked
      <4>1. /\ ix.resolvers[a] \in Marked(list, a, k - 1)
            /\ \A j \in Marked(list, a, k - 1) : ix.resolvers[a] <= j
          BY <3>1 DEF FiledUpTo
      <4>2. ix.resolvers[a] <= k /\ ix.resolvers[a] # 0
          BY <4>1, <2>11, <1>1 DEF Marked, Emitters
      <4>. QED BY <3>1, <4>1, <4>2, <2>5, <2>10
    <3>2. CASE a \notin ix.picked
      <4>1. wins /\ o.resolver
          BY <2>3, <2>12, <3>2
      <4>2. Marked(list, a, k - 1) = {}
          BY <2>1, <3>2 DEF FiledUpTo
      <4>. QED BY <1>1, <2>5, <2>10, <4>1, <4>2
    <3>. QED BY <3>1, <3>2
  <2>13. ASSUME a \notin nx.picked
         PROVE  /\ Marked(list, a, k) = {}
                /\ \A j \in Emitters(list, a, k) : nx.resolvers[a] <= j
                /\ nx.resolvers[a] \in Emitters(list, a, k)
    <3>1. a \notin ix.picked /\ ~o.resolver
        BY <2>3, <2>13
    <3>2. /\ Marked(list, a, k - 1) = {}
          /\ \A j \in Emitters(list, a, k - 1) : ix.resolvers[a] <= j
          /\ ix.resolvers[a] = 0 => Emitters(list, a, k - 1) = {}
          /\ ix.resolvers[a] # 0 => ix.resolvers[a] \in Emitters(list, a, k - 1)
        BY <2>1, <3>1 DEF FiledUpTo
    <3>. QED BY <1>1, <2>5, <2>9, <2>10, <2>11, <3>1, <3>2
  <2>14. \A b \in nx.picked : /\ nx.resolvers[b] \in Marked(list, b, k)
                              /\ \A j \in Marked(list, b, k) : nx.resolvers[b] <= j
    <3>1. nx.picked \subseteq Authorities
        BY <2>3 DEF Indexes
    <3>. QED BY <3>1, <2>8, <2>12 DEF FiledUpTo
  <2>15. \A b \in Authorities \ nx.picked :
           /\ Marked(list, b, k) = {}
           /\ \A j \in Emitters(list, b, k) : nx.resolvers[b] <= j
           /\ nx.resolvers[b] = 0 => Emitters(list, b, k) = {}
           /\ nx.resolvers[b] # 0 => nx.resolvers[b] \in Emitters(list, b, k)
      BY <2>6, <2>8, <2>13 DEF FiledUpTo
  <2>16. FiledUpTo(list, nx, k)
    <3>. HIDE DEF nx
    <3>. QED BY <2>3, <2>7, <2>14, <2>15 DEF FiledUpTo
  <2>. QED BY <2>16
<1>. HIDE DEF o
<1>. QED BY <1>5, <1>6, <1>7

(* The loop has run: Index is what it makes of all operations. *)
LEMMA IndexFiles ==
    ASSUME NEW list \in OpLists
    PROVE  FiledUpTo(list, Index(list), Len(list))
<1>. DEFINE N == Len(list)
            Loop(f) == f = [k \in 0..N |-> IF k = 0 THEN NoIndex ELSE IndexStep(list, f[k - 1], k)]
            F == [k \in 1..N |-> [x \in Indexes |-> IF FiledUpTo(list, x, k - 1) THEN IndexStep(list, x, k) ELSE NoIndex]]
<1>1. N \in Nat
    BY OpOfList
<1>2. FiledUpTo(list, NoIndex, 0) /\ NoIndex \in Indexes
  <2>1. NoIndex \in Indexes
      BY DEF NoIndex, Indexes
  <2>2. \A b : Emitters(list, b, 0) = {}
      BY OpOfList DEF Emitters
  <2>3. \A b : Marked(list, b, 0) = {}
      BY <2>2 DEF Marked
  <2>. QED BY <2>1, <2>2, <2>3 DEF FiledUpTo, NoIndex
<1>3. ASSUME NEW k \in 1..N, NEW x, FiledUpTo(list, x, k - 1)
      PROVE  FiledUpTo(list, IndexStep(list, x, k), k) /\ IndexStep(list, x, k) \in Indexes
    BY <1>3, FileStep DEF FiledUpTo
<1>4. \E f : Loop(f)
  <2>1. \A k \in 1..N : \A x \in Indexes : F[k][x] \in Indexes
      BY <1>2, <1>3
  <2>2. PICK f \in [0..N -> Indexes] : f[0] = NoIndex /\ \A k \in 1..N : f[k] = F[k][f[k - 1]]
    <3>. DEFINE I == Indexes
                b == NoIndex
    <3>1. b \in I
        BY <1>2
    <3>2. F \in [1..N -> [I -> I]]
        BY <2>1
    <3>. HIDE DEF F, N, I, b
    <3>3. \E f \in [0..N -> I] : Iterates(f, F, b, N)
        BY <1>1, <3>1, <3>2, FiniteRecursion
    <3>. QED BY <3>3 DEF I, b, Iterates
  <2>. DEFINE T == {k \in Nat : k <= N => FiledUpTo(list, f[k], k)}
  <2>3. 0 \in T
      BY <1>2, <2>2
  <2>4. ASSUME NEW k \in Nat, k \in T PROVE k + 1 \in T
    <3>. SUFFICES ASSUME k + 1 <= N PROVE FiledUpTo(list, f[k + 1], k + 1)
        OBVIOUS
    <3>1. k + 1 \in 1..N /\ (k + 1) - 1 = k /\ FiledUpTo(list, f[k], k) /\ f[k] \in Indexes
        BY <1>1, <2>2, <2>4
    <3>2. f[k + 1] = IndexStep(list, f[k], k + 1)
        BY <2>2, <3>1
    <3>. QED BY <1>3, <3>1, <3>2
  <2>5. \A k \in Nat : k \in T
    <3>. HIDE DEF T
    <3>. QED BY <2>3, <2>4, SetInduction
  <2>6. ASSUME NEW k \in 1..N PROVE f[k] = IndexStep(list, f[k - 1], k)
    <3>1. k - 1 \in Nat /\ k - 1 <= N /\ f[k - 1] \in Indexes
        BY <1>1, <2>2
    <3>2. FiledUpTo(list, f[k - 1], k - 1)
        BY <2>5, <3>1
    <3>. QED BY <2>2, <3>1, <3>2
  <2>7. Loop(f)
    <3>. HIDE DEF N
    <3>. QED BY <1>1, <2>2, <2>6
  <2>. QED BY <2>7
<1>. DEFINE g == CHOOSE f : Loop(f)
<1>5. Loop(g)
  <2>. HIDE DEF Loop
  <2>. QED BY <1>4
<1>6. Index(list) = g[N]
    BY DEF Index
<1>. HIDE DEF g, N
<1>. DEFINE T == {k \in Nat : k <= N => FiledUpTo(list, g[k], k)}
<1>7. 0 \in T
    BY <1>1, <1>2, <1>5
<1>8. ASSUME NEW k \in Nat, k \in T PROVE k + 1 \in T
  <2>. SUFFICES ASSUME k + 1 <= N PROVE FiledUpTo(list, g[k + 1], k + 1)
      OBVIOUS
  <2>1. k + 1 \in 1..N /\ (k + 1) - 1 = k /\ FiledUpTo(list, g[k], k)
      BY <1>1, <1>8
  <2>2. g[k + 1] = IndexStep(list, g[k], k + 1)
      BY <1>1, <1>5, <2>1
  <2>. QED BY <1>3, <2>1, <2>2
<1>9. N \in T
  <2>. HIDE DEF T
  <2>. QED BY <1>1, <1>7, <1>8, SetInduction
<1>. QED BY <1>6, <1>9 DEF N

LEMMA IndexNames ==
    ASSUME NEW list \in OpLists
    PROVE  /\ Index(list) \in Indexes
           /\ \A t \in Types : Index(list).names[t] # Nobody
                  => Index(list).resolvers[Index(list).names[t]] # 0
BY IndexFiles DEF FiledUpTo

(* What an authority leads to is filed under it. *)
LEMMA IndexIsFiled ==
    ASSUME NEW list \in OpLists, NEW a \in Authorities, Index(list).resolvers[a] # 0
    PROVE  Index(list).resolvers[a] \in Filed(list, a)
<1>1. Index(list).resolvers[a] \in Emitters(list, a, Len(list))
    BY IndexFiles DEF FiledUpTo, Marked
<1>. QED BY <1>1 DEF Emitters, Filed

(* The loop of index computes what Canonical says without it.               *)
THEOREM IndexCanonical ==
    ASSUME NEW list \in OpLists, NEW a \in Authorities
    PROVE  Index(list).resolvers[a] = Canonical(list, a)
<1>. DEFINE N == Len(list)
            ix == Index(list)
            cand == Filed(list, a)
            marked == {i \in cand : list[i].resolver}
            First(Z) == CHOOSE i \in Z : \A j \in Z : i <= j
            r == ix.resolvers[a]
<1>1. N \in Nat /\ DOMAIN list = 1..N
    BY OpOfList
<1>2. Emitters(list, a, N) = cand /\ Marked(list, a, N) = marked
    BY <1>1 DEF Emitters, Marked, Filed
<1>3. FiledUpTo(list, ix, N)
    BY IndexFiles
<1>4. Canonical(list, a) = IF marked # {} THEN First(marked)
                           ELSE IF cand # {} THEN First(cand) ELSE 0
    BY DEF Canonical
<1>5. cand \subseteq Nat /\ marked \subseteq Nat
    BY <1>1 DEF Filed
<1>6. ASSUME NEW Z, Z \subseteq Nat, NEW i \in Z, \A j \in Z : i <= j
      PROVE  First(Z) = i
  <2>1. \A x, y \in Nat : x <= y /\ y <= x => x = y
      OBVIOUS
  <2>2. First(Z) \in Z /\ \A j \in Z : First(Z) <= j
      BY <1>6
  <2>. HIDE DEF First
  <2>. QED BY <1>6, <2>1, <2>2
<1>9. Index(list).resolvers[a] = r
    OBVIOUS
<1>. HIDE DEF cand, marked, First, ix, N, r
<1>7. CASE a \in ix.picked
  <2>1. r \in marked /\ \A j \in marked : r <= j
      BY <1>2, <1>3, <1>7 DEF FiledUpTo, r
  <2>2. First(marked) = r
      BY <1>5, <1>6, <2>1
  <2>. QED BY <1>4, <1>9, <2>1, <2>2
<1>8. CASE a \notin ix.picked
  <2>1. /\ marked = {} /\ \A j \in cand : r <= j
        /\ r = 0 => cand = {}
        /\ r # 0 => r \in cand
      BY <1>2, <1>3, <1>8 DEF FiledUpTo, r
  <2>2. CASE r = 0
      BY <1>4, <1>9, <2>1, <2>2
  <2>3. CASE r # 0
    <3>1. First(cand) = r
        BY <1>5, <1>6, <2>1, <2>3
    <3>. QED BY <1>4, <1>9, <2>1, <2>3, <3>1
  <2>. QED BY <2>2, <2>3
<1>. QED BY <1>7, <1>8

(* An id without empty segments is split into its segments. *)
LEMMA SplitWhole ==
    ASSUME NEW id \in Ids, \A i \in DOMAIN id : id[i] # Blank
    PROVE  SplitId(id) = [i \in 1..Len(id) |-> <<id[i]>>]
<1>. DEFINE N == Len(id)
            P(k) == [i \in 1..k |-> <<id[i]>>]
            Loop(f) == f = [k \in 0..N |-> IF k = 0 THEN <<>>
                                           ELSE IF id[k] = Blank THEN f[k - 1]
                                           ELSE Append(f[k - 1], <<id[k]>>)]
            w == [k \in 0..N |-> P(k)]
            g == CHOOSE f : Loop(f)
<1>1. N \in Nat /\ DOMAIN id = 1..N /\ \A i \in 1..N : id[i] \in Segments /\ id[i] # Blank
    BY DEF Ids
<1>2. P(0) = <<>>
    OBVIOUS
<1>3. ASSUME NEW k \in 1..N PROVE Append(P(k - 1), <<id[k]>>) = P(k)
  <2>1. k - 1 \in Nat /\ k \in Nat
      BY <1>1
  <2>2. P(k - 1) \in Seq(Seq(Segments)) /\ Len(P(k - 1)) = k - 1 /\ <<id[k]>> \in Seq(Segments)
      BY <1>1, <2>1
  <2>. QED BY <2>1, <2>2
<1>4. Loop(w)
  <2>1. \A k \in 1..N : k - 1 \in 0..N
      BY <1>1
  <2>. HIDE DEF P, N
  <2>. QED BY <1>1, <1>2, <1>3, <2>1
<1>5. Loop(g)
  <2>. HIDE DEF Loop, w
  <2>. QED BY <1>4
<1>6. SplitId(id) = g[N]
    BY DEF SplitId
<1>. HIDE DEF g, N, w
<1>. DEFINE T == {k \in Nat : k <= N => g[k] = P(k)}
<1>7. 0 \in T
    BY <1>1, <1>2, <1>5
<1>8. ASSUME NEW k \in Nat, k \in T PROVE k + 1 \in T
  <2>. SUFFICES ASSUME k + 1 <= N PROVE g[k + 1] = P(k + 1)
      OBVIOUS
  <2>. HIDE DEF P
  <2>1. k + 1 \in 1..N /\ (k + 1) - 1 = k /\ g[k] = P(k)
      BY <1>1, <1>8
  <2>2. g[k + 1] = Append(g[k], <<id[k + 1]>>)
    <3>1. \A n \in 0..N : g[n] = IF n = 0 THEN <<>>
                                  ELSE IF id[n] = Blank THEN g[n - 1]
                                  ELSE Append(g[n - 1], <<id[n]>>)
        BY <1>5
    <3>2. k + 1 \in 0..N /\ k + 1 # 0 /\ id[k + 1] # Blank
        BY <1>1, <2>1
    <3>. QED BY <2>1, <3>1, <3>2
  <2>. QED BY <1>3, <2>1, <2>2
<1>9. N \in T
  <2>. HIDE DEF T
  <2>. QED BY <1>1, <1>7, <1>8, SetInduction
<1>. QED BY <1>1, <1>6, <1>9 DEF N

(* and joined again from them. *)
LEMMA JoinSingles ==
    ASSUME NEW id \in Ids
    PROVE  JoinPath([i \in 1..Len(id) |-> <<id[i]>>]) = id
<1>. DEFINE N == Len(id)
            path == [i \in 1..N |-> <<id[i]>>]
            P(k) == [i \in 1..k |-> id[i]]
            Loop(f) == f = [k \in 1..N |-> IF k = 1 THEN path[k] ELSE f[k - 1] \o path[k]]
            w == [k \in 1..N |-> P(k)]
            g == CHOOSE f : Loop(f)
<1>1. N \in Nat /\ DOMAIN id = 1..N /\ \A i \in 1..N : id[i] \in Segments
    BY DEF Ids
<1>9. id = [i \in 1..N |-> id[i]]
    BY DEF Ids
<1>2. Len(path) = N /\ path \in Seq(Seq(Segments))
    BY <1>1
<1>3. CASE N = 0
    BY <1>1, <1>2, <1>3 DEF JoinPath, FlattenSeq
<1>4. CASE N # 0
  <2>1. P(1) = path[1]
      BY <1>1, <1>4
  <2>2. ASSUME NEW k \in 2..N PROVE P(k - 1) \o path[k] = P(k)
    <3>1. /\ k - 1 \in Nat /\ k \in Nat /\ path[k] = <<id[k]>>
          /\ P(k - 1) \in Seq(Segments) /\ Len(P(k - 1)) = k - 1
          /\ <<id[k]>> \in Seq(Segments) /\ Len(<<id[k]>>) = 1
        BY <1>1
    <3>2. P(k - 1) \o <<id[k]>> \in Seq(Segments) /\ Len(P(k - 1) \o <<id[k]>>) = k
        BY <3>1
    <3>3. P(k) \in Seq(Segments) /\ Len(P(k)) = k
        BY <1>1, <3>1
    <3>4. ASSUME NEW i \in 1..k PROVE (P(k - 1) \o <<id[k]>>)[i] = P(k)[i]
        BY <3>1
    <3>. QED BY <3>1, <3>2, <3>3, <3>4
  <2>3. Loop(w)
    <3>1. \A k \in 1..N : k = 1 \/ (k \in 2..N /\ k - 1 \in 1..N /\ k # 1)
        BY <1>1
    <3>. HIDE DEF P, N, path
    <3>. QED BY <2>1, <2>2, <3>1
  <2>4. Loop(g)
    <3>. HIDE DEF Loop, w
    <3>. QED BY <2>3
  <2>5. JoinPath(path) = g[N]
    <3>1. FlattenSeq(path) = g[Len(path)]
        BY <1>2, <1>4 DEF FlattenSeq
    <3>. QED BY <1>2, <3>1 DEF JoinPath
  <2>. HIDE DEF g, N, w, path
  <2>. DEFINE T == {k \in Nat : k + 1 <= N => g[k + 1] = P(k + 1)}
  <2>6. 0 \in T
      BY <1>1, <1>4, <2>1, <2>4
  <2>7. ASSUME NEW k \in Nat, k \in T PROVE k + 1 \in T
    <3>. SUFFICES ASSUME (k + 1) + 1 <= N PROVE g[(k + 1) + 1] = P((k + 1) + 1)
        OBVIOUS
    <3>. HIDE DEF P
    <3>. DEFINE n == (k + 1) + 1
    <3>1. n \in 2..N /\ n \in 1..N /\ n # 1 /\ n - 1 = k + 1 /\ g[k + 1] = P(k + 1)
        BY <1>1, <2>7
    <3>2. g[n] = g[n - 1] \o path[n]
        BY <2>4, <3>1
    <3>. QED BY <2>2, <3>1, <3>2
  <2>8. N - 1 \in T
    <3>1. N - 1 \in Nat
        BY <1>1, <1>4
    <3>. HIDE DEF T
    <3>. QED BY <3>1, <2>6, <2>7, SetInduction
  <2>9. g[N] = P(N)
    <3>1. N - 1 \in Nat /\ (N - 1) + 1 = N
        BY <1>1, <1>4
    <3>. QED BY <2>8, <3>1
  <2>10. P(N) = id
      BY <1>9
  <2>. QED BY <2>5, <2>9, <2>10 DEF path, N
<1>. QED BY <1>3, <1>4

LEMMA IdComesBack ==
    ASSUME NEW id \in Ids, \A i \in DOMAIN id : id[i] # Blank
    PROVE  JoinPath(SplitId(id)) = id
BY SplitWhole, JoinSingles
----------------------------------------------------------------------------
(* The registry beneath a host. *)

(* A step of the host registers a domain or leaves the registry alone. *)
LEMMA HostStepRegisters == HostNext => [RegistryNext]_registryVars
<1>. SUFFICES ASSUME HostNext PROVE RegistryNext \/ UNCHANGED registryVars
    OBVIOUS
<1>1. CASE OpenBegins \/ (\E n \in Names : Mount(n)) \/ OpenReturns
    BY <1>1 DEF OpenBegins, Mount, OpenReturns
<1>2. ASSUME NEW c \in Callers, NEW answer, Says(c, answer)
      PROVE  UNCHANGED registryVars
    BY <1>2 DEF Says
<1>3. ASSUME NEW c \in Callers, NEW u, Holds(c, u)
      PROVE  UNCHANGED registryVars
    BY <1>3 DEF Holds
<1>4. ASSUME NEW c \in Callers, NEW n, NEW via, NEW op, NEW arg, Routes(c, via, n, op, arg)
      PROVE  UNCHANGED registryVars
    BY <1>4 DEF Routes
<1>5. ASSUME NEW c \in Callers, NEW u, ResolveText(c, u)
      PROVE  UNCHANGED registryVars
    BY <1>2, <1>3, <1>5 DEF ResolveText
<1>6. ASSUME NEW c \in Callers, NEW n, ResolveOn(c, n)
      PROVE  UNCHANGED registryVars
    BY <1>2, <1>3, <1>5, <1>6 DEF ResolveOn
<1>7. ASSUME NEW c \in Callers,
             \/ \E t \in Types, id \in RecordIds : Mint(c, t, id)
             \/ \E l \in Links : Follow(c, l)
             \/ Retype(c) \/ Locate(c)
      PROVE  UNCHANGED registryVars
    BY <1>2, <1>3, <1>7 DEF Mint, Follow, Retype, Locate
<1>8. ASSUME NEW c \in Callers,
             (\E n \in Names : Search(c, n)) \/ Get(c) \/ List(c)
      PROVE  UNCHANGED registryVars
    BY <1>2, <1>4, <1>8 DEF Search, Get, List
<1>9. ASSUME NEW c \in Callers, ResolveURL(c)
      PROVE  UNCHANGED registryVars
    BY <1>2, <1>6, <1>9 DEF ResolveURL
<1>10. ASSUME NEW c \in Callers, Step(c)
       PROVE  UNCHANGED registryVars
    BY <1>2, <1>10 DEF Step, StartClient, ClientBuilt, UseClient, Run
<1>. QED BY <1>1, <1>5, <1>6, <1>7, <1>8, <1>9, <1>10 DEF HostNext

(* Whatever its callers do, a host is a run of the registry beneath it.     *)
THEOREM HostRunsRegistry == HostSpec => RegistrySpec
<1>1. HostInit => RegistryInit
    BY DEF HostInit
<1>2. [HostNext]_allVars => [RegistryNext]_registryVars
    BY HostStepRegisters DEF allVars
<1>. QED BY <1>1, <1>2, PTL DEF HostSpec, RegistrySpec

(* So what is proved of the registry holds beneath a host: every claimed    *)
(* name is backed, the kinds stay free, owners keep their names.            *)
THEOREM HostRegistryCorrect == HostSpec => []RegistryInv
BY HostRunsRegistry, RegistryCorrect, PTL

(* A name a caller resolved early means the same domain later.              *)
THEOREM HostNamesFinal == HostSpec => NamesAreFinal
BY HostRunsRegistry, NamesFinal, PTL
----------------------------------------------------------------------------
(* The host. *)

Paths == {SplitId(id) : id \in Ids} \union {u.path : u \in Typed} \union {<<>>}
Args == {JoinPath(p) : p \in Paths} \union {<<>>}
URIs == [scheme : Names \union {Nobody}, authority : Authorities \union {Nobody},
         path : Paths, from : {"none", "record", "resolved", "text", "link"}, id : Ids,
         of : Types \union {NoType}]
CallStates == [pc : {"idle", "named", "client", "building", "run", "done"},
               via : {"none", "get", "list", "search"},
               scheme : Names \union {Nobody}, op : Nat, arg : Args,
               answer : {"none", "unknown", "unnamed", "usage", "located", "noType", "noList",
                         "noSearch", "clientError", "records", "noRecord", "failed"}]
Mounts == [dom : Doms \union {Nobody}, index : Indexes]
Mints == [scheme : Names \union {Nobody}, authority : Authorities \union {Nobody}]

HostTypes ==
    /\ ops \in [Doms -> OpLists]
    /\ opened \in {"no", "opening", "open"}
    /\ pending \subseteq Names
    /\ mounts \in [Names -> Mounts]
    /\ mint \in [Types -> Mints]
    /\ client \in [Names -> {"none", "building", "ok", "failed"}]
    /\ name \in [Callers -> URIs]
    /\ call \in [Callers -> CallStates]

(* A scheme leads to itself: canonScheme is stable on the names a host has. *)
SchemesLead == \A n \in Names : domains[n] # Nobody => aliases[n] = n

(* What is mounted is what is registered, and indexed. *)
MountsMatch ==
    /\ \A n \in pending : domains[n] # Nobody
    /\ \A n \in Names : mounts[n].dom # Nobody =>
           domains[n] = mounts[n].dom /\ mounts[n].index = Index(ops[mounts[n].dom])

(* Whether authority a of scheme n has an operation to dereference it. *)
Leads(n, a) == /\ n \in Names /\ a \in Authorities
               /\ mounts[n].dom # Nobody
               /\ mounts[n].index.resolvers[a] # 0

MintsLead == \A t \in Types : mint[t].scheme # Nobody => Leads(mint[t].scheme, mint[t].authority)

(* A Get that went out: to the mounted domain of the name's scheme, for the *)
(* operation filed under its authority, with the id in its path.            *)
Fetches(c) ==
    LET n == name[c].scheme
        s == call[c].scheme
    IN  /\ n \in Names /\ name[c].authority \in Authorities
        /\ Mounted(n) /\ s = CanonScheme(n)
        /\ call[c].op = mounts[s].index.resolvers[name[c].authority] /\ call[c].op # 0
        /\ call[c].arg = JoinPath(name[c].path)

(* What a name promises, and a call that went out from it. *)
NameLeads(c) ==
    /\ call[c].pc # "idle" => opened = "open"
    /\ call[c].pc = "idle" => name[c].from = "none"
    /\ call[c].pc \in {"idle", "named"} => call[c].via = "none"
    /\ call[c].via = "get" => Fetches(c)
    /\ name[c].from # "none" => name[c].scheme \in Names
    /\ name[c].from # "none" /\ call[c].answer = "unknown" => ~Mounted(name[c].scheme)
    /\ call[c].pc = "named" => name[c].scheme \in Names /\ name[c].authority \in Authorities
    /\ call[c].pc # "done" => call[c].answer = "none"
    /\ call[c].pc \in {"client", "building", "run"} => call[c].scheme \in Names
    /\ name[c].from = "record" =>
           /\ Leads(name[c].scheme, name[c].authority)
           /\ name[c].path = SplitId(name[c].id)
           /\ call[c].answer \notin {"unknown", "noType"}
           /\ call[c].pc \in {"client", "building", "run"} => call[c].arg = JoinPath(name[c].path)
    /\ name[c].from = "resolved" /\ name[c].scheme \notin Reserved =>
           /\ name[c].scheme \in Names
           /\ mounts[name[c].scheme].dom # Nobody
           /\ call[c].answer # "unknown"

(* A once.Do that is under way has its one caller inside. *)
OnceHolds ==
    /\ OneFactoryPerDomain
    /\ \A c \in Callers : call[c].pc = "building" => client[call[c].scheme] = "building"

HostIInv ==
    /\ RegistryInv
    /\ HostTypes /\ SchemesLead /\ MountsMatch /\ MintsLead
    /\ \A c \in Callers : NameLeads(c)
    /\ OnceHolds

LEMMA HostInitInv == HostInit => HostIInv
<1>. SUFFICES ASSUME HostInit PROVE HostIInv
    OBVIOUS
<1>1. RegistryInv
    BY InitRegistryInv DEF HostInit
<1>2. HostTypes
  <2>1. NoIndex \in Indexes
      BY DEF NoIndex, Indexes
  <2>2. NoName \in URIs
    <3>1. <<>> \in Ids /\ <<>> \in Paths
        BY DEF Ids, Paths
    <3>. QED BY <3>1 DEF NoName, URIs
  <2>3. NoCall \in CallStates
      BY DEF NoCall, CallStates, Args
  <2>. QED BY <2>1, <2>2, <2>3 DEF HostInit, HostTypes, Mounts, Mints, Unmounted
<1>3. SchemesLead /\ MountsMatch /\ MintsLead
    BY DEF HostInit, RegistryInit, SchemesLead, MountsMatch, MintsLead, Unmounted
<1>4. \A c \in Callers : NameLeads(c)
    BY DEF HostInit, NameLeads, NoName, NoCall
<1>5. OnceHolds
    BY DEF HostInit, OnceHolds, OneFactoryPerDomain, NoCall
<1>. QED BY <1>1, <1>2, <1>3, <1>4, <1>5 DEF HostIInv

(* A name of the host is canonical. *)
LEMMA MountedIsCanonical ==
    ASSUME HostIInv, NEW n \in Names, mounts[n].dom # Nobody
    PROVE  CanonScheme(n) = n
BY RegistryAssumption DEF HostIInv, SchemesLead, MountsMatch, CanonScheme

LEMMA CanonType ==
    ASSUME RegistryInv, NEW n \in Names
    PROVE  CanonScheme(n) \in Names
BY DEF RegistryInv, RegistryTypeOK, CanonScheme

(* What the callers do leaves registry, index and mounts alone. *)
LEMMA CallerFrame ==
    ASSUME HostIInv, UNCHANGED <<registryVars, indexVars>>
    PROVE  RegistryInv' /\ SchemesLead' /\ MountsMatch' /\ MintsLead'
<1>1. RegistryInv'
  <2>1. [RegistryNext]_registryVars
      OBVIOUS
  <2>. QED BY <2>1, RegistryStep DEF HostIInv
<1>2. SchemesLead'
    BY DEF HostIInv, SchemesLead, registryVars
<1>3. MountsMatch'
    BY DEF HostIInv, MountsMatch, registryVars, indexVars
<1>4. MintsLead'
    BY DEF HostIInv, MintsLead, Leads, indexVars
<1>. QED BY <1>1, <1>2, <1>3, <1>4

(* A caller that does nothing keeps what its name promises, while the mounts *)
(* and where the schemes lead stay as they are.                              *)
LEMMA StillLeads ==
    ASSUME HostIInv, NEW e \in Callers, name'[e] = name[e], call'[e] = call[e],
           mounts' = mounts, opened' = opened,
           \A n \in Names : /\ Mounted(n)' <=> Mounted(n)
                            /\ Mounted(n) => CanonScheme(n)' = CanonScheme(n)
    PROVE  NameLeads(e)'
<1>1. NameLeads(e)
    BY DEF HostIInv
<1>2. Fetches(e) => Fetches(e)'
    BY DEF Fetches
<1>. QED BY <1>1, <1>2 DEF NameLeads, Leads

LEMMA OtherNames ==
    ASSUME HostIInv, NEW e \in Callers, name'[e] = name[e], call'[e] = call[e],
           UNCHANGED <<registryVars, indexVars>>
    PROVE  NameLeads(e)'
<1>1. aliases' = aliases /\ mounts' = mounts /\ opened' = opened
    BY DEF registryVars, indexVars
<1>. QED BY <1>1, StillLeads DEF Mounted, CanonScheme

(* Before Open has returned no caller has a name or a call. *)
LEMMA IdleNames ==
    ASSUME HostIInv, opened # "open", UNCHANGED <<name, call>>, NEW e \in Callers
    PROVE  NameLeads(e)'
<1>1. NameLeads(e)
    BY DEF HostIInv
<1>. QED BY <1>1 DEF NameLeads

Answers == {"none", "unknown", "unnamed", "usage", "located", "noType", "noList",
            "noSearch", "clientError", "records", "noRecord", "failed"}

(* A call may end with any answer its name does not rule out. *)
LEMMA SaysKeeps ==
    ASSUME HostIInv, NEW c \in Callers, NEW answer \in Answers, Says(c, answer),
           opened = "open",
           name[c].from = "record" => answer \notin {"unknown", "noType"},
           name[c].from = "resolved" /\ name[c].scheme \notin Reserved => answer # "unknown",
           name[c].from # "none" /\ answer = "unknown" => ~Mounted(name[c].scheme)
    PROVE  HostIInv'
<1>1. /\ call' = [call EXCEPT ![c].pc = "done", ![c].answer = answer]
      /\ UNCHANGED <<registryVars, indexVars, client, name>>
    BY DEF Says
<1>2. HostTypes
    BY DEF HostIInv
<1>3. /\ call'[c].pc = "done" /\ call'[c].answer = answer
      /\ call'[c].via = call[c].via /\ call'[c].scheme = call[c].scheme
      /\ call'[c].op = call[c].op /\ call'[c].arg = call[c].arg
      /\ \A e \in Callers \ {c} : call'[e] = call[e]
      /\ call' \in [Callers -> CallStates]
  <2>. DEFINE r == [call[c] EXCEPT !.pc = "done", !.answer = answer]
  <2>1. call[c] \in CallStates
      BY <1>2 DEF HostTypes
  <2>2. /\ r \in CallStates /\ r.pc = "done" /\ r.answer = answer
        /\ r.via = call[c].via /\ r.scheme = call[c].scheme
        /\ r.op = call[c].op /\ r.arg = call[c].arg
      BY <2>1 DEF CallStates, Answers
  <2>3. call' = [call EXCEPT ![c] = r]
      BY <1>1, <1>2 DEF HostTypes
  <2>. HIDE DEF r
  <2>. QED BY <1>2, <2>2, <2>3 DEF HostTypes
<1>4. HostTypes'
    BY <1>1, <1>2, <1>3 DEF HostTypes, indexVars
<1>5. NameLeads(c)'
  <2>1. NameLeads(c)
      BY DEF HostIInv
  <2>2. aliases' = aliases /\ mounts' = mounts /\ opened' = opened /\ name' = name
      BY <1>1 DEF registryVars, indexVars
  <2>3. Fetches(c) => Fetches(c)'
      BY <1>3, <2>2 DEF Fetches, Mounted, CanonScheme
  <2>4. Mounted(name[c].scheme)' <=> Mounted(name[c].scheme)
      BY <2>2 DEF Mounted, CanonScheme
  <2>. QED BY <1>3, <2>1, <2>2, <2>3, <2>4 DEF NameLeads, Leads
<1>6. ASSUME NEW e \in Callers \ {c} PROVE NameLeads(e)'
    BY <1>1, <1>3, OtherNames
<1>7. OnceHolds'
    BY <1>1, <1>3 DEF HostIInv, OnceHolds, OneFactoryPerDomain
<1>. QED BY <1>1, <1>4, <1>5, <1>6, <1>7, CallerFrame DEF HostIInv

(* A caller may take a name that leads where it should. *)
LEMMA HoldsKeeps ==
    ASSUME HostIInv, NEW c \in Callers, NEW u \in URIs, Holds(c, u),
           call[c].answer = "none", call[c].pc \in {"idle", "named"}, opened = "open",
           u.scheme \in Names /\ u.authority \in Authorities,
           u.from = "record" => Leads(u.scheme, u.authority) /\ u.path = SplitId(u.id),
           u.from = "resolved" /\ u.scheme \notin Reserved => mounts[u.scheme].dom # Nobody
    PROVE  HostIInv'
<1>1. /\ name' = [name EXCEPT ![c] = u]
      /\ call' = [call EXCEPT ![c].pc = "named"]
      /\ UNCHANGED <<registryVars, indexVars, client>>
    BY DEF Holds
<1>2. HostTypes
    BY DEF HostIInv
<1>9. NameLeads(c)
    BY DEF HostIInv
<1>3. /\ call'[c].pc = "named" /\ call'[c].answer = "none" /\ call'[c].via = "none"
      /\ \A e \in Callers \ {c} : call'[e] = call[e]
      /\ call' \in [Callers -> CallStates]
    BY <1>1, <1>2, <1>9 DEF HostTypes, CallStates, NameLeads
<1>4. /\ name'[c] = u /\ name' \in [Callers -> URIs]
      /\ \A e \in Callers \ {c} : name'[e] = name[e]
    BY <1>1, <1>2 DEF HostTypes
<1>5. HostTypes'
    BY <1>1, <1>2, <1>3, <1>4 DEF HostTypes, indexVars
<1>6. NameLeads(c)'
    BY <1>1, <1>3, <1>4 DEF NameLeads, Leads, indexVars
<1>7. ASSUME NEW e \in Callers \ {c} PROVE NameLeads(e)'
    BY <1>1, <1>3, <1>4, OtherNames
<1>8. OnceHolds'
    BY <1>1, <1>3 DEF HostIInv, OnceHolds, OneFactoryPerDomain
<1>. QED BY <1>1, <1>5, <1>6, <1>7, <1>8, CallerFrame DEF HostIInv

(* A call may go out to a scheme, with the path of its name if it has one. *)
LEMMA RoutesKeeps ==
    ASSUME HostIInv, NEW c \in Callers, NEW via \in {"get", "list", "search"},
           NEW n \in Names, NEW op \in Nat, NEW arg \in Args,
           Routes(c, via, n, op, arg), call[c].answer = "none", opened = "open",
           name[c].from = "record" => arg = JoinPath(name[c].path),
           via = "get" => /\ n = name[c].scheme /\ name[c].authority \in Authorities
                          /\ Mounted(n) /\ op # 0
                          /\ op = IndexOf(n).resolvers[name[c].authority]
                          /\ arg = JoinPath(name[c].path)
    PROVE  HostIInv'
<1>. DEFINE r == [pc |-> "client", via |-> via, scheme |-> CanonScheme(n), op |-> op,
                  arg |-> arg, answer |-> "none"]
<1>1. /\ call' = [call EXCEPT ![c] = r]
      /\ UNCHANGED <<registryVars, indexVars, client, name>>
    BY DEF Routes
<1>2. HostTypes
    BY DEF HostIInv
<1>3. CanonScheme(n) \in Names
    BY CanonType DEF HostIInv
<1>4. r \in CallStates
    BY <1>3 DEF CallStates
<1>5. /\ call'[c] = r /\ \A e \in Callers \ {c} : call'[e] = call[e]
      /\ call' \in [Callers -> CallStates]
    BY <1>1, <1>2, <1>4 DEF HostTypes
<1>6. HostTypes'
    BY <1>1, <1>2, <1>5 DEF HostTypes, indexVars
<1>7. NameLeads(c)'
  <2>1. NameLeads(c)
      BY DEF HostIInv
  <2>2. aliases' = aliases /\ mounts' = mounts /\ opened' = opened /\ name' = name
      BY <1>1 DEF registryVars, indexVars
  <2>3. via = "get" => Fetches(c)'
      BY <1>5, <2>2 DEF Fetches, Mounted, IndexOf, CanonScheme
  <2>. QED BY <1>3, <1>5, <2>1, <2>2, <2>3 DEF NameLeads, Leads
<1>8. ASSUME NEW e \in Callers \ {c} PROVE NameLeads(e)'
    BY <1>1, <1>5, OtherNames
<1>9. OnceHolds'
    BY <1>1, <1>5 DEF HostIInv, OnceHolds, OneFactoryPerDomain
<1>. QED BY <1>1, <1>6, <1>7, <1>8, <1>9, CallerFrame DEF HostIInv

(* The operation a scheme files under an authority is one of its own. *)
LEMMA IndexOfType ==
    ASSUME HostIInv, NEW n \in Names
    PROVE  /\ CanonScheme(n) \in Names
           /\ IndexOf(n) \in Indexes
<1>1. CanonScheme(n) \in Names
    BY CanonType DEF HostIInv
<1>2. mounts[CanonScheme(n)] \in Mounts
    BY <1>1 DEF HostIInv, HostTypes
<1>. QED BY <1>1, <1>2 DEF IndexOf, Mounts

(* A name that was minted leads on, and one that was resolved is mounted. *)
LEMMA NamedLeads ==
    ASSUME HostIInv, NEW c \in Callers, call[c].pc = "named"
    PROVE  /\ name[c] \in URIs /\ name[c].scheme \in Names /\ name[c].authority \in Authorities
           /\ call[c].answer = "none" /\ opened = "open"
           /\ name[c].from = "record" =>
                  /\ Mounted(name[c].scheme)
                  /\ IndexOf(name[c].scheme).resolvers[name[c].authority] # 0
           /\ name[c].from = "resolved" /\ name[c].scheme \notin Reserved => Mounted(name[c].scheme)
<1>1. NameLeads(c) /\ name[c] \in URIs
    BY DEF HostIInv, HostTypes
<1>2. ASSUME NEW n \in Names, mounts[n].dom # Nobody
      PROVE  Mounted(n) /\ IndexOf(n) = mounts[n].index
    BY <1>2, MountedIsCanonical DEF Mounted, IndexOf
<1>. QED BY <1>1, <1>2 DEF NameLeads, Leads

LEMMA IdleIsUnnamed ==
    ASSUME HostIInv, NEW c \in Callers, Idle(c)
    PROVE  /\ name[c].from = "none" /\ call[c].answer = "none"
           /\ call[c].pc = "idle" /\ opened = "open"
<1>1. NameLeads(c)
    BY DEF HostIInv
<1>. QED BY <1>1 DEF NameLeads, Idle

LEMMA MintKeeps ==
    ASSUME HostIInv, NEW c \in Callers, NEW t \in Types, NEW id \in RecordIds, Mint(c, t, id)
    PROVE  HostIInv'
<1>1. /\ name[c].from = "none" /\ call[c].answer = "none"
      /\ call[c].pc = "idle" /\ opened = "open"
    BY IdleIsUnnamed DEF Mint
<1>2. CASE Says(c, "unnamed")
    BY <1>1, <1>2, SaysKeeps DEF Answers
<1>. DEFINE u == [scheme |-> mint[t].scheme, authority |-> mint[t].authority,
                  path |-> SplitId(id), from |-> "record", id |-> id, of |-> t]
<1>3. CASE mint[t].scheme # Nobody /\ Holds(c, u)
  <2>1. Leads(mint[t].scheme, mint[t].authority)
      BY <1>3 DEF HostIInv, MintsLead
  <2>2. mint[t] \in Mints /\ id \in Ids
      BY HostAssumption DEF HostIInv, HostTypes
  <2>3. u \in URIs
      BY <2>2 DEF URIs, Mints, Paths
  <2>4. u.scheme \in Names /\ u.authority \in Authorities
      BY <2>1 DEF Leads
  <2>. QED BY <1>1, <1>3, <2>1, <2>3, <2>4, HoldsKeeps
<1>. QED BY <1>2, <1>3 DEF Mint

LEMMA ResolveTextKeeps ==
    ASSUME HostIInv, NEW c \in Callers, NEW u \in Typed, ResolveText(c, u)
    PROVE  HostIInv'
<1>1. /\ name[c].from = "none" /\ call[c].answer = "none"
      /\ call[c].pc = "idle" /\ opened = "open"
    BY IdleIsUnnamed DEF ResolveText
<1>2. CASE Says(c, "unknown")
    BY <1>1, <1>2, SaysKeeps DEF Answers
<1>. DEFINE s == IF u.scheme \in Reserved THEN u.scheme ELSE CanonScheme(u.scheme)
            v == [scheme |-> s, authority |-> Lower[u.authority],
                  path |-> u.path, from |-> "resolved", id |-> <<>>, of |-> NoType]
<1>3. CASE (Mounted(u.scheme) \/ u.scheme \in Reserved) /\ Holds(c, v)
  <2>1. u \in [scheme : Names, authority : Authorities, path : Seq(Ids)]
      BY HostAssumption
  <2>2. s \in Names /\ Lower[u.authority] \in Authorities
      BY <2>1, CanonType, HostAssumption DEF HostIInv
  <2>3. u.path \in Paths /\ <<>> \in Ids
      BY DEF Paths, Ids
  <2>4. v \in URIs
      BY <2>2, <2>3 DEF URIs
  <2>5. s \notin Reserved => mounts[s].dom # Nobody
      BY <1>3 DEF Mounted
  <2>. HIDE DEF s
  <2>. QED BY <1>1, <1>3, <2>2, <2>4, <2>5, HoldsKeeps
<1>. QED BY <1>2, <1>3 DEF ResolveText

LEMMA ResolveOnKeeps ==
    ASSUME HostIInv, NEW c \in Callers, NEW n \in Names, ResolveOn(c, n)
    PROVE  HostIInv'
<1>1. /\ name[c].from = "none" /\ call[c].answer = "none"
      /\ call[c].pc = "idle" /\ opened = "open"
    BY IdleIsUnnamed DEF ResolveOn, ResolveText
<1>2. CASE Says(c, "unknown") \/ Says(c, "usage")
    BY <1>1, <1>2, SaysKeeps DEF Answers
<1>3. ASSUME NEW u \in Typed, ResolveText(c, u) PROVE HostIInv'
    BY <1>3, ResolveTextKeeps
<1>4. ASSUME mounts[CanonScheme(n)].dom \in Classifiers, NEW k \in Classified,
             Holds(c, [scheme |-> CanonScheme(n), authority |-> Lower[k.authority],
                       path |-> SplitId(k.id), from |-> "resolved", id |-> <<>>,
                       of |-> NoType])
      PROVE  HostIInv'
  <2>. DEFINE u == [scheme |-> CanonScheme(n), authority |-> Lower[k.authority],
                    path |-> SplitId(k.id), from |-> "resolved", id |-> <<>>,
                    of |-> NoType]
  <2>1. k \in [authority : Authorities, id : Ids]
      BY HostAssumption
  <2>2. CanonScheme(n) \in Names /\ Lower[k.authority] \in Authorities
      BY <2>1, CanonType, HostAssumption DEF HostIInv
  <2>3. SplitId(k.id) \in Paths /\ <<>> \in Ids
      BY <2>1 DEF Paths, Ids
  <2>4. u \in URIs
      BY <2>2, <2>3 DEF URIs
  <2>5. mounts[CanonScheme(n)].dom # Nobody
      BY <1>4, HostAssumption, RegistryAssumption
  <2>. QED BY <1>1, <1>4, <2>2, <2>4, <2>5, HoldsKeeps
<1>. QED BY <1>2, <1>3, <1>4 DEF ResolveOn

LEMMA ResolveURLKeeps ==
    ASSUME HostIInv, NEW c \in Callers, ResolveURL(c)
    PROVE  HostIInv'
<1>1. CASE Idle(c) /\ Says(c, "usage")
    BY <1>1, IdleIsUnnamed, SaysKeeps DEF Answers
<1>. QED BY <1>1, ResolveOnKeeps DEF ResolveURL

LEMMA RetypeKeeps ==
    ASSUME HostIInv, NEW c \in Callers, Retype(c)
    PROVE  HostIInv'
<1>. DEFINE u == [name[c] EXCEPT !.authority = Lower[@], !.from = "text"]
<1>1. Holds(c, u) /\ call[c].pc = "named"
    BY DEF Retype
<1>2. /\ name[c] \in URIs /\ name[c].scheme \in Names /\ name[c].authority \in Authorities
      /\ call[c].answer = "none" /\ opened = "open"
    BY <1>1, NamedLeads
<1>3. Lower[name[c].authority] \in Authorities
    BY <1>2, HostAssumption
<1>4. /\ u \in URIs /\ u.from = "text" /\ u.scheme \in Names /\ u.authority \in Authorities
    BY <1>2, <1>3 DEF URIs
<1>. HIDE DEF u
<1>. QED BY <1>1, <1>2, <1>4, HoldsKeeps

LEMMA FollowKeeps ==
    ASSUME HostIInv, NEW c \in Callers, NEW l \in Links, Follow(c, l)
    PROVE  HostIInv'
<1>. DEFINE u == [scheme |-> CanonScheme(l.scheme), authority |-> l.authority,
                  path |-> SplitId(l.id), from |-> "link", id |-> <<>>, of |-> NoType]
<1>1. Holds(c, u) /\ call[c].answer = "none" /\ call[c].pc = "idle" /\ opened = "open"
    BY IdleIsUnnamed DEF Follow
<1>2. l \in [scheme : Names, authority : Authorities, id : Ids]
    BY HostAssumption
<1>3. CanonScheme(l.scheme) \in Names /\ SplitId(l.id) \in Paths /\ <<>> \in Ids
    BY <1>2, CanonType DEF HostIInv, Paths, Ids
<1>4. u \in URIs /\ u.from = "link" /\ u.scheme \in Names /\ u.authority \in Authorities
    BY <1>2, <1>3 DEF URIs
<1>. HIDE DEF u
<1>. QED BY <1>1, <1>4, HoldsKeeps

LEMMA LocateKeeps ==
    ASSUME HostIInv, NEW c \in Callers, Locate(c)
    PROVE  HostIInv'
<1>1. CASE ~Mounted(name[c].scheme) /\ Says(c, "unknown")
    BY <1>1, NamedLeads, SaysKeeps DEF Locate, Answers
<1>2. CASE Says(c, "located") \/ Says(c, "usage")
    BY <1>2, NamedLeads, SaysKeeps DEF Locate, Answers
<1>. QED BY <1>1, <1>2 DEF Locate

LEMMA GetKeeps ==
    ASSUME HostIInv, NEW c \in Callers, Get(c)
    PROVE  HostIInv'
<1>. DEFINE n == name[c].scheme
            op == IndexOf(n).resolvers[name[c].authority]
            arg == JoinPath(name[c].path)
<1>1. call[c].pc = "named"
    BY DEF Get
<1>2. CASE ~Mounted(n) /\ Says(c, "unknown")
    BY <1>1, <1>2, NamedLeads, SaysKeeps DEF Answers
<1>3. CASE op = 0 /\ Says(c, "noType")
    BY <1>1, <1>3, NamedLeads, SaysKeeps DEF Answers
<1>4. CASE Mounted(n) /\ op # 0 /\ Routes(c, "get", n, op, arg)
  <2>1. /\ n \in Names /\ op \in Nat /\ arg \in Args /\ call[c].answer = "none"
        /\ name[c].authority \in Authorities /\ opened = "open"
      BY <1>1, NamedLeads, IndexOfType DEF Indexes, Args, URIs
  <2>2. /\ n = name[c].scheme /\ arg = JoinPath(name[c].path)
        /\ op = IndexOf(n).resolvers[name[c].authority]
      OBVIOUS
  <2>. HIDE DEF n, op, arg
  <2>. QED BY <1>4, <2>1, <2>2, RoutesKeeps
<1>. QED BY <1>2, <1>3, <1>4 DEF Get

LEMMA ListKeeps ==
    ASSUME HostIInv, NEW c \in Callers, List(c)
    PROVE  HostIInv'
<1>. DEFINE n == name[c].scheme
            op == IndexOf(n).lists[name[c].authority]
            arg == JoinPath(name[c].path)
<1>1. call[c].pc = "named"
    BY DEF List
<1>2. CASE ~Mounted(n) /\ Says(c, "unknown")
    BY <1>1, <1>2, NamedLeads, SaysKeeps DEF Answers
<1>3. CASE op = 0 /\ Says(c, "noList")
    BY <1>1, <1>3, NamedLeads, SaysKeeps DEF Answers
<1>4. CASE Routes(c, "list", n, op, arg)
  <2>1. /\ n \in Names /\ op \in Nat /\ arg \in Args /\ call[c].answer = "none"
        /\ opened = "open"
      BY <1>1, NamedLeads, IndexOfType DEF Indexes, Args, URIs
  <2>2. arg = JoinPath(name[c].path)
      OBVIOUS
  <2>. HIDE DEF n, op, arg
  <2>. QED BY <1>4, <2>1, <2>2, RoutesKeeps
<1>. QED BY <1>2, <1>3, <1>4 DEF List

LEMMA SearchKeeps ==
    ASSUME HostIInv, NEW c \in Callers, NEW n \in Names, Search(c, n)
    PROVE  HostIInv'
<1>1. /\ name[c].from = "none" /\ call[c].answer = "none"
      /\ call[c].pc = "idle" /\ opened = "open"
    BY IdleIsUnnamed DEF Search
<1>2. CASE Says(c, "unknown") \/ Says(c, "noSearch")
    BY <1>1, <1>2, SaysKeeps DEF Answers
<1>3. CASE Routes(c, "search", n, IndexOf(n).search, <<>>)
  <2>1. IndexOf(n).search \in Nat /\ <<>> \in Args
      BY IndexOfType DEF Indexes, Args
  <2>. QED BY <1>1, <1>3, <2>1, RoutesKeeps
<1>. QED BY <1>2, <1>3 DEF Search

(* How one caller's call moves on without an answer. *)
LEMMA CallMoves ==
    ASSUME HostIInv, NEW c \in Callers, NEW pc \in {"client", "building", "run"},
           call' = [call EXCEPT ![c].pc = pc],
           call[c].pc \in {"client", "building", "run"},
           client' \in [Names -> {"none", "building", "ok", "failed"}],
           UNCHANGED <<registryVars, indexVars, name>>,
           OnceHolds'
    PROVE  HostIInv'
<1>1. HostTypes /\ NameLeads(c)
    BY DEF HostIInv
<1>2. /\ call'[c] = [call[c] EXCEPT !.pc = pc]
      /\ \A e \in Callers \ {c} : call'[e] = call[e]
      /\ call' \in [Callers -> CallStates]
  <2>1. call[c] \in CallStates
      BY <1>1 DEF HostTypes
  <2>2. [call[c] EXCEPT !.pc = pc] \in CallStates
      BY <2>1 DEF CallStates
  <2>. QED BY <1>1, <2>2 DEF HostTypes
<1>3. /\ call'[c].pc = pc /\ call'[c].answer = call[c].answer
      /\ call'[c].scheme = call[c].scheme /\ call'[c].arg = call[c].arg
      /\ call'[c].via = call[c].via /\ call'[c].op = call[c].op
  <2>1. call[c] \in CallStates
      BY <1>1 DEF HostTypes
  <2>. QED BY <1>2, <2>1 DEF CallStates
<1>4. HostTypes'
    BY <1>1, <1>2 DEF HostTypes, indexVars
<1>5. NameLeads(c)'
  <2>2. aliases' = aliases /\ mounts' = mounts /\ opened' = opened /\ name' = name
      BY DEF registryVars, indexVars
  <2>3. Fetches(c) => Fetches(c)'
      BY <1>3, <2>2 DEF Fetches, Mounted, CanonScheme
  <2>4. Mounted(name[c].scheme)' <=> Mounted(name[c].scheme)
      BY <2>2 DEF Mounted, CanonScheme
  <2>. QED BY <1>1, <1>3, <2>2, <2>3, <2>4 DEF NameLeads, Leads
<1>6. ASSUME NEW e \in Callers \ {c} PROVE NameLeads(e)'
    BY <1>2, OtherNames
<1>. QED BY <1>4, <1>5, <1>6, CallerFrame DEF HostIInv

LEMMA SchemeOfCall ==
    ASSUME HostIInv, NEW c \in Callers, call[c].pc \in {"client", "building", "run"}
    PROVE  call[c].scheme \in Names /\ opened = "open"
<1>1. NameLeads(c)
    BY DEF HostIInv
<1>. QED BY <1>1 DEF NameLeads

(* The fields of the call that moves, and of the others. *)
LEMMA PcMoves ==
    ASSUME HostIInv, NEW c \in Callers, NEW pc, call' = [call EXCEPT ![c].pc = pc]
    PROVE  /\ call'[c].pc = pc /\ call'[c].scheme = call[c].scheme
           /\ \A e \in Callers \ {c} : call'[e] = call[e]
<1>1. call \in [Callers -> CallStates] /\ call[c] \in CallStates
    BY DEF HostIInv, HostTypes
<1>. QED BY <1>1 DEF CallStates

(* Only a caller that finds no client goes into once.Do. *)
LEMMA StartClientKeeps ==
    ASSUME HostIInv, NEW c \in Callers, StartClient(c)
    PROVE  HostIInv'
<1>. DEFINE n == call[c].scheme
<1>1. /\ call[c].pc = "client" /\ client[n] = "none"
      /\ client' = [client EXCEPT ![n] = "building"]
      /\ call' = [call EXCEPT ![c].pc = "building"]
      /\ UNCHANGED <<registryVars, indexVars, name>>
    BY DEF StartClient
<1>2. n \in Names
    BY <1>1, SchemeOfCall
<1>3. client \in [Names -> {"none", "building", "ok", "failed"}]
    BY DEF HostIInv, HostTypes
<1>4. /\ client'[n] = "building" /\ \A m \in Names \ {n} : client'[m] = client[m]
      /\ client' \in [Names -> {"none", "building", "ok", "failed"}]
    BY <1>1, <1>2, <1>3
<1>5. /\ call'[c].pc = "building" /\ call'[c].scheme = n
      /\ \A e \in Callers \ {c} : call'[e] = call[e]
    BY <1>1, PcMoves
<1>6. OnceHolds
    BY DEF HostIInv
<1>7. ASSUME NEW e \in Callers \ {c}, call[e].pc \in {"building", "run"}
      PROVE  call[e].scheme \in Names \ {n}
    BY <1>1, <1>6, <1>7, SchemeOfCall DEF OnceHolds, OneFactoryPerDomain
<1>. HIDE DEF n
<1>8. OnceHolds'
    BY <1>4, <1>5, <1>6, <1>7 DEF OnceHolds, OneFactoryPerDomain
<1>. QED BY <1>1, <1>4, <1>8, CallMoves

(* The factory of the one inside settles the client for all who wait. *)
LEMMA ClientBuiltKeeps ==
    ASSUME HostIInv, NEW c \in Callers, NEW ok \in BOOLEAN, ClientBuilt(c, ok)
    PROVE  HostIInv'
<1>. DEFINE n == call[c].scheme
            v == IF ok THEN "ok" ELSE "failed"
<1>1. /\ call[c].pc = "building"
      /\ client' = [client EXCEPT ![n] = v]
      /\ call' = [call EXCEPT ![c].pc = "client"]
      /\ UNCHANGED <<registryVars, indexVars, name>>
    BY DEF ClientBuilt
<1>2. n \in Names
    BY <1>1, SchemeOfCall
<1>3. client \in [Names -> {"none", "building", "ok", "failed"}]
    BY DEF HostIInv, HostTypes
<1>4. /\ \A m \in Names \ {n} : client'[m] = client[m]
      /\ client' \in [Names -> {"none", "building", "ok", "failed"}]
    BY <1>1, <1>2, <1>3
<1>5. /\ call'[c].pc = "client" /\ call'[c].scheme = n
      /\ \A e \in Callers \ {c} : call'[e] = call[e]
    BY <1>1, PcMoves
<1>6. OnceHolds
    BY DEF HostIInv
<1>7. ASSUME NEW e \in Callers \ {c}, call[e].pc \in {"building", "run"}
      PROVE  call[e].scheme \in Names \ {n}
    BY <1>1, <1>6, <1>7, SchemeOfCall DEF OnceHolds, OneFactoryPerDomain
<1>. HIDE DEF n
<1>8. OnceHolds'
    BY <1>4, <1>5, <1>6, <1>7 DEF OnceHolds, OneFactoryPerDomain
<1>. QED BY <1>1, <1>4, <1>8, CallMoves

LEMMA UseClientKeeps ==
    ASSUME HostIInv, NEW c \in Callers, UseClient(c)
    PROVE  HostIInv'
<1>1. CASE Says(c, "clientError")
    BY <1>1, SaysKeeps, SchemeOfCall DEF UseClient, Answers
<1>2. CASE /\ call[c].pc = "client" /\ client[call[c].scheme] = "ok"
           /\ call' = [call EXCEPT ![c].pc = "run"]
           /\ UNCHANGED <<registryVars, indexVars, client, name>>
  <2>1. /\ call'[c].pc = "run" /\ call'[c].scheme = call[c].scheme
        /\ \A e \in Callers \ {c} : call'[e] = call[e]
      BY <1>2, PcMoves
  <2>2. OnceHolds
      BY DEF HostIInv
  <2>3. OnceHolds'
      BY <1>2, <2>1, <2>2 DEF OnceHolds, OneFactoryPerDomain
  <2>4. client' \in [Names -> {"none", "building", "ok", "failed"}]
      BY <1>2 DEF HostIInv, HostTypes
  <2>. QED BY <1>2, <2>3, <2>4, CallMoves
<1>. QED BY <1>1, <1>2 DEF UseClient

LEMMA RunKeeps ==
    ASSUME HostIInv, NEW c \in Callers, Run(c)
    PROVE  HostIInv'
BY SaysKeeps, SchemeOfCall DEF Run, Answers

(* What is registered now takes no mounted scheme and leads no name to one. *)
LEMMA RegisterKeepsMounted ==
    ASSUME HostIInv, RegistryNext, UNCHANGED hostVars, NEW n \in Names
    PROVE  /\ Mounted(n)' <=> Mounted(n)
           /\ Mounted(n) => CanonScheme(n)' = CanonScheme(n)
<1>1. RegistryInv /\ RegistryTypeOK /\ mounts' = mounts
    BY DEF HostIInv, RegistryInv, hostVars, indexVars
<1>2. CASE CanonScheme(n)' = CanonScheme(n)
    BY <1>1, <1>2 DEF Mounted
<1>3. CASE CanonScheme(n)' # CanonScheme(n)
  <2>1. aliases[n] = Nobody /\ aliases'[n] # Nobody
      BY <1>1, <1>3, StepKeepsNames DEF CanonScheme
  <2>2. PICK d \in Doms : Register(d)
      BY <2>1 DEF RegistryNext, RegisterPanics
  <2>3. SchemeFree(d)
      BY <2>2 DEF Register
  <2>4. aliases'[n] = info[d].scheme
      BY <1>1, <2>1, <2>2, RegisterFiles
  <2>5. info[d].scheme \in Names /\ aliases[info[d].scheme] = Nobody
      BY <1>1, <2>3, InfoType DEF SchemeFree
  <2>6. ASSUME NEW m \in Names, aliases[m] = Nobody PROVE mounts[m].dom = Nobody
      BY <2>6, RegistryAssumption DEF HostIInv, MountsMatch, SchemesLead
  <2>7. CanonScheme(n) = n /\ CanonScheme(n)' = info[d].scheme
      BY <2>1, <2>4 DEF CanonScheme
  <2>. QED BY <1>1, <2>1, <2>5, <2>6, <2>7 DEF Mounted
<1>. QED BY <1>2, <1>3

(* Registration goes on beneath: schemes and mounted domains stay. *)
LEMMA RegisterKeeps ==
    ASSUME HostIInv, RegistryNext, UNCHANGED hostVars
    PROVE  HostIInv'
<1>1. RegistryInv /\ RegistryTypeOK /\ RegistryInv'
    BY RegistryStep DEF HostIInv, RegistryInv
<1>2. \A n \in Names : /\ aliases[n] # Nobody => aliases'[n] = aliases[n]
                       /\ domains[n] # Nobody => domains'[n] = domains[n]
    BY <1>1, StepKeepsNames
<1>3. SchemesLead'
  <2>. SUFFICES ASSUME NEW n \in Names, domains'[n] # Nobody PROVE aliases'[n] = n
      BY DEF SchemesLead
  <2>1. CASE domains[n] # Nobody
      BY <1>2, <2>1, RegistryAssumption DEF HostIInv, SchemesLead
  <2>2. CASE domains[n] = Nobody
    <3>1. PICK d \in Doms : Register(d)
        BY <2>2 DEF RegistryNext, RegisterPanics
    <3>2. n = info[d].scheme
        BY <1>1, <2>2, <3>1, InfoType DEF Register, RegistryTypeOK
    <3>3. SchemeFree(d)
        BY <3>1 DEF Register
    <3>4. info[d].scheme \in Claimed(d)
        BY <1>1, <3>3, ClaimsWereFree
    <3>. QED BY <1>1, <3>1, <3>2, <3>4, RegisterFiles
  <2>. QED BY <2>1, <2>2
<1>4. MountsMatch'
  <2>1. /\ \A n \in pending : n \in Names /\ domains[n] # Nobody
        /\ \A n \in Names : mounts[n].dom # Nobody =>
               domains[n] = mounts[n].dom /\ mounts[n].index = Index(ops[mounts[n].dom])
      BY DEF HostIInv, MountsMatch, HostTypes
  <2>2. mounts' = mounts /\ pending' = pending /\ ops' = ops
      BY DEF hostVars, indexVars
  <2>. QED BY <1>2, <2>1, <2>2 DEF MountsMatch
<1>5. MintsLead'
    BY DEF HostIInv, MintsLead, Leads, hostVars, indexVars
<1>6. \A c \in Callers : NameLeads(c)'
  <2>1. mounts' = mounts /\ opened' = opened /\ name' = name /\ call' = call
      BY DEF hostVars, indexVars
  <2>. QED BY <2>1, RegisterKeepsMounted, StillLeads
<1>7. HostTypes' /\ OnceHolds'
    BY DEF HostIInv, HostTypes, OnceHolds, OneFactoryPerDomain, hostVars, indexVars
<1>. QED BY <1>1, <1>3, <1>4, <1>5, <1>6, <1>7 DEF HostIInv

(* A mount indexes the registered domain; mounted again it is the same. *)
LEMMA MountKeeps ==
    ASSUME HostIInv, NEW n \in Names, Mount(n)
    PROVE  HostIInv'
<1>. DEFINE d == domains[n]
            ix == Index(ops[d])
            m == [dom |-> d, index |-> ix]
<1>1. /\ n \in pending
      /\ pending' = pending \ {n}
      /\ mounts' = [mounts EXCEPT ![n] = m]
      /\ mint' = [t \in Types |-> IF mint[t].scheme = Nobody /\ ix.names[t] # Nobody
                                  THEN [scheme |-> n, authority |-> ix.names[t]] ELSE mint[t]]
      /\ UNCHANGED <<registryVars, ops, opened, client, name, call>>
    BY DEF Mount
<1>2. HostTypes /\ MountsMatch /\ RegistryTypeOK
    BY DEF HostIInv, RegistryInv
<1>3. d \in Doms /\ d # Nobody
    BY <1>1, <1>2 DEF MountsMatch, RegistryTypeOK
<1>4. ops[d] \in OpLists
    BY <1>2, <1>3 DEF HostTypes
<1>5. /\ ix \in Indexes
      /\ \A t \in Types : ix.names[t] # Nobody => ix.resolvers[ix.names[t]] # 0
    BY <1>4, IndexNames
<1>6. m \in Mounts
    BY <1>3, <1>5 DEF Mounts
<1>7. mounts[n].dom # Nobody => mounts[n] = m
    BY <1>2 DEF HostTypes, MountsMatch, Mounts
<1>. HIDE DEF ix, m
<1>8. /\ mounts'[n] = m /\ mounts' \in [Names -> Mounts]
      /\ \A k \in Names \ {n} : mounts'[k] = mounts[k]
    BY <1>1, <1>2, <1>6 DEF HostTypes
<1>9. \A k \in Names : mounts[k].dom # Nobody => mounts'[k] = mounts[k]
    BY <1>7, <1>8
<1>10. HostTypes'
  <2>1. mint' \in [Types -> Mints]
    <3>1. ASSUME NEW t \in Types PROVE ix.names[t] \in Authorities \union {Nobody}
        BY <1>5 DEF Indexes
    <3>. QED BY <1>1, <1>2, <3>1 DEF HostTypes, Mints
  <2>. QED BY <1>1, <1>2, <1>8, <2>1 DEF HostTypes
<1>11. RegistryInv' /\ SchemesLead'
  <2>1. [RegistryNext]_registryVars
      BY <1>1
  <2>2. RegistryInv'
      BY <2>1, RegistryStep DEF HostIInv
  <2>. QED BY <1>1, <2>2 DEF HostIInv, SchemesLead, registryVars
<1>12. MountsMatch'
  <2>1. domains' = domains /\ ops' = ops
      BY <1>1 DEF registryVars
  <2>2. m.dom = d /\ m.index = Index(ops[d])
      BY DEF m, ix
  <2>. QED BY <1>1, <1>2, <1>8, <2>1, <2>2 DEF MountsMatch
<1>13. MintsLead'
  <2>. SUFFICES ASSUME NEW t \in Types, mint'[t].scheme # Nobody
                PROVE  Leads(mint[t].scheme, mint[t].authority)'
      BY DEF MintsLead
  <2>1. CASE mint[t].scheme = Nobody /\ ix.names[t] # Nobody
    <3>1. mint'[t].scheme = n /\ mint'[t].authority = ix.names[t]
        BY <1>1, <2>1
    <3>2. ix.names[t] \in Authorities /\ ix.resolvers[ix.names[t]] # 0
        BY <1>5, <2>1 DEF Indexes
    <3>3. m.dom # Nobody /\ m.index = ix
        BY <1>3 DEF m
    <3>. QED BY <1>8, <3>1, <3>2, <3>3 DEF Leads
  <2>2. CASE ~(mint[t].scheme = Nobody /\ ix.names[t] # Nobody)
    <3>1. mint'[t] = mint[t]
        BY <1>1, <2>2
    <3>2. Leads(mint[t].scheme, mint[t].authority)
        BY <3>1 DEF HostIInv, MintsLead
    <3>. QED BY <1>9, <3>1, <3>2 DEF Leads
  <2>. QED BY <2>1, <2>2
<1>14. \A c \in Callers : NameLeads(c)'
    BY <1>1, IdleNames DEF Mount
<1>15. OnceHolds'
    BY <1>1 DEF HostIInv, OnceHolds, OneFactoryPerDomain
<1>. QED BY <1>10, <1>11, <1>12, <1>13, <1>14, <1>15 DEF HostIInv

LEMMA OpenKeeps ==
    ASSUME HostIInv, OpenBegins \/ OpenReturns
    PROVE  HostIInv'
<1>1. /\ UNCHANGED <<registryVars, ops, mounts, mint, client, name, call>>
      /\ opened' \in {"no", "opening", "open"}
      /\ pending' = Domains \/ pending' = pending
    BY DEF OpenBegins, OpenReturns
<1>2. RegistryInv' /\ SchemesLead'
  <2>1. [RegistryNext]_registryVars
      BY <1>1
  <2>2. RegistryInv'
      BY <2>1, RegistryStep DEF HostIInv
  <2>. QED BY <1>1, <2>2 DEF HostIInv, SchemesLead, registryVars
<1>3. HostTypes'
    BY <1>1 DEF HostIInv, HostTypes, Domains
<1>4. MountsMatch' /\ MintsLead'
    BY <1>1 DEF HostIInv, MountsMatch, MintsLead, Leads, Domains, registryVars
<1>5. \A c \in Callers : NameLeads(c)'
    BY <1>1, IdleNames DEF OpenBegins, OpenReturns
<1>6. OnceHolds'
    BY <1>1 DEF HostIInv, OnceHolds, OneFactoryPerDomain
<1>. QED BY <1>2, <1>3, <1>4, <1>5, <1>6 DEF HostIInv

LEMMA HostStep == HostIInv /\ [HostNext]_allVars => HostIInv'
<1>. SUFFICES ASSUME HostIInv, [HostNext]_allVars PROVE HostIInv'
    OBVIOUS
<1>1. CASE UNCHANGED allVars
  <2>1. UNCHANGED <<registryVars, indexVars, client, name, call>>
      BY <1>1 DEF allVars, hostVars
  <2>2. HostTypes' /\ OnceHolds'
      BY <2>1 DEF HostIInv, HostTypes, OnceHolds, OneFactoryPerDomain, indexVars
  <2>3. \A c \in Callers : NameLeads(c)'
      BY <2>1, OtherNames
  <2>. QED BY <2>1, <2>2, <2>3, CallerFrame DEF HostIInv
<1>2. CASE RegistryNext /\ UNCHANGED hostVars
    BY <1>2, RegisterKeeps
<1>3. CASE OpenBegins \/ (\E n \in Names : Mount(n)) \/ OpenReturns
    BY <1>3, OpenKeeps, MountKeeps
<1>4. ASSUME NEW c \in Callers,
             \/ \E t \in Types, id \in RecordIds : Mint(c, t, id)
             \/ \E u \in Typed : ResolveText(c, u)
             \/ \E l \in Links : Follow(c, l)
             \/ \E n \in Names : ResolveOn(c, n) \/ Search(c, n)
             \/ ResolveURL(c) \/ Retype(c) \/ Locate(c) \/ Get(c) \/ List(c)
      PROVE  HostIInv'
    BY <1>4, MintKeeps, ResolveTextKeeps, FollowKeeps, ResolveOnKeeps, SearchKeeps,
       ResolveURLKeeps, RetypeKeeps, LocateKeeps, GetKeeps, ListKeeps
<1>5. ASSUME NEW c \in Callers, Step(c) PROVE HostIInv'
    BY <1>5, StartClientKeeps, ClientBuiltKeeps, UseClientKeeps, RunKeeps DEF Step
<1>. QED BY <1>1, <1>2, <1>3, <1>4, <1>5 DEF HostNext

(* The inductive invariant holds of every run of a host. *)
THEOREM HostStays == HostSpec => []HostIInv
BY HostInitInv, HostStep, PTL DEF HostSpec

(* A Host is safe for concurrent use, as host.go:18 promises: the factory of *)
(* a domain runs in at most one caller, and no operation runs without its    *)
(* client.                                                                   *)
THEOREM HostCorrect == HostSpec => []HostInv
<1>1. HostIInv => HostInv
  <2>. SUFFICES ASSUME HostIInv PROVE HostTypeOK
      BY DEF HostIInv, OnceHolds, HostInv
  <2>1. RegistryTypeOK /\ HostTypes
      BY DEF HostIInv, RegistryInv
  <2>. QED BY <2>1 DEF HostTypeOK, HostTypes, Mounts, Mints, CallStates
<1>. QED BY <1>1, HostStays, PTL

(* Whatever is registered and in whatever order, a mounted domain            *)
(* dereferences each authority with the operation its author made canonical. *)
THEOREM CanonicalServes == HostSpec => []CanonicalOpServes
<1>1. HostIInv => CanonicalOpServes
  <2>. SUFFICES ASSUME HostIInv, NEW n \in Names, mounts[n].dom # Nobody, NEW a \in Authorities
                PROVE  mounts[n].index.resolvers[a] = Canonical(ops[mounts[n].dom], a)
      BY DEF CanonicalOpServes
  <2>1. mounts[n].index = Index(ops[mounts[n].dom])
      BY DEF HostIInv, MountsMatch
  <2>2. mounts[n].dom \in Doms
      BY DEF HostIInv, HostTypes, Mounts
  <2>3. ops[mounts[n].dom] \in OpLists
      BY <2>2 DEF HostIInv, HostTypes
  <2>. QED BY <2>1, <2>3, IndexCanonical
<1>. QED BY <1>1, HostStays, PTL

(* A name the host hands out leads back: Get of it runs the canonical        *)
(* operation of its authority in the domain of its scheme on the id in its   *)
(* path; a minted one is found, serves the record's type where no other type *)
(* shares its authority, and carries the record's id; a resolved one stays   *)
(* routable, and one that was found unknown stays unknown.                   *)
THEOREM NamesFound == HostSpec => []NamesAreFound
<1>1. HostIInv => NamesAreFound
  <2>. SUFFICES ASSUME HostIInv PROVE NamesAreFound
      OBVIOUS
  <2>1. ASSUME NEW c \in Callers PROVE NameLeads(c) /\ name[c] \in URIs
      BY DEF HostIInv, HostTypes
  <2>2. MintedIsFound /\ UnknownIsFinal
      BY <2>1 DEF NameLeads, MintedIsFound, UnknownIsFinal
  <2>3. ASSUME NEW c \in Callers, Got(c)
        PROVE  LET n == name[c].scheme
                   s == call[c].scheme
               IN  /\ Fetches(c) /\ s \in Names /\ mounts[s].dom # Nobody
                   /\ OpsOf(c) \in OpLists
                   /\ call[c].op = Index(OpsOf(c)).resolvers[name[c].authority]
    <3>1. Fetches(c)
        BY <2>1, <2>3 DEF NameLeads, Got
    <3>2. call[c].scheme \in Names /\ mounts[call[c].scheme].dom # Nobody
        BY <3>1, CanonType DEF HostIInv, Fetches, Mounted
    <3>3. mounts[call[c].scheme].dom \in Doms
        BY <3>2 DEF HostIInv, HostTypes, Mounts
    <3>4. OpsOf(c) \in OpLists
        BY <3>3 DEF HostIInv, HostTypes, OpsOf
    <3>5. mounts[call[c].scheme].index = Index(OpsOf(c))
        BY <3>2 DEF HostIInv, MountsMatch, OpsOf
    <3>. QED BY <3>1, <3>2, <3>4, <3>5 DEF Fetches
  <2>4. GetRunsCanonical
      BY <2>3, IndexCanonical DEF GetRunsCanonical, Fetches
  <2>5. MintedTypeServes
    <3>. SUFFICES ASSUME NEW c \in Callers, Got(c),
                         \A i \in Filed(OpsOf(c), name[c].authority) :
                             OpsOf(c)[i].type = name[c].of
                  PROVE  OpsOf(c)[call[c].op].type = name[c].of
        BY DEF MintedTypeServes
    <3>1. call[c].op \in Filed(OpsOf(c), name[c].authority)
        BY <2>3, IndexIsFiled DEF Fetches
    <3>. QED BY <3>1
  <2>6. IdSurvivesNaming
    <3>. SUFFICES ASSUME NEW c \in Callers, name[c].from = "record", call[c].pc = "run",
                         \A i \in DOMAIN name[c].id : name[c].id[i] # Blank
                  PROVE  call[c].arg = name[c].id
        BY DEF IdSurvivesNaming
    <3>1. name[c].id \in Ids
        BY <2>1 DEF URIs
    <3>. QED BY <2>1, <3>1, IdComesBack DEF NameLeads
  <2>7. ResolvedIsRoutable
    <3>1. ASSUME NEW n \in Names, mounts[n].dom # Nobody PROVE aliases[n] = n
        BY <3>1 DEF HostIInv, MountsMatch, SchemesLead
    <3>. QED BY <2>1, <3>1 DEF ResolvedIsRoutable, NameLeads
  <2>. QED BY <2>2, <2>4, <2>5, <2>6, <2>7 DEF NamesAreFound
<1>. QED BY <1>1, HostStays, PTL
=============================================================================
