--------------------------- MODULE DomainRegistry ---------------------------
(***************************************************************************)
(* The process-wide registry of domains (kit/domain.go): each domain       *)
(* claims one canonical scheme and any number of aliases.  Register holds  *)
(* the registry's lock, so a registration is one step; but it writes as it *)
(* checks, and a panic over a later alias leaves the scheme and the        *)
(* earlier aliases registered for whoever recovers.                        *)
(***************************************************************************)
EXTENDS Integers, Sequences

CONSTANTS Doms,       \* the domains a program links in
          Names,      \* scheme tokens
          Malformed,  \* the tokens schemeOK rejects
          Reserved,   \* the reserved kinds: host, pages, feed, search, data
          Infos,      \* what a domain may declare: its scheme and its aliases
          Nobody      \* the absence of a name or of a domain

ASSUME RegistryAssumption ==
    /\ Infos \subseteq [scheme : Names, aliases : Seq(Names)]
    /\ Malformed \union Reserved \subseteq Names
    /\ Nobody \notin Names \union Doms

VARIABLES info,      \* [Doms -> Infos], what each domain declares
          tried,     \* the domains whose Register has been called
          panicked,  \* those whose Register panicked
          domains,   \* scheme -> domain
          aliases    \* alias or scheme -> scheme

registryVars == <<info, tried, panicked, domains, aliases>>

RegistryTypeOK ==
    /\ info \in [Doms -> Infos]
    /\ tried \subseteq Doms /\ panicked \subseteq tried
    /\ domains \in [Names -> Doms \union {Nobody}]
    /\ aliases \in [Names -> Names \union {Nobody}]

RegistryInit ==
    /\ info \in [Doms -> Infos]
    /\ tried = {} /\ panicked = {}
    /\ domains = [n \in Names |-> Nobody]
    /\ aliases = [n \in Names |-> Nobody]
----------------------------------------------------------------------------

Usable(n) == n \notin Malformed \union Reserved

(* A slip: only the canonical schemes are looked up. *)
SchemeFreeShallow(d) == Usable(info[d].scheme) /\ domains[info[d].scheme] = Nobody

SchemeFree(d) == /\ Usable(info[d].scheme)
                 /\ domains[info[d].scheme] = Nobody
                 /\ aliases[info[d].scheme] = Nobody

(* A slip: an alias is not compared with those already claimed. *)
AliasFreeUnchecked(d, i) == Usable(info[d].aliases[i])

(* The i-th alias of d can be claimed after the scheme and the aliases     *)
(* before it.                                                              *)
AliasFree(d, i) == LET al == info[d].aliases[i]
                   IN  /\ Usable(al)
                       /\ aliases[al] = Nobody
                       /\ al # info[d].scheme
                       /\ \A j \in 1..(i - 1) : info[d].aliases[j] # al

(* The aliases claimed before the first that cannot be. *)
Claims(d) == {i \in DOMAIN info[d].aliases : \A j \in 1..i : AliasFree(d, j)}

Claimed(d) == {info[d].scheme} \union {info[d].aliases[i] : i \in Claims(d)}

RegisterPanics(d) ==
    /\ d \notin tried
    /\ ~SchemeFree(d)
    /\ tried' = tried \union {d}
    /\ panicked' = panicked \union {d}
    /\ UNCHANGED <<info, domains, aliases>>

Register(d) ==
    /\ d \notin tried
    /\ SchemeFree(d)
    /\ tried' = tried \union {d}
    /\ panicked' = IF Claims(d) = DOMAIN info[d].aliases THEN panicked
                   ELSE panicked \union {d}
    /\ domains' = [domains EXCEPT ![info[d].scheme] = d]
    /\ aliases' = [n \in Names |-> IF n \in Claimed(d) THEN info[d].scheme ELSE aliases[n]]
    /\ UNCHANGED info

RegistryNext == \E d \in Doms : RegisterPanics(d) \/ Register(d)

RegistrySpec == RegistryInit /\ [][RegistryNext]_registryVars

Domains == {n \in Names : domains[n] # Nobody}

(* Lookup and canonScheme: a name nobody claims stands for itself. *)
CanonScheme(n) == IF aliases[n] # Nobody THEN aliases[n] ELSE n
----------------------------------------------------------------------------
(* Every claimed name, even one of a registration that panicked half-way,  *)
(* leads to a registered domain, whose scheme leads to itself: Lookup      *)
(* never returns a nil domain with ok set.                                 *)
ClaimsAreBacked ==
    \A n \in Names : aliases[n] # Nobody =>
        domains[aliases[n]] # Nobody /\ aliases[aliases[n]] = aliases[n]

(* A Register that returned left its domain every name it declares, and    *)
(* no later registration has taken one away.                               *)
OwnsItsNames ==
    \A d \in tried \ panicked :
        /\ domains[info[d].scheme] = d
        /\ aliases[info[d].scheme] = info[d].scheme
        /\ \A i \in DOMAIN info[d].aliases : aliases[info[d].aliases[i]] = info[d].scheme

(* A reserved kind or a malformed token is never claimed, by the scheme or *)
(* through an alias, so the cross-site kinds cannot be shadowed.           *)
KindsStayFree == \A n \in Malformed \union Reserved : aliases[n] = Nobody /\ domains[n] = Nobody

(* The inductive invariant: each of the three holds of what a registration *)
(* leaves, whole or half, because it claims free names alone.              *)
RegistryInv == RegistryTypeOK /\ ClaimsAreBacked /\ OwnsItsNames /\ KindsStayFree

(* A name once claimed never changes hands: a URI resolved early in the    *)
(* life of the process leads to the same domain later.                     *)
NamesAreFinal == [][\A n \in Names : /\ aliases[n] # Nobody => aliases'[n] = aliases[n]
                                     /\ domains[n] # Nobody => domains'[n] = domains[n]]_registryVars
=============================================================================
