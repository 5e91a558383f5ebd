-------------------------------- MODULE Host --------------------------------
(***************************************************************************)
(* A host that serves every registered domain at once (kit/host.go): Open  *)
(* mounts the domains and indexes their operations by the URI authority    *)
(* they serve; callers then name records (Mint, Resolve, ResolveOn) and    *)
(* dereference the names (Get, List) or search, each call building the     *)
(* client of its domain on first use.  Callers run concurrently; kit may   *)
(* still register domains meanwhile.                                       *)
(*                                                                         *)
(* An id is the sequence of its slash-separated segments, Blank being the  *)
(* empty one, so that https://example.com is <<https:, Blank,              *)
(* example.com>>.  The path of a URI is a sequence of ids: an element that *)
(* was escaped in the text may hold several segments.                      *)
(***************************************************************************)
EXTENDS DomainRegistry, SequencesExt

CONSTANTS Callers,
          Types, NoType,    \* record types; an operation may emit none
          Authorities,      \* URI authorities, as written
          Lower,            \* [Authorities -> Authorities], lower-casing
          TypeAuthority,    \* [Types -> Authorities], the lower-cased type name
          OpLists,          \* what the operations of a domain may be
          Segments,         \* what the slashes of an id separate
          Blank,            \* the empty segment of an id
          RecordIds,        \* the ids records carry
          Typed,            \* the URIs a caller may type
          Links,            \* the kit:"link" fields of the records
          Owners,           \* the domains that claim the host of a pasted URL
          Classifiers,      \* the domains that can classify an input
          Classified        \* the authorities and ids they find in one

Ops == [search : BOOLEAN,   \* named "search" at the top level
        type : Types \union {NoType},
        uri : Authorities \union {Nobody},   \* OpMeta.URIType, if any
        resolver : BOOLEAN, list : BOOLEAN]

Ids == Seq(Segments)

ASSUME HostAssumption ==
    /\ OpLists \subseteq Seq(Ops)
    /\ Lower \in [Authorities -> Authorities]
    /\ TypeAuthority \in [Types -> Authorities]
    /\ \A t \in Types : Lower[TypeAuthority[t]] = TypeAuthority[t]
    /\ NoType \notin Types /\ Nobody \notin Authorities
    /\ Owners \subseteq Doms /\ Classifiers \subseteq Doms
    /\ RecordIds \subseteq Ids
    /\ Typed \subseteq [scheme : Names, authority : Authorities, path : Seq(Ids)]
    /\ Links \subseteq [scheme : Names, authority : Authorities, id : Ids]
    /\ Classified \subseteq [authority : Authorities, id : Ids]

VARIABLES ops,      \* [Doms -> OpLists]
          opened,   \* whether Open has begun or returned
          pending,  \* the schemes Open has still to mount
          mounts,   \* scheme -> the mounted domain and its index
          mint,     \* type -> the scheme and authority that name its records
          client,   \* scheme -> the state of the sync.Once around its client
          name,     \* [Callers -> the URI the caller holds]
          call      \* [Callers -> its call]

indexVars == <<ops, opened, pending, mounts, mint>>
hostVars == <<indexVars, client, name, call>>
allVars == <<registryVars, hostVars>>

NoIndex == [search |-> 0, resolvers |-> [a \in Authorities |-> 0], picked |-> {},
            lists |-> [a \in Authorities |-> 0], names |-> [t \in Types |-> Nobody]]
Unmounted == [dom |-> Nobody, index |-> NoIndex]
NoName == [scheme |-> Nobody, authority |-> Nobody, path |-> <<>>, from |-> "none", id |-> <<>>,
           of |-> NoType]
NoCall == [pc |-> "idle", via |-> "none", scheme |-> Nobody, op |-> 0, arg |-> <<>>,
           answer |-> "none"]

HostInit ==
    /\ RegistryInit
    /\ ops \in [Doms -> OpLists]
    /\ opened = "no" /\ pending = {}
    /\ mounts = [n \in Names |-> Unmounted]
    /\ mint = [t \in Types |-> [scheme |-> Nobody, authority |-> Nobody]]
    /\ client = [n \in Names |-> "none"]
    /\ name = [c \in Callers |-> NoName]
    /\ call = [c \in Callers |-> NoCall]
----------------------------------------------------------------------------
(* Open and index. *)
Authority(o) == IF o.uri = Nobody THEN TypeAuthority[o.type] ELSE o.uri

(* The first top-level search is the one a host drives. *)
CaptureSearch(ix, i, o) == IF ix.search = 0 /\ o.search THEN [ix EXCEPT !.search = i] ELSE ix

(* A slip: every operation marked Resolver takes the authority over. *)
FileOpLastWins(ix, i, o) ==
    LET a == Authority(o)
        wins == ix.resolvers[a] = 0 \/ o.resolver
    IN  CASE o.type = NoType -> ix
          [] o.type # NoType /\ o.list ->
                 [ix EXCEPT !.lists[a] = IF @ = 0 THEN i ELSE @]
          [] OTHER ->
                 [ix EXCEPT !.resolvers[a] = IF wins THEN i ELSE @,
                            !.names[o.type] = IF @ = Nobody THEN a ELSE @]

(* A slip: a list seeds the mint index like a resolver. *)
FileOpListMints(ix, i, o) ==
    LET a == Authority(o)
    IN  IF o.type = NoType THEN ix
        ELSE [ix EXCEPT !.resolvers[a] = IF ~o.list /\ @ = 0 THEN i ELSE @,
                        !.lists[a] = IF o.list /\ @ = 0 THEN i ELSE @,
                        !.names[o.type] = IF @ = Nobody THEN a ELSE @]

FileOp(ix, i, o) ==
    LET a == Authority(o)
        wins == ix.resolvers[a] = 0 \/ (o.resolver /\ a \notin ix.picked)
    IN  CASE o.type = NoType -> ix
          [] o.type # NoType /\ o.list ->
                 [ix EXCEPT !.lists[a] = IF @ = 0 THEN i ELSE @]
          [] OTHER ->
                 [ix EXCEPT !.resolvers[a] = IF wins THEN i ELSE @,
                            !.picked = IF wins /\ o.resolver THEN @ \union {a} ELSE @,
                            !.names[o.type] = IF @ = Nobody THEN a ELSE @]

IndexStep(list, ix, i) == FileOp(CaptureSearch(ix, i, list[i]), i, list[i])

Index(list) ==
    LET filed[k \in 0..Len(list)] ==
            IF k = 0 THEN NoIndex ELSE IndexStep(list, filed[k - 1], k)
    IN  filed[Len(list)]

OpenBegins == /\ opened = "no"
              /\ opened' = "opening"
              /\ pending' = Domains
              /\ UNCHANGED <<registryVars, ops, mounts, mint, client, name, call>>

Mount(n) ==
    /\ opened = "opening" /\ n \in pending
    /\ pending' = pending \ {n}
    /\ LET d == domains[n]
           ix == Index(ops[d])
       IN  /\ mounts' = [mounts EXCEPT ![n] = [dom |-> d, index |-> ix]]
           /\ mint' = [t \in Types |->
                  IF mint[t].scheme = Nobody /\ ix.names[t] # Nobody
                  THEN [scheme |-> n, authority |-> ix.names[t]] ELSE mint[t]]
    /\ UNCHANGED <<registryVars, ops, opened, client, name, call>>

OpenReturns == /\ opened = "opening" /\ pending = {}
               /\ opened' = "open"
               /\ UNCHANGED <<registryVars, ops, pending, mounts, mint, client, name, call>>
----------------------------------------------------------------------------
(* Naming a record. *)
Mounted(n) == mounts[CanonScheme(n)].dom # Nobody

(* splitID drops the empty segments; ID joins the elements of a path again. *)
SplitId(id) ==
    LET kept[k \in 0..Len(id)] ==
            IF k = 0 THEN <<>>
            ELSE IF id[k] = Blank THEN kept[k - 1] ELSE Append(kept[k - 1], <<id[k]>>)
    IN  kept[Len(id)]
JoinPath(path) == FlattenSeq(path)

Idle(c) == opened = "open" /\ call[c].pc = "idle"

Says(c, answer) == /\ call' = [call EXCEPT ![c].pc = "done", ![c].answer = answer]
                   /\ UNCHANGED <<registryVars, indexVars, client, name>>

Holds(c, u) == /\ name' = [name EXCEPT ![c] = u]
               /\ call' = [call EXCEPT ![c].pc = "named"]
               /\ UNCHANGED <<registryVars, indexVars, client>>

Mint(c, t, id) ==
    /\ Idle(c)
    /\ IF mint[t].scheme = Nobody \/ id = <<>> THEN Says(c, "unnamed")
       ELSE Holds(c, [scheme |-> mint[t].scheme, authority |-> mint[t].authority,
                      path |-> SplitId(id), from |-> "record", id |-> id, of |-> t])

(* Resolve of a text that parses as a URI: canon. *)
ResolveText(c, u) ==
    /\ Idle(c)
    /\ IF ~Mounted(u.scheme) /\ u.scheme \notin Reserved THEN Says(c, "unknown")
       ELSE Holds(c, [scheme |-> IF u.scheme \in Reserved THEN u.scheme ELSE CanonScheme(u.scheme),
                      authority |-> Lower[u.authority],
                      path |-> u.path, from |-> "resolved", id |-> <<>>, of |-> NoType])

(* ResolveOn: the domain classifies the input, if it can; a URI will do    *)
(* where it cannot.                                                        *)
ResolveOn(c, n) ==
    /\ Idle(c)
    /\ \/ ~Mounted(n) /\ Says(c, "unknown")
       \/ Mounted(n) /\ Says(c, "usage")
       \/ /\ Mounted(n) /\ mounts[CanonScheme(n)].dom \notin Classifiers
          /\ \E u \in Typed : ResolveText(c, u)
       \/ /\ mounts[CanonScheme(n)].dom \in Classifiers
          /\ \E k \in Classified :
                 Holds(c, [scheme |-> CanonScheme(n), authority |-> Lower[k.authority],
                           path |-> SplitId(k.id), from |-> "resolved", id |-> <<>>,
                           of |-> NoType])

(* Resolve of a pasted URL: some mounted domain that owns its host; map    *)
(* order decides between two.                                              *)
ResolveURL(c) == \/ \E n \in Names : mounts[n].dom \in Owners /\ ResolveOn(c, n)
                 \/ Idle(c) /\ (\A n \in Names : mounts[n].dom \notin Owners) /\ Says(c, "usage")

(* The caller prints the URI and the text is parsed later: the authority   *)
(* comes back in lower case, the escaped path elements as they were.       *)
Retype(c) == /\ call[c].pc = "named"
             /\ Lower[name[c].authority] # name[c].authority
             /\ Holds(c, [name[c] EXCEPT !.authority = Lower[@], !.from = "text"])

(* Links, and the links of an envelope: the scheme of a kit:"link" field   *)
(* is canonical as of now, whether or not the host mounts it.              *)
Follow(c, l) == /\ Idle(c)
                /\ Holds(c, [scheme |-> CanonScheme(l.scheme), authority |-> l.authority,
                              path |-> SplitId(l.id), from |-> "link", id |-> <<>>, of |-> NoType])

Locate(c) == /\ call[c].pc = "named"
             /\ Says(c, IF ~Mounted(name[c].scheme) THEN "unknown"
                        ELSE IF mounts[CanonScheme(name[c].scheme)].dom \in Classifiers
                             THEN "located" ELSE "usage")
----------------------------------------------------------------------------
(* Dereferencing: the route, the client, the operation. *)
Routes(c, via, n, op, arg) ==
    /\ call' = [call EXCEPT ![c] = [pc |-> "client", via |-> via, scheme |-> CanonScheme(n),
                                    op |-> op, arg |-> arg, answer |-> "none"]]
    /\ UNCHANGED <<registryVars, indexVars, client, name>>

IndexOf(n) == mounts[CanonScheme(n)].index

Get(c) == LET u == name[c]
              op == IndexOf(u.scheme).resolvers[u.authority]
          IN  /\ call[c].pc = "named"
              /\ \/ ~Mounted(u.scheme) /\ Says(c, "unknown")
                 \/ Mounted(u.scheme) /\ op = 0 /\ Says(c, "noType")
                 \/ Mounted(u.scheme) /\ op # 0 /\ Routes(c, "get", u.scheme, op, JoinPath(u.path))

List(c) == LET u == name[c]
               op == IndexOf(u.scheme).lists[u.authority]
           IN  /\ call[c].pc = "named"
               /\ \/ ~Mounted(u.scheme) /\ Says(c, "unknown")
                  \/ Mounted(u.scheme) /\ op = 0 /\ Says(c, "noList")
                  \/ Mounted(u.scheme) /\ op # 0 /\ Routes(c, "list", u.scheme, op, JoinPath(u.path))

Search(c, n) == /\ Idle(c)
                /\ \/ ~Mounted(n) /\ Says(c, "unknown")
                   \/ Mounted(n) /\ IndexOf(n).search = 0 /\ Says(c, "noSearch")
                   \/ Mounted(n) /\ IndexOf(n).search # 0
                      /\ Routes(c, "search", n, IndexOf(n).search, <<>>)

(* A slip: two first callers both run the factory. *)
StartClientTwice(c) == LET n == call[c].scheme
                       IN  /\ call[c].pc = "client" /\ client[n] \in {"none", "building"}
                           /\ client' = [client EXCEPT ![n] = "building"]
                           /\ call' = [call EXCEPT ![c].pc = "building"]
                           /\ UNCHANGED <<registryVars, indexVars, name>>

(* clientFor: the first caller runs the factory inside once.Do, the others *)
(* wait for it and share its result, the error included.                   *)
StartClient(c) == LET n == call[c].scheme
                  IN  /\ call[c].pc = "client" /\ client[n] = "none"
                      /\ client' = [client EXCEPT ![n] = "building"]
                      /\ call' = [call EXCEPT ![c].pc = "building"]
                      /\ UNCHANGED <<registryVars, indexVars, name>>

(* A slip: the failure of a factory is never recorded. *)
ClientBuiltLost(c, ok) ==
    /\ call[c].pc = "building"
    /\ client' = [client EXCEPT ![call[c].scheme] = IF ok THEN "ok" ELSE "building"]
    /\ call' = [call EXCEPT ![c].pc = "client"]
    /\ UNCHANGED <<registryVars, indexVars, name>>

ClientBuilt(c, ok) ==
    /\ call[c].pc = "building"
    /\ client' = [client EXCEPT ![call[c].scheme] = IF ok THEN "ok" ELSE "failed"]
    /\ call' = [call EXCEPT ![c].pc = "client"]
    /\ UNCHANGED <<registryVars, indexVars, name>>

UseClient(c) == /\ call[c].pc = "client"
                /\ \/ client[call[c].scheme] = "failed" /\ Says(c, "clientError")
                   \/ /\ client[call[c].scheme] = "ok"
                      /\ call' = [call EXCEPT ![c].pc = "run"]
                      /\ UNCHANGED <<registryVars, indexVars, client, name>>

(* invoke: an empty stream is no error here. *)
Run(c) == /\ call[c].pc = "run"
          /\ \E answer \in {"records", "noRecord", "failed"} : Says(c, answer)

Step(c) == StartClient(c) \/ (\E ok \in BOOLEAN : ClientBuilt(c, ok)) \/ UseClient(c) \/ Run(c)

HostNext ==
    \/ RegistryNext /\ UNCHANGED hostVars
    \/ OpenBegins \/ (\E n \in Names : Mount(n)) \/ OpenReturns
    \/ \E c \in Callers :
           \/ \E t \in Types, id \in RecordIds : Mint(c, t, id)
           \/ \E u \in Typed : ResolveText(c, u)
           \/ \E l \in Links : Follow(c, l)
           \/ \E n \in Names : ResolveOn(c, n) \/ Search(c, n)
           \/ ResolveURL(c) \/ Retype(c) \/ Locate(c) \/ Get(c) \/ List(c)
           \/ Step(c)

HostSpec == HostInit /\ [][HostNext]_allVars

(* A caller inside once.Do or behind it goes on, the factory and the       *)
(* handler come back.                                                      *)
FairHostSpec == HostSpec /\ \A c \in Callers : WF_allVars(Step(c))
----------------------------------------------------------------------------
HostTypeOK ==
    /\ RegistryTypeOK
    /\ ops \in [Doms -> OpLists]
    /\ opened \in {"no", "opening", "open"}
    /\ pending \subseteq Names
    /\ \A n \in Names : /\ mounts[n].dom \in Doms \union {Nobody}
                        /\ client[n] \in {"none", "building", "ok", "failed"}
    /\ \A t \in Types : mint[t].scheme \in Names \union {Nobody}
    /\ \A c \in Callers :
           call[c].pc \in {"idle", "named", "client", "building", "run", "done"}

(* The operations that compete for an authority: all that emit a type      *)
(* under it and are no lists.  A top-level search that emits one is among  *)
(* them, though host.go:123-126 says that it is not URI-addressable.       *)
Filed(list, a) == {i \in DOMAIN list : /\ list[i].type # NoType /\ ~list[i].list
                                       /\ Authority(list[i]) = a}

(* The operation an authority leads to, said without the loop: the first   *)
(* operation marked Resolver for it, else the first that is filed.         *)
Canonical(list, a) ==
    LET cand == Filed(list, a)
        marked == {i \in cand : list[i].resolver}
        First(S) == CHOOSE i \in S : \A j \in S : i <= j
    IN  IF marked # {} THEN First(marked) ELSE IF cand # {} THEN First(cand) ELSE 0

(* Whatever the order of registration, a mounted domain dereferences each  *)
(* authority with the operation its author made canonical, or with the     *)
(* first one filed, which may be a search, if no author's mark decides.    *)
CanonicalOpServes == \A n \in Names : mounts[n].dom # Nobody =>
    \A a \in Authorities : mounts[n].index.resolvers[a] = Canonical(ops[mounts[n].dom], a)

(* A record that can be named can be fetched by that name, unless the name *)
(* went through its text and its authority was not written in lower case:  *)
(* Get never says that the scheme or the type is unknown.                  *)
MintedIsFound == \A c \in Callers :
    name[c].from = "record" => call[c].answer \notin {"unknown", "noType"}

(* What runs when a name is fetched, however the caller came by it (minted,*)
(* linked, resolved, typed): the canonical operation of its authority in   *)
(* the domain its scheme leads to, now as at the time of the call, on the  *)
(* id in its path (host.go:233-252).                                       *)
Got(c) == call[c].via = "get"
OpsOf(c) == ops[mounts[call[c].scheme].dom]
GetRunsCanonical == \A c \in Callers : Got(c) =>
    /\ call[c].scheme = CanonScheme(name[c].scheme) /\ mounts[call[c].scheme].dom # Nobody
    /\ call[c].op = Canonical(OpsOf(c), name[c].authority) /\ call[c].op # 0
    /\ call[c].arg = JoinPath(name[c].path)

(* That operation emits the type of the record the name was minted for, if *)
(* no operation of another type is filed under the same authority.  If one *)
(* is, a Resolver mark or an earlier registration can put it first, and    *)
(* Get of the one record then runs the operation of the other type.        *)
MintedTypeServes == \A c \in Callers :
    /\ Got(c) /\ name[c].from = "record"
    /\ \A i \in Filed(OpsOf(c), name[c].authority) : OpsOf(c)[i].type = name[c].of
    => OpsOf(c)[call[c].op].type = name[c].of

(* A name that was found unknown (a link may be: its scheme is taken as it *)
(* stands) stays so: no later registration makes that answer wrong.        *)
UnknownIsFinal == \A c \in Callers :
    name[c].from # "none" /\ call[c].answer = "unknown" => ~Mounted(name[c].scheme)

(* Get of a minted name hands the operation the record's own id, if that   *)
(* id has no empty segment.                                                *)
IdSurvivesNaming == \A c \in Callers :
    name[c].from = "record" /\ call[c].pc = "run"
        /\ (\A i \in DOMAIN name[c].id : name[c].id[i] # Blank)
    => call[c].arg = name[c].id

(* A name that Resolve gave out stays routable: whatever is registered     *)
(* meanwhile, its scheme is canonical and no later call finds it unknown.  *)
ResolvedIsRoutable == \A c \in Callers :
    name[c].from = "resolved" /\ name[c].scheme \notin Reserved =>
        /\ aliases[name[c].scheme] = name[c].scheme
        /\ call[c].answer # "unknown"

(* The names a host hands out lead back to what they name: to a mounted    *)
(* domain, to the operation that is canonical for their authority, which   *)
(* is one of the record's type where types do not share authorities, and   *)
(* with the record's id.                                                   *)
NamesAreFound == /\ MintedIsFound /\ GetRunsCanonical /\ MintedTypeServes
                 /\ IdSurvivesNaming /\ ResolvedIsRoutable /\ UnknownIsFinal

(* host.go:18 promises that a Host is safe for concurrent use: the factory *)
(* of a domain runs in at most one caller, and an operation runs only with *)
(* the client of its domain built.                                         *)
OneFactoryPerDomain ==
    /\ \A c, e \in Callers :
           (call[c].pc = "building" /\ call[e].pc = "building" /\ call[c].scheme = call[e].scheme)
               => c = e
    /\ \A c \in Callers : call[c].pc = "run" => client[call[c].scheme] = "ok"

(* The types of the host, and its promise to concurrent callers. *)
HostInv == HostTypeOK /\ OneFactoryPerDomain

(* Every call that was routed is answered. *)
CallsEnd == \A c \in Callers : call[c].pc = "client" ~> call[c].pc = "done"

(* host.go:315 calls Mint the inverse of Get.  splitID drops the empty     *)
(* segment of an id that embeds a URL, so Get asks for another id.         *)
MintInvertsGet == \A c \in Callers :
    name[c].from = "record" /\ call[c].pc = "run" => call[c].arg = name[c].id
=============================================================================
