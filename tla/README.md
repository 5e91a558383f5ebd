# A verification project for any-cli

[any-cli](../src/README.md) is two programs in one repository. `any` scaffolds a
new command line repository for a site. `kit` is the framework those
repositories are built on: a domain registers each operation once, and kit runs
it from a command line, over HTTP (`serve`) and as an MCP tool (`mcp`), with one
row limit, one record store and one error taxonomy for all three.

This directory holds TLA+ models of kit's core, the TLC instances that check
them, and theorems about them that TLAPS checks. Source references are relative
to `src/`.

## The system

| Component | Source | State it keeps | What it does | What must be true of it |
|---|---|---|---|---|
| Invoke | kit/op.go, kit/sink.go | the count of rows, the stop marker | binds the input, runs the handler with an `emit` that tees, hands over and counts, flushes, decides the error | the limit holds, rows are in order and complete when the run succeeds, the stop marker is no failure, an empty stream is told from a failed one |
| Record tee | kit/input.go | none | mirrors each record to the store before the sink sees it | every record is stored or was refused there; the store runs at most one ahead; no record is invented |
| Run state | kit/state.go, config.go, client.go | the client and its error, under a `sync.Once`; the store | builds the client on first use | one build, shared and final |
| HTTP surface | kit/surface_api.go | one goroutine and one sink per request | routes, runs, streams NDJSON, answers errors, shuts down on a signal | body and status agree, requests do not disturb each other, shutdown ends |
| MCP surface | kit/surface_mcp.go | the decoder, the encoder | one loop: decode, run, reply | replies in order, one each, nothing lost at the end of the input |
| Command line | kit/surface_cli.go, surface_cli_flags.go, run.go | the global flags | parses, validates, opens the store, runs, closes it, exits | exit code, output and store agree |
| Errors | kit/errs/errs.go | none | kind to exit code and HTTP status | total and consistent |
| Operation registry | kit/app.go, op.go, schema.go, reflectx.go, builtin.go, command.go | the operations, the map by name, the hand-written commands | `Handle` registers, the surfaces look up and list | a listed name finds its operation; write operations are gated over HTTP; hand-written commands keep their words |
| Argument binding | kit/input.go, surface_cli_flags.go | none | each surface writes arguments as words, flags, queries or JSON; `bind` reads them into the input struct | one call means the same over every surface, or is refused |
| Domain registry | kit/domain.go | schemes and aliases under a lock | registers and looks up site drivers | no alias without a domain, no two owners |
| Multi-domain host | kit/host.go, uri.go, envelope.go | mounts, resolvers, lists, the mint index, a client per domain | dereferences a URI, mints one for a record | what is minted leads to the canonical operation of its authority; one client per domain |
| Renderer | kit/render | header written, JSON open, buffered grid | ten output formats and registered encoders | a document is well formed however the stream ends |
| Record store | kit/store | backends, the default scheme, the table cache, the file | parses a DSN, opens, upserts, closes | one row per key, one table per collection, nothing lost by a failure, a crash or a second run |
| Scaffolder | cli/new.go, scaffold | the new directory, its git state, the remote | renders templates, git, tidy, remote | no file it found is overwritten, no half file is committed, what fails is reported |
| The `any` command | cmd/any, cli/root.go, cli/version.go | none | wires the one command above | |
| Generated client | scaffold/templates/LIBPKG | time of the last request | paces and retries requests | never faster than the rate, bounded retries |
| Pages script | scripts/ensure_cloudflare_pages.py | remote project, domain, DNS | creates what is missing | can be run again |

How they interact: a surface resolves the run state, which builds the client and
holds the store, wraps its output in a `Sink` and calls `Invoke`; `Invoke` calls
the handler; the handler calls `emit`; `emit` calls the store and the sink. All
three surfaces share the run state. Over HTTP there is one goroutine per request
and nothing but a `sync.Once` between them; over MCP there is a single loop; on
the command line there is a single run, whose hooks cobra orders. Before any of
that `App` has collected the operations, and each surface has made names of its
own from them: command words, routes, tools. A multi-domain host sits beside the
surfaces: it looks a domain up in the process-wide registry, indexes its
operations by URI authority and runs them itself.

What is hard to test here: the order of tee, sink and limit inside `emit`
against three kinds of handlers; which of three errors wins at the end of a
stream; requests that meet in the client's first build; peers and signals that
come between any two steps of a request; a message loop whose replies can be
lost; hooks that are skipped on failure; names that several operations or
domains claim; a registration that panics half way; a type that is walked twice
by different rules; a store shared by requests, closed under them and opened
again by the next run; a scaffold killed between two files.
PROJECT.json lists these hazards at their lines, with the properties that cover them.

## The modules

| Module | Models | Uses |
|---|---|---|
| RecordStream | the abstract promise: what a reader of the records of one call sees | |
| Invoke | `op.Invoke`, `newTee`, the stop marker (kit/op.go:279-308, kit/input.go:284-303) | INSTANCE RecordStream |
| InvokeProofs | theorems about Invoke | EXTENDS Invoke |
| ServeHTTP | `serve` (kit/surface_api.go:20-161), `State.Client`, `Main` | EXTENDS Invoke |
| ServeProofs | theorems about ServeHTTP | EXTENDS ServeHTTP, InvokeProofs |
| McpServer | `mcp` (kit/surface_mcp.go:51-230) | EXTENDS Invoke |
| CliRun | one run of an operation from the command line (kit/surface_cli.go, kit/run.go, kit/errs) | EXTENDS Invoke |
| CliProofs | theorems about CliRun, Renderer and RecordShape | EXTENDS CliRun, Renderer, InvokeProofs, Induction |
| OpRegistry | `App.register`, `AddCommand`, the command tree, the routes and their gate, the tools (kit/app.go:82-190, command.go, surface_cli.go:78-190, surface_api.go:56-79, surface_mcp.go:118-148) | |
| Binding | parameters by reflection, `bind`, and how each surface writes a call down (kit/op.go:168-275, input.go:40-282, surface_cli_flags.go, surface_api.go:83-116, surface_mcp.go:161-207, schema.go) | |
| Surfaces | one call of one registered operation over any surface: found, bound | EXTENDS OpRegistry, Binding |
| SurfaceProofs | theorems about McpServer and Surfaces | EXTENDS McpServer, Surfaces, InvokeProofs, Induction |
| DomainRegistry | `Register`, `Lookup` and the aliases (kit/domain.go) | |
| Host | `Open`, the index, `Mint`, `Resolve`, `ResolveOn`, `Get`, `List`, `Search`, `Links`, the client of each domain (kit/host.go, uri.go, envelope.go) | EXTENDS DomainRegistry |
| Induction | induction over the naturals stated with a set, and what it gives: functions defined along the naturals, sequences joined, sifted and dealt out, ranks in a set of places | |
| HostProofs | theorems about DomainRegistry and Host | EXTENDS Host, Induction |
| RecordShape | the two walks over a record type: columns, and fields (kit/render/render.go:513-676, kit/reflectx.go:34-76) | |
| Renderer | `New`, `Emit`, `Write` and `Flush` of every format (kit/render/render.go, grid.go) | EXTENDS RecordShape |
| RecordStore | backends, `ParseDSN`, `Open`, `Collection`, the SQLite `Upsert` and `Close`, a second run (kit/store) | |
| StoreProofs | theorems about RecordStore | EXTENDS RecordStore, Induction |
| NewRepo | `any new` (cli/new.go, scaffold/scaffold.go, scaffold/repo.go) | |
| RepoProofs | theorems about NewRepo | EXTENDS NewRepo |
| MCServeHTTP, MCMcpServer, MCCliRun, MCSurfaces, MCHost, MCRenderer, MCRecordStore, MCNewRepo | the instances for TLC | |

**RecordStream** has four variables per call: the phase, the limit and Single
mark it runs under, the records delivered and the verdict. Its `Deliver` can
only append the next record, under the limit; its `End` must fit what was
delivered.

**Invoke** has one process per invocation. `pc` names the place in the code:
`idle` before `bind`, `handler` inside the domain's handler, `tee` and `sink`
inside `emit`, `flush` after the handler has returned, `done`. The k-th record
of a handler is the number k; `rows[c]` is what the sink accepted, so the
counter `n` of the code is `Len(rows[c])`. `emitRes` is what the last `emit`
returned, `hErr` what the handler returned. The handler is domain code, and is
modelled by what it may do with the error `emit` returns: return it, wrap it, or
ignore it and go on. A handler that is free to go on may return any result of
its own at any time. A handler calls `emit` from the goroutine it runs in.
`stored[c]` is what the store has kept and `missed[c]`, a history variable, the
records whose error the tee has dropped: the code keeps no trace of them.

**ServeHTTP** adds to each invocation the goroutine of its request (`http`),
its peer (`conn`), its `?limit` (`asked`) and its response, and, once for the
process, the life of the command (`server`), the signal, the client and the
store. The steps of Invoke are the actions of the module Invoke under the
conditions of this surface: a record `encoding/json` cannot encode
(`BadRecords`) is refused by the sink and by the tee, a closed store keeps
nothing, a peer that is gone may make a write fail. Nothing ties the requests to
the shutdown, as in the code: `Close`, the post-run hook and the exit happen
whatever the handlers do.

**McpServer** is one loop over the messages `sent`; `mode` is the place in it.
A reply is `[to, kind]`. A result that cannot be encoded is dropped, as
`write` does.

**CliRun** is the sequence cobra runs: flags, arguments, the pre-run hook,
client, renderer, Invoke, the post-run hook. A failure exits at once and skips
the hook. `wants` is the command line. Of the renderer it keeps whether a
format buffers its records (tables), may buffer some (csv, tsv, registered
encoders) or prints each.

**OpRegistry** keeps `App.ops` as a sequence and `App.byName` as a function from
a name to a position. `Register` overwrites every name it claims but panics on a
taken key, as `register` does. The lookups are operators over that state:
`CliFind` walks the command tree the way cobra does: `Tree` is the set of its
nodes, each with its place in the order `buildCLI` adds them (operations, nested
commands, extra ones, the two of kit), and the node at the least place whose name
or alias matches wins; `HttpFind` takes the longest served route
that is a prefix (http.ServeMux), `McpFind` asks `byName`.

**Binding** gives a parameter its kind (positional, named, injected, inherited)
from the struct tags, writes a call down as each surface does and reads it back
with `BindAll`. A value is a list of words; commas, slashes and the text that
`fmt.Sprint` makes of a JSON number are functions from a word (`Commas`,
`Segments`, `Sprinted`), never characters. A number is said in three ways: pflag
reads it in any base (`FlagInt`), a JSON number for an int flag goes through
`reflect.Convert` (`Converted`: 7.5 is 7, above 2^53 it is rounded), one for an
argument through `fmt.Sprint`. `Said` collects them, so `Intended` and `Mistyped`
say what a call means once a form has said its numbers. `Meta.Args` is a list of
its own (`DeclOf`), which `argsValidator` and `mcpInput` go by and nothing derives
from the struct; `LinesUp` says when the two agree. `Strays` names the calls in
which a form lets words go astray (an empty word in a query, a slash in a path, a
gap before a later positional, a JSON number for an argument of a tool without
Args), and `Hard` adds those it cannot carry as they were meant (a comma in one
string). `Fits` says what a call may give, and `Conventional` which structs kit's
documentation describes.

**Surfaces** has one action beyond the registry's: a call of operation `op` with
values `given` over a form (`cli`, `path`, `query`, `tool`, or `bare`, the tool
call whose lists are single strings). It records what ran and what was bound.

**DomainRegistry** keeps the two maps of kit/domain.go. `Register` claims the
scheme and the aliases before the first it cannot have, and panics there.

**Host** adds the operations of each domain, the mounts `Open` makes one by one
in any order (Go's map order), the mint index, and one process per caller whose
`call.pc` goes from a name it holds (`named`) to the client and the operation.
`client[n]` is the `sync.Once` of a domain. Domains may register at any time,
also while the host is open. An id is a sequence of `Segments`, so that what
`splitID` does to an empty segment is visible. The loop of `Host.index` is the
recursive function `Index`, one `IndexStep` an operation; `Canonical` says what
it is to compute without a loop.

**RecordShape** holds the walk of the renderer (depth first, pointers followed,
hidden fields kept aside) and that of reflectx (breadth first, a name met before
shadows). A loop that appends under a condition is `Those`: it is `SelectSeq`, which
tlapm knows nothing of, written as a flattening. **Renderer** is the state machine over one shape: what has reached the
writer (`out`, marks and rows), what csv or the grid still buffers, and what each
`Emit` said. `EmitRecord` is `Emit` and `FlushRun` is `Flush`, under names that
Invoke does not have. A write may fail at any record; a record may be nil, explicit, or
one that cannot be marshalled.

**RecordStore** has one process per request, from `Tee` through the mutex
(`Lock`), the table (`Ensure`) to the row (`Insert`), each of which may fail, and
around them `Close` and `Again`, which is a crash or an exit followed by another
run over the same file. A type name is a sequence of letters, so `Collection` is
modelled by what it does: the loop over the letters is the recursive function
`Snaked`, `strings.Trim` is `Trimmed`, and `Gap` is the underscore.

**NewRepo** has `pc` for the step of `any new`, `disk` for what is in the
directory and whether it is whole, `tree` and `remote` for what was committed and
pushed. `Kill`, another program (`Foreign`) and the user (`Clear`) interfere
between any two steps.

Next to some definitions stand forms of them with a slip in it (`EmitGivesUpStore`,
`RespondAnyError`, ...). They model nothing: each is a plausible mistake in the
code, and PROJECT.json pairs it with a property TLC must then find violated.

## The runs

| Run | Shows | Bounds |
|---|---|---|
| serve | `ServeInv`, `BodyIsRowsOrError`, `AskedLimitHolds`, and that each request runs Invoke (`RunsInvoke`) | two requests, 2 records, limits 1 and 2, handlers that return or ignore, no store |
| serve_live | `ShutdownCompletes`, `RequestIsAnswered` | two requests, 1 record, a store |
| mcp | `McpInv`, `AnsweredUnlessUnencodable`, `DrainedBeforeExit`, `EofEndsServer` | two messages of any kind, 2 records |
| cli | `InvokeInv`, `DeliveryIsAccounted`, `VerdictIsRight` of the one invocation, which implements RecordStream (`IsRecordStream`); `CliInv`, `ExitCodeTells` of the run; `LimitEndsRun` | every command line over limits -1 to 3, three kinds of formats, 3 records, handlers that return or wrap |
| surfaces | `SurfacesInv`, `RoutesAreGated`: which operation a name reaches; `BindsAsMeant`, `LossesAreKnown`: what its arguments are bound to | up to 3 of 8 operations whose names collide in every way the code tells apart, two of three hand-written commands, then one call over 5 forms; `get` and `rank` declare Args that line up, `search` none, `find` has them in another order |
| host | `RegistryInv`, `NamesAreFinal` of the registry; `HostInv`, `CanonicalOpServes`, `NamesAreFound`, `CallsEnd` of the host | two domains, two callers, five names of which one is reserved and one malformed, four lists of operations |
| renderer | `RendererInv`, `AcceptedIsWritten`, `JsonIsOneArray` of the formats; `ColumnsAgree` of the record types | up to 3 records in each format; every record type of at most two fields of 25 kinds |
| store | `StoreInv`, `RowsAreFiled`, `NothingVanishes`, `UpsertsEnd` | three requests, of two types that share a collection and of no type, two runs, two schemes, every form of DSN |
| scaffold | `RepoInv`, `ExitTellsDisk`, `ForeignIsKept`, `RunsEnd` | two runs, one foreign file, two site names of which one makes two templates collide |
| scaffold_overwrite | a file that appears between `Stat` and `WriteFile` is overwritten (`RenderNeverOverwrites`) | one run, one foreign file |
| mcp_signal | the signal does not reach the MCP server | one message |
| host_inverse | an id with an empty segment does not come back from the URI minted for it | as host |

Most properties are conjunctions of named parts, each with its own comment:

| Property | Its parts |
|---|---|
| `DeliveryIsAccounted` | `LimitCap`, `RowsArePrefix`, `StoreLeadsByOne`, `StoreMissesOnlyFailures` |
| `VerdictIsRight` | `SuccessIsComplete`, `LimitIsSuccess` |
| `McpInv` | `McpTypeOK`, `RepliesInOrder`, `CallsAreSerial` |
| `CliInv` | `CliTypeOK`, `StoreOutlivesTee` |
| `ExitCodeTells` | `ExitZeroIsSuccess`, `LimitExitsZero`, `ExitThreeIsEmpty` |
| `SurfacesInv` | `SurfacesTypeOK`, `ToolCallsLatest`, `CliRunsEarliest`, `HandWrittenKept` |
| `RoutesAreGated` | `RouteStraysKnown`, `WritesAreGated` |
| `LossesAreKnown` | `SchemaKeepsPlaces`, `BadNumbersRefused`, `WordsKeepOrder` |
| `RegistryInv` | `RegistryTypeOK`, `ClaimsAreBacked`, `OwnsItsNames`, `KindsStayFree` |
| `HostInv` | `HostTypeOK`, `OneFactoryPerDomain` |
| `NamesAreFound` | `MintedIsFound`, `GetRunsCanonical`, `MintedTypeServes`, `IdSurvivesNaming`, `ResolvedIsRoutable`, `UnknownIsFinal` |
| `RendererInv` | `RendererTypeOK`, `HeaderOnce`, `ProjectionAligns` |
| `ColumnsAgree` | `WalksAgree`, `ShownNameIsShown` |
| `StoreInv` | `StoreTypeOK`, `NamedBackendOpens`, `OneInside`, `TablesAreBacked` |
| `RowsAreFiled` | `RowsOfTheirType`, `KeysAreUnique` |
| `RepoInv` | `RepoTypeOK`, `TornIsNeverCommitted`, `SumStaysLocal` |
| `ExitTellsDisk` | `SuccessIsWhole`, `OnlyRemoteFails`, `CollisionIsFatal` |

Why the bounds are enough: the code compares the number of rows with the limit
and with zero, so three records with limits below, at and above three meet every
case; calls share nothing but the client and the store, which hold no more than
a phase each, so two requests meet every interleaving that matters (and the
theorems hold for any number); the MCP loop remembers nothing between messages
but the client, so two messages show every transition from one message to the
next. A name is fought over by two owners at a time, and a third operation is
there to be the parent or the alias of one of them; a call leaves the registry as
it was, so one call shows what any call does. Two domains and two callers meet
every order of mounting, claiming and building. The renderer remembers of the
records before the current one only whether there was one and the columns of the
first, so the third record is like every later one; a record type of two fields
holds every pair that can shadow, hide or rename. The store knows of other
requests only through its mutex and its tables, and of other runs only through
the file. The steps of `any new` are in a line, so two runs show what one leaves
to the next.

Deadlock is not checked: an invocation, a process and a conversation all end,
and in the surfaces a handler that has produced its bounded number of records
may rest; a host, a store, a renderer and a scaffold end or wait for their user.

### Fairness

- ServeHTTP: only the goroutine of the command and the one that waits for the
  signal are fair (`ShutdownFairness`); handlers and the client factory may
  hang for ever, and `ShutdownCompletes` holds all the same. `RequestIsAnswered`
  says under which further assumption a request is answered: its own goroutine
  and that of the others is scheduled, and no handler or factory hangs.
- McpServer and CliRun: one goroutine that takes its next step when it has one.
  On the command line a handler that is free to go on need not return by itself
  (`HandlerStopsItself` has no fairness), so the only thing that ends it in
  `LimitEndsRun` is the limit; it keeps emitting, which is the assumption that
  the source is longer than the limit. One that has been told to stop returns.
  The peer of the MCP server and the signal are never fair.
- Host: each caller takes its next step once it is routed, which assumes that
  factories and handlers return; registering and opening are never fair.
- RecordStore: each request goes on inside `Upsert` while the mutex is free for
  it; since the mutex is held for a bounded number of steps weak fairness is
  enough. Closing, crashing and handing over records are not fair.
- NewRepo: the command takes its next step unless it is killed
  (`FairRepoSpec`). Nothing else is fair.

## What is proved

For every set of calls, any bound on the records, any set of integer limits and,
in ServeHTTP, any set of records without JSON:

- `InvokeCorrect`: `InvokeInv` is an invariant of Invoke. None of the safety
  properties is inductive: that a limit is never exceeded rests on the stop
  marker having been returned exactly when the limit was reached, that a success
  is complete rests on what the handler returned having come from what `emit`
  returned. `InvokeInv` says, for each place in `emit`, how the counters stand
  (`CountsFit`), what the handler's error is worth (`ReturnFits`) and what
  Invoke made of it (`ResultFits`). The proof goes by step, and for each step
  shows the other calls untouched (`StepFrame`) and the own conjuncts
  (`StepSelf`).
- `DeliveryHolds` (from `LimitHolds`, `PrefixHolds`, `StoreLeadHolds`,
  `StoreLedgerHolds`) and `VerdictHolds` (from `SuccessHolds`,
  `LimitSuccessHolds`), from it. The ledger says that the store lacks just the
  records its own tee failed on; that the result does not tell of those is what
  the code does.
- `StreamRefinement`: with handlers that heed `emit`, Invoke implements
  RecordStream: `bind` maps to `Reject` or `Open`, an accepted record to
  `Deliver`, `Flush` to `End`, and everything else to a stutter.
- `ServeRunsInvoke`: every behaviour of the HTTP server is, seen through the
  variables of Invoke, a behaviour of Invoke. So everything above holds of each
  request (`ServeInvokeInv`).
- `ServeCorrect`: `ServeInv` is an invariant of the server, from which follow
  `ClientIsShared`, `BodyHolds` and `AskedLimitServed`. `BodyIsRowsOrError` is
  not inductive alone: it needs that the sink's `wrote` mark covers every row
  and every status line that has gone out before the answer is decided
  (`BodyFits`); `AskedLimitHolds` needs that the limit of the invocation is the
  one asked for (`LimitFits`) and `InvokeInv`.
- `RegistryCorrect`: `RegistryInv` is an invariant of the domain registry, for
  any domains, names, reserved kinds and declarations. From it `ClaimsBacked`,
  `NamesOwned`, `KindsFree`, and with `StepKeepsNames` the action property
  `NamesFinal`. The argument is that a registration, whole or half, writes only
  names that were free (`ClaimsWereFree`), so that whatever held of the others
  still does. `ClaimsAreBacked` is needed with `OwnsItsNames` in one invariant
  since a name a domain owns must lead to a scheme nobody can file over.
- `HostRunsRegistry`: a host is a run of the registry beneath it, so
  `HostRegistryCorrect` and `HostNamesFinal` hold whatever its callers do.
- `IndexCanonical`: for any list of operations and any authority, the index that
  `Host.index` builds names the operation `Canonical` says, the first that is
  marked a resolver, else the first that is no list. The loop invariant is
  `FiledUpTo(list, ix, k)`: what the resolvers, the marks and the names hold
  after k operations.
- `HostCorrect`, `CanonicalServes` and `NamesFound` are `HostInv`,
  `CanonicalOpServes` and `NamesAreFound`, for any domains, operations, links
  and callers. They rest on `HostIInv`: each mount is that of the domain its
  scheme leads to, under the index of that domain's operations (`MountsMatch`);
  at most one caller is in a domain's factory, and nobody runs an operation
  without the client (`OnceHolds`); and a name a caller holds leads where it was
  found (`NameLeads`). So `Get` runs the canonical operation of the name's
  authority (`GetRunsCanonical`), which emits the type of the record a name was
  minted for unless another type is filed there too (`MintedTypeServes`). That an id without an empty segment comes back from its
  segments (`IdComesBack`) is an induction over the id.
- `McpRunsInvoke`: a tools/call is an Invoke, for any number of messages, so
  `McpDeliveryHolds`. `McpCorrect`, `McpAnswers` and `McpDrains` are the three
  invariants of the run `mcp`. They rest on `TurnsFit`, which says that the call
  that runs is that of the message read last and that no later one has begun,
  and on `EndFits`, which says what the end of the input leaves at each point of
  the shutdown.
- `CliRunsInvoke` and `CliDeliveryHolds` say the same of the command line.
  `CliCorrect` is `CliInv` and `ExitCodeTells` for any limit, handler and number
  of records: `RunFits` says at each stage of the run how the store stands
  (`StoreFits`), where the invocation is (`CallFits`) and what the exit code can
  be (`ExitFits`), and `InvokeInv` does the rest. Exit code 0 hides one loss,
  which the property names (`LostInFlush`, see 9 below). `CliStoreHolds` is
  `CliInv` alone.
- `RendererCorrect`, `AcceptedWritten` and `JsonArray` are `RendererInv`,
  `AcceptedIsWritten` and `JsonIsOneArray`, for any record types, projections
  and number of records. None is inductive: what is out says nothing of what is
  still held back. `RenderIInv` speaks of the lines, which are what is out and
  what is held back behind it. While the run goes on (`Running`) they are the
  accepted records in order, under one header if the format has one, as wide as
  `--fields` says (`Steady`), the flags tell what has been begun, and a JSON
  array without a failure is `OpenArray` of the number of records; when the run
  is over (`Over`) nothing is written any more. `EmitRecord` appends to the
  lines (`SteadyRow`, `SteadyMark`, `SteadyHead`), csv.Writer moves a prefix of
  them out and leaves the lines as they are (`SpillKeeps`), and a flush that
  breaks off leaves a prefix (`SteadyParts`, `NeatPrefix`, `NeatTail`).
- `ColumnsMeet` is `ColumnsAgree`, for any record types with any number of fields.
  `WalksAgree` speaks of types that embed plainly (`PlainlyEmbeds`; an embedded
  pointer or a named embedded struct is walked by one side only), shadowed names
  included: a column the rest of kit does not see is one shadowed by a field no
  deeper, and where no name occurs twice (`NamesTell`) there is none. Both walks are
  compared with the entries of the type, a field or a promoted one with its place
  (`Entries`). The renderer's reaches every visible entry once, since a place tells
  the field and which of its own it is (`CollectedIs`, `EvenCollects`), and a plan
  only divides what was collected (`Planned`). The walk by levels takes, for every
  entry, one of its name that is no deeper (`DeclaredAre`, `FieldsFind`), which
  without shadowing is that entry itself (`FieldsAre`). Then both are the same set
  without repetition, their sizes agree, and the column found under the name of the
  id is the id's (`Picked`).
- `OneIsInside`, `TablesBacked`, `KeysUnique`, `RowsStay` and `BackendIsNamed`
  are the parts of the properties of the run `store` that do not rest on what
  `Collection` computes; `StoreCorrect` and `RowsFiled` are `StoreInv` and
  `RowsAreFiled` whole. `FileFits` says that whoever is past `Lock` holds the
  mutex, that a request about to write has its table, and that keys are unique;
  `FileStep`, that a step writes at most one row, in the place of the one that
  had its key. `RowsFit` says that a row is in the table of its type's
  collection, although `newTee` normalises the name and `Upsert` what it is
  given: that rests on `CollectionTwice`, that `Collection` of a collection is
  the same, for every name over any letters. The proof shows by induction that
  what the loop has built has no capital, no gap at its front and no two gaps
  next to each other, that trimming leaves none at its end either (`Clean`), and
  that the loop leaves a clean name alone.
- `SurfacesCorrect` and `WritesGated` are `SurfacesInv` and `RoutesAreGated`, for
  any operations, hand-written commands, structs and values, registered in any
  order. `SurfacesIInv` says that a name leads to the operation that claimed it
  last and every operation's names lead to it or a later one (`NamesLatest`),
  that no two operations have one key (`KeysDiffer`), and that a call ran what
  its surface finds in that registry (`CallFits`). From it: `tools/call` finds
  the latest owner at once; on the command line the node at the least place is
  an operation no later than the one meant (`FirstIsOp`, `CliFindsOp`), or the
  hand-written one (`CliFindsHandWritten`); the longest route that is a prefix
  (`HttpFindsLongest`) nests with the route meant (`PrefixesNest`), and equals it
  only for the same operation (`RoutesDiffer`, which needs the keys). The bigger
  instance TLC was given for it refuted an earlier `HandWrittenKept`: hand-written
  commands nested under the name of one at the root make a group, which joins the
  root before it and takes its word.
- `CallsBindAsMeant` and `LossesStayKnown` are `BindsAsMeant` and
  `LossesAreKnown`, for any structs that are `Conventional`, any values and any
  number of parameters and words; for a tool, whose Args line up with the struct or
  are left out. That the parameters are what `reflectIn` makes of a struct (`Readable`)
  and what was given fits them (`Asks`) comes from `SurfacesIInv`, and so does
  what the surface hands to `bind` (`CallSends`): one part of the list of words
  for each parameter (`PartsOf`), and the flags. A flag is read by itself
  (`FlagRead`). A positional is found by its place, the number of positionals
  before it (`CursorAt`), so the argument is about where each part's words stand
  once all are joined: without a gap every part before has one word, and the
  cursor is where the part begins (`WordsPlaced`, `ArgRead`). From one parameter
  (`OneBound`) to the call only the question remains whether one is refused
  (`AllBound`, `BadBound`). `WordsKeepOrder` speaks of calls with gaps, where no
  part stands in its place; there the words are dealt out to the positionals in
  turn, the last taking the rest if it is variadic (`ArgTaken`), and joining what
  was dealt out gives the words back (`Regrouped`).
- `RepoCorrect`, `ExitTells` and `ForeignKept` are `RepoInv`, `ExitTellsDisk`
  and `ForeignIsKept`, for any templates, sites and options, and any number of
  runs, kills and foreign files. `RepoIInv` says how much of the directory is
  there at each step and that it is whole, whose every file is, and what git and
  the remote can have of it; the property over steps follows since a file is
  opened only where `Stat` has found nothing, so that the only file of another
  program that is written over is one created between `Stat` and `WriteFile`
  (`late`).

The assumptions are `InvokeAssumption`, `ServeAssumption`, `McpAssumption` and
`CliAssumption`: limits are integers, the bound on records is a natural number,
handlers are of the three kinds, the limits in play are among `LimitValues`, the
MCP messages are numbered from 1 and the command line has one call;
`RegistryAssumption`: a domain declares a scheme and a sequence of aliases, which
are names, as are the reserved and the malformed ones;
`OpRegistryAssumption`, `FieldsAssumption`, `DeclAssumption`, `WordsAssumption`
and `GivensAssumption`: names are strings and records have their fields, the words
of a call are strings, `strings.Split` and `splitList` give words, a numeral is
written one way, pflag and `reflect.Convert` make numerals, and a call gives a
scalar at most one word;
`HostAssumption`: operations come in sequences, lower case of an authority is an
authority and the authority a type's name gives is in lower case already
(kit/host.go:136), ids are sequences of segments, and the absent
type and domain are neither a type nor a domain;
`StoreAssumption`: a DSN without a scheme has an empty one, no request is
called as the free mutex is, the records of one request have one type, since a
collection is fixed per operation (kit/op.go:203-207, 284), a type name is a
sequence, and capitals, letters that stay and the underscore are different
letters; `ShapeAssumption` and
`RendererAssumption`: a record type is a sequence of fields, one that is not
embedded has none of its own, and column names are sequences of keys; and
`NewRepoAssumption`: there are templates, and none of them is go.sum.

Induction. The library's induction theorems take a predicate as a parameter,
which the installed provers cannot instantiate. Induction states the rule with a
set instead (`SetInduction`: a set of naturals that has 0 and with k also k + 1
has them all), derived from well-founded induction on the naturals, and from it
that a function defined along the naturals exists (`FiniteRecursion`). Loops
over sequences are recursive functions in the models, and a proof unfolds one as
the values it takes at 0, 1, 2 and so on. `FlattenSeq`, a fold of the community
modules, is unfolded in the same way: `FlattenRun` says what it does to one more
part, and `Placed`, where the k-th part is found in the whole.

Every invariant, action property and refinement of the runs is proved. Only
model-checked is liveness (`LimitEndsRun`, `ShutdownCompletes`,
`RequestIsAnswered`, `EofEndsServer`, `CallsEnd`, `UpsertsEnd`, `RunsEnd`), since the prover does not do fairness.

## Where code and documents disagree

The first three have a run of their own; the others follow from the models.

1. `mcp` does not watch its context, so a signal does not end it (`mcp_signal`;
   kit/run.go:29-30).
2. `Mint` is not the inverse of `Get` for an id that embeds a URL: `splitID`
   drops the empty segment (`host_inverse`; kit/host.go:315).
3. `Render` looks for a file and writes it in two steps, so one that appears in
   between is overwritten (`scaffold_overwrite`; scaffold/scaffold.go:109-123
   against 91-93).
4. A record the store refuses is printed all the same: the tee drops the error of
   `Upsert` (kit/input.go:301 against kit/store/store.go:2-3).
5. An empty stream over HTTP is 200, not 404 (kit/surface_api.go:119 against
   kit/README.md:219).
6. A first record that cannot be encoded gives 200 and an empty body
   (kit/surface_api.go:138).
7. `serve` exits while handlers are mid-record (kit/surface_api.go:44 against
   kit/run.go:29-30).
8. `mcp` ignores the `limit` argument of a call (kit/surface_mcp.go:161).
9. `-n` and a table that cannot be written give exit code 0: the stop marker
   outranks the error of `Flush` (kit/op.go:298).
10. A handler that wraps the error of `emit` makes a run cut by `-n` fail with
   the stop marker that kit/sink.go:13-14 says never surfaces.
11. An HTTP stream that fails after its first record ends without the trailer
    line kit/surface_api.go:126-127 mentions.
12. Two requests use the store at once, which kit/store/store.go:27-28 leaves to
    the caller; the SQLite backend has a lock of its own (`OneInside`).
13. A DSN whose scheme before a single colon has no backend names a file for the
    default backend, silently (kit/store/store.go:85-107; `NamedBackendOpens`
    says what does hold).
14. Write operations are gated over HTTP only; a tool call runs them
    (kit/op.go:22). The OpenAPI document lists the gated ones too.
15. An alias or a tool name registered later takes a name over on the MCP
    surface, while the command line keeps the first owner (`ToolCallsLatest`,
    `CliRunsEarliest`).
16. Over MCP a single string for a variadic parameter is split at commas, and a
    JSON number from a million on reaches a positional as `2e+06`, which a whole
    number then refuses (kit/surface_mcp.go:186, 202; `BadNumbersRefused`).
17. What `any new` pushes has no go.sum: tidy runs after the commit
    (`SumStaysLocal`). A site named "domain" makes two templates one path, and
    the command stops half way (`CollisionIsFatal`).
18. A top-level search that emits a record type is filed in the index like any
    other operation and may come to serve `Get` (kit/host.go:127-158), though
    kit/host.go:123-126 and kit/host_test.go:65 say that it is not
    URI-addressable.
19. `Get` of a minted record runs an operation of another type when the two share
    an authority and the other's is marked Resolver or was registered first
    (kit/host.go:150-155 against 117-118; `MintedTypeServes` leaves that case out).
20. An authority with a capital letter is filed as it is written, and a URI that is
    printed and parsed again has it in lower case, so it is not found
    (kit/host.go:130-137 against kit/uri.go:42-124).
21. `argsValidator` and `mcpInput` go by `Meta.Args`, which nothing derives from
    the struct: the first operation kit/README.md:28-40 shows has none, so its
    `mybin search example.com` is refused on the command line. A tool of such an
    operation reads its arguments by name, where an int argument given as a JSON
    number is dropped without an error (kit/input.go:89).
22. A JSON number for an int field is converted, not checked: 7.5 is bound to 7 and
    what is above 2^53 is rounded (kit/input.go:206-208).
23. A field shadowed by another of its name stays a column of `-o table`, and
    `--fields` may show it in place of the one the store and the URIs go by
    (kit/render/render.go:552-566 against kit/reflectx.go:23-25).
24. Under `--fields` a typed nil as the first record leaves an empty header above
    the rows (kit/render/render.go:287-292, 345).

## Not modelled, and the plan

Left for later, in this order:

1. The generated client (scaffold/templates/LIBPKG): rate and retries of one
   client under concurrent callers. It is text here and code elsewhere.
2. `Envelope` links (`linkFields`) and the host's own commands.

Panics are not modelled, but for the registrations: a handler or factory that
panics ends the process on the command line and over MCP, and its own request
over HTTP.

Out of reach or of no use to model: the types in a schema (`typeSchema`, a
recursion over Go types); booleans, unsigned numbers, durations, floats and byte
sizes in arguments; paths with a `.` or `..` segment or an empty one, which
http.ServeMux redirects to the clean path before it matches
(kit/surface_api.go:72-78); help text, suggestions and completion; the cells, widths and colours of a table;
configuration files and the HTTP client helper, which compute values without a
protocol; the templates and the Pages script, a straight line of remote calls;
SQLite, cobra, net/http, encoding/json and git themselves, of which the models
keep what the code relies on.
