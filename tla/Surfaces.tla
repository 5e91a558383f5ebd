---- MODULE Surfaces ----
(***************************************************************************)
(* One logical call, made over any surface: the registry finds the         *)
(* operation by the words that name it, the surface writes the arguments   *)
(* down its own way, and bind reads them back. The caller means operation  *)
(* op of the registry and the values given for its parameters.             *)
(***************************************************************************)
EXTENDS OpRegistry, Binding

CONSTANTS
    FieldsOf,    \* the fields of the In struct of each operation
    DeclOf,      \* its Meta.Args
    Givens,      \* for each operation, the values a caller may give its parameters
    Contexts     \* [limit, handles]: what the surface resolved for the run

VARIABLE call    \* the call made: what was meant, what ran, what was bound

vars == <<registry, call>>

ParamsOf == [m \in Metas |-> ReflectIn(FieldsOf[m])]

ASSUME FieldsAssumption ==
    FieldsOf \in [Metas -> Seq([name : STRING, head : STRING, renamed : STRING, go : STRING,
                               options : SUBSET STRING, def : Words \cup {EmptyWord},
                               exported : BOOLEAN, tagged : BOOLEAN])]
ASSUME DeclAssumption ==
    DeclOf \in [Metas -> Seq([name : STRING, variadic : BOOLEAN, optional : BOOLEAN])]
ASSUME GivensAssumption ==
    \A m \in Metas : \A given \in Givens[m] : Fits(ParamsOf[m], given)

HttpForms == {"path", "query"}
ToolForms == {"tool", "bare"}
Forms == {"cli"} \cup HttpForms \cup ToolForms
NoCall == [op |-> 0]

SurfacesInit == RegistryInit /\ call = NoCall

Find(form, m, given, allow) ==
    CASE form = "cli"       -> CliFind(Route(m) \o CliWords(ParamsOf[m], given))
      [] form = "path"      -> HttpFind(Route(m) \o PathWords(ParamsOf[m], given), allow)
      [] form = "query"     -> HttpFind(Route(m), allow)
      [] form \in ToolForms -> McpFind(Tool(m))

InputOf(form, ps, decl, given, rest) ==
    CASE form = "cli"   -> [args |-> rest, flags |-> CliFlags(ps, given)]
      [] form = "path"  -> [args |-> rest, flags |-> PathFlags(ps, given)]
      [] form = "query" -> [args |-> rest, flags |-> QueryFlags(ps, given)]
      [] OTHER -> [args |-> McpPositional(ps, decl, given, form = "bare"),
                   flags |-> McpFlags(ps, decl, given, form = "bare")]

\* A call that reaches its operation is bound; argsValidator stands before it on the CLI.
BoundBy(form, m, given, rest, rt) ==
    IF form = "cli" /\ ~Admits(DeclOf[m], Len(rest)) THEN Failure
    ELSE BindAll(ParamsOf[m], InputOf(form, ParamsOf[m], DeclOf[m], given, rest), rt)

\* One call: it leaves no trace in the registry, so a second would tell nothing new.
Call ==
    /\ phase = "running" /\ call = NoCall
    /\ \E i \in DOMAIN ops, form \in Forms, allow \in BOOLEAN, rt \in Contexts :
         \E given \in Givens[ops[i]] :
            LET m == ops[i]
                found == Find(form, m, given, allow)
            IN  /\ form \notin HttpForms => ~allow     \* a flag of serve alone
                /\ call' = [op |-> i, form |-> form, given |-> given, allow |-> allow, rt |-> rt,
                             ran |-> found.ran,
                             bound |-> IF found.ran = Ran("op", i)
                                       THEN BoundBy(form, m, given, found.rest, rt) ELSE Failure]
    /\ UNCHANGED registry

SurfacesNext == (RegistryNext /\ UNCHANGED call) \/ Call
SurfacesSpec == SurfacesInit /\ [][SurfacesNext]_vars

----
SurfacesTypeOK ==
    /\ ops \in Seq(Metas) /\ Len(ops) <= MaxOps
    /\ \A n \in DOMAIN byName : byName[n] \in DOMAIN ops
    /\ commands \in Seq(Commands)
    /\ phase \in {"wiring", "panicked", "running"}
    /\ call.op \in 0..Len(ops)

Made == call.op # 0
By(forms) == Made /\ call.form \in forms
Mine == ops[call.op]
Params == ParamsOf[Mine]
Decl == DeclOf[Mine]
Sent == Heard(call.form, Params, call.given)
Itself == call.ran = Ran("op", call.op)
Meant == IF Mistyped(Params, Sent) THEN Failure
         ELSE [ok |-> TRUE, vals |-> Intended(Params, Sent, call.rt)]

\* A tool of tools/list always runs an operation, another one only if that one was registered later under
\* the tool's name: App.register overwrites every claimed name but the key (app.go:149-155).
ToolCallsLatest ==
    (By(ToolForms) /\ Tool(Mine) \in Listed) =>
                     /\ call.ran.kind = "op" /\ call.ran.at >= call.op
                     /\ Tool(Mine) \in Claims(ops[call.ran.at])

\* The command line is the other way round: the words of an operation run something else
\* only if an earlier operation took the first of them, and a hand-written command or a
\* built-in never takes them (app.go:162-165 against surface_cli.go:101-123).
CliRunsEarliest ==
    (By({"cli"}) /\ ~Mine.noCLI /\ ~Itself) =>
        \E j \in 1..call.op - 1 :
            /\ ~ops[j].noCLI
            /\ Route(Mine)[1] \in AtRoot(Node(j, ops[j], Ran("op", j)))

\* With NoCLI the hand-written command of the same name keeps the command line, while the
\* operation stays on the other surfaces (op.go:24-34), unless another operation has taken
\* the word or hand-written commands are nested under it: their group joins the root first.
HandWrittenKept ==
    /\ By({"cli"}) /\ Mine.noCLI => ~Itself
    /\ (/\ By({"cli"}) /\ Mine.noCLI
        /\ \E j \in DOMAIN commands : commands[j].parent = Mine.parent /\ commands[j].name = Mine.name
        /\ \A j \in DOMAIN commands : Mine.parent = NoName => commands[j].parent # Mine.name
        /\ \A j \in DOMAIN ops \ {call.op} : Route(ops[j])[1] # Route(Mine)[1]
                                             /\ Route(Mine)[1] \notin ops[j].aliases)
        => call.ran.kind = "cmd"

\* Every surface finds an operation by a name of its own making: what a name leads to when
\* several operations or a hand-written command claim it.
SurfacesInv == SurfacesTypeOK /\ ToolCallsLatest /\ CliRunsEarliest /\ HandWrittenKept

\* A documented path goes unanswered only when its operation is gated, and strays to another
\* operation in two ways only: an argument that spells a nested verb is taken for it, and the
\* path of a gated operation falls to its parent's (surface_api.go:65-79, 163-215).
RouteStraysKnown ==
    (By(HttpForms) /\ Route(Mine) \in Documented /\ ~Itself) =>
        \/ Mine.write /\ ~call.allow /\ call.ran.kind = "unknown"
        \/ /\ call.ran.kind = "op"
           /\ LET other == ops[call.ran.at]
              IN  \/ Prefix(Route(Mine), Route(other)) /\ call.form = "path"
                  \/ Prefix(Route(other), Route(Mine)) /\ Mine.write /\ ~call.allow

\* Whatever the path, no write operation answers over HTTP unless --allow-writes was given.
WritesAreGated ==
    (By(HttpForms) /\ call.ran.kind = "op") => (ops[call.ran.at].write => call.allow)

\* The routes as a whole: a path reaches its operation but for the known strays, and the
\* gate holds for whatever it reaches.
RoutesAreGated == RouteStraysKnown /\ WritesAreGated

\* What follows is about calls that reach their operation, when its struct is one kit describes
\* and, for a tool, its Meta.Args lines up with the struct or is left out.
Reached ==
    /\ Made /\ Itself /\ Conventional(Params)
    /\ call.form \in ToolForms => LinesUp(Params, Decl) \/ Decl = <<>>

\* One call means the same over every surface: every parameter is bound to the value given for
\* it, or to its default, and the call is refused when what the form says of a number is none.
\* Only numbers are said otherwise than they were given: 7.5 for an int flag is 7 over MCP
\* (input.go:206-208), 0x10 is 16 on the command line, and 2000000 for an argument of a tool is
\* 2e+06 (surface_mcp.go:186). The calls a form cannot carry (Hard) and those argsValidator
\* refuses are left out: Strays names the ones that may become another call.
BindsAsMeant ==
    (/\ Reached /\ ~Hard(call.form, Params, Decl, call.given)
     /\ call.form = "cli" => Admits(Decl, Len(CliWords(Params, call.given))))
        => call.bound = Meant

\* mcpInput collects positional words by what is present, so a missing argument would move
\* the later ones up; arguments that satisfy the input schema leave no gap to fall into.
SchemaKeepsPlaces ==
    (/\ Reached /\ By({"tool"}) /\ LinesUp(Params, Decl)
     /\ \A k \in SchemaRequires(Params) : call.given[k] # <<>>) => call.bound = Meant

\* What a form says of a number, when it is no number for bind (2e+06, or a word that never was
\* one), fails the call, also when a comma splits another of its words.
BadNumbersRefused ==
    (/\ Reached /\ ~Strays(call.form, Params, Decl, call.given)
     /\ Mistyped(Params, Sent)) => ~call.bound.ok

\* Even with a gap no positional word is lost, invented or reordered: what the arguments
\* are bound to, read in order, is what the form said (a scalar cannot tell the empty word).
WordsKeepOrder ==
    (/\ Reached /\ By({"cli", "path", "tool"}) /\ call.bound.ok
     /\ call.form = "tool" => LinesUp(Params, Decl)
     /\ ~Slashed(Params, call.given) /\ ~Blank(Params, call.given))
        => FlattenSeq([k \in DOMAIN Params |->
               IF k \in ArgsOf(Params) THEN call.bound.vals[k] ELSE <<>>])
           = CliWords(Params, Sent)

\* What becomes of the calls a form cannot carry, as far as it is known: a gap shifts the words
\* and keeps them all, arguments that satisfy the schema have none, a bad number is refused. A
\* word split at a comma or a slash, a blank in a query and a number dropped by name stay out
\* of it: they do become another call (surface_mcp.go:161-207, input.go:40-138).
LossesAreKnown == SchemaKeepsPlaces /\ BadNumbersRefused /\ WordsKeepOrder
====
