---- MODULE OpRegistry ----
(***************************************************************************)
(* The operation registry of one App and what the three surfaces make of  *)
(* it: App.register, AddCommand and AddCommandUnder while the binary is    *)
(* wired up; then the command tree of buildCLI, the routes of httpServer   *)
(* and the tools of mcpTools, each of which finds an operation by a name   *)
(* of its own. A call is a sequence of words (or path segments, or one     *)
(* tool name): the surface eats the words that name the operation and      *)
(* leaves the rest as arguments.                                           *)
(***************************************************************************)
EXTENDS Naturals, Sequences, FiniteSets

CONSTANTS
    Metas,      \* what a domain may register: [parent, name, aliases, write, noCLI]
    Commands,   \* hand-written commands: [parent, name, aliases], parent "" at the root
    MaxOps,     \* bound: operations registered
    MaxCommands \* bound: hand-written commands added

ASSUME OpRegistryAssumption ==
    /\ Metas \subseteq [parent : STRING, name : STRING, aliases : SUBSET STRING,
                        write : BOOLEAN, noCLI : BOOLEAN]
    /\ Commands \subseteq [parent : STRING, name : STRING, aliases : SUBSET STRING]
    /\ MaxOps \in Nat /\ MaxCommands \in Nat

VARIABLES
    ops,        \* App.ops: the registered operations, in order
    byName,     \* App.byName: from a name to the position in ops of its operation
    commands,   \* App.nested and App.extra, each in the order it was added
    phase       \* "wiring" | "panicked" | "running"

registry == <<ops, byName, commands, phase>>

NoName == ""     \* of a parent: the root

Key(m) == IF m.parent = NoName THEN m.name ELSE m.parent \o " " \o m.name
Tool(m) == IF m.parent = NoName THEN m.name ELSE m.parent \o "_" \o m.name
Route(m) == IF m.parent = NoName THEN <<m.name>> ELSE <<m.parent, m.name>>
Claims(m) == {Key(m), Tool(m)} \cup m.aliases

RegistryInit ==
    /\ ops = <<>> /\ byName = [n \in {} |-> 0] /\ commands = <<>> /\ phase = "wiring"

\* Slip, for the mutation runs: a name that is taken is left to its first owner.
RegisterKeepsOld(m) ==
    /\ phase = "wiring" /\ Len(ops) < MaxOps
    /\ IF m.name = NoName \/ Key(m) \in DOMAIN byName
       THEN phase' = "panicked" /\ UNCHANGED <<ops, byName>>
       ELSE /\ ops' = Append(ops, m)
            /\ byName' = [n \in DOMAIN byName \cup Claims(m) |->
                            IF n \in DOMAIN byName THEN byName[n] ELSE Len(ops) + 1]
            /\ UNCHANGED phase
    /\ UNCHANGED commands

\* register panics on a taken key only; every other name it claims is overwritten.
Register(m) ==
    /\ phase = "wiring" /\ Len(ops) < MaxOps
    /\ IF m.name = NoName \/ Key(m) \in DOMAIN byName
       THEN phase' = "panicked" /\ UNCHANGED <<ops, byName>>
       ELSE /\ ops' = Append(ops, m)
            /\ byName' = [n \in DOMAIN byName \cup Claims(m) |->
                            IF n \in Claims(m) THEN Len(ops) + 1 ELSE byName[n]]
            /\ UNCHANGED phase
    /\ UNCHANGED commands

AddCommand(c) ==
    /\ phase = "wiring" /\ Len(commands) < MaxCommands
    /\ commands' = Append(commands, c)
    /\ UNCHANGED <<ops, byName, phase>>

Start == phase = "wiring" /\ phase' = "running" /\ UNCHANGED <<ops, byName, commands>>

RegistryNext ==
    \/ \E m \in Metas : Register(m)
    \/ \E c \in Commands : AddCommand(c)
    \/ Start

(***************************************************************************)
(* The command tree. cobra runs the first child, in the order added, whose *)
(* name or alias is the word; a parent joins the root when its first child *)
(* does. The tree is the set of its nodes, each with its place in that     *)
(* order: operations, nested commands, extra ones, the two kit adds.       *)
(***************************************************************************)
Ran(kind, at) == [kind |-> kind, at |-> at]
Node(place, c, ran) ==
    [place |-> place, parent |-> c.parent, names |-> {c.name} \cup c.aliases, ran |-> ran]

OpNodes == {Node(i, ops[i], Ran("op", i)) : i \in {j \in DOMAIN ops : ~ops[j].noCLI}}

CommandPlace(i) == Len(ops) + i + (IF commands[i].parent = NoName THEN Len(commands) ELSE 0)
CommandNodes == {Node(CommandPlace(i), commands[i], Ran("cmd", i)) : i \in DOMAIN commands}

Builtin(name) == [parent |-> NoName, name |-> name, aliases |-> {}]
BuiltinNodes ==
    LET last == Len(ops) + 2 * Len(commands)
    IN  {Node(last + 1, Builtin("serve"), Ran("builtin", 1)),
         Node(last + 2, Builtin("mcp"), Ran("builtin", 2))}

Tree == OpNodes \cup CommandNodes \cup BuiltinNodes

AtRoot(node) == IF node.parent = NoName THEN node.names ELSE {node.parent}
FirstOf(nodes) == CHOOSE n \in nodes : \A other \in nodes : n.place <= other.place
Leaf(node, rest) == [ran |-> node.ran, rest |-> rest]

\* unknownOrHelp answers a group that is given no word, or a word it does not hold.
Under(parent, words) ==
    LET hit == {n \in Tree : n.parent = parent /\ words[1] \in n.names}
    IN  IF words = <<>> THEN [ran |-> Ran("help", 0), rest |-> <<>>]
        ELSE IF hit = {} THEN [ran |-> Ran("usage", 0), rest |-> words]
        ELSE Leaf(FirstOf(hit), Tail(words))

CliFind(words) ==
    LET hit == {n \in Tree : words[1] \in AtRoot(n)}
        node == FirstOf(hit)
    IN  IF hit = {} THEN [ran |-> Ran("usage", 0), rest |-> words]
        ELSE IF node.parent = NoName THEN Leaf(node, Tail(words))
        ELSE Under(node.parent, Tail(words))

(***************************************************************************)
(* The routes: http.ServeMux takes the longest pattern that is a prefix.   *)
(* The path is one that ServeMux leaves as it is: before it matches, it    *)
(* sends a client that asked for a path with a "." or ".." segment, or an  *)
(* empty one, to the clean path.  So "." and ".." are no words of a path,  *)
(* and an empty word has no segment of its own (Segments in Binding).      *)
(***************************************************************************)
\* Slip: --allow-writes is not looked at.
ServedAll(allowWrites) == DOMAIN ops

Served(allowWrites) == {i \in DOMAIN ops : ops[i].write => allowWrites}
Prefix(r, path) == Len(r) <= Len(path) /\ SubSeq(path, 1, Len(r)) = r

HttpFind(path, allowWrites) ==
    LET hit == {i \in Served(allowWrites) : Prefix(Route(ops[i]), path)}
        best == CHOOSE i \in hit : \A j \in hit : Len(Route(ops[j])) <= Len(Route(ops[i]))
    IN  IF hit = {} THEN [ran |-> Ran("unknown", 0), rest |-> path]
        ELSE [ran |-> Ran("op", best), rest |-> SubSeq(path, Len(Route(ops[best])) + 1, Len(path))]

\* openAPI and tools/list show every operation, the gated ones too.
Documented == {Route(ops[i]) : i \in DOMAIN ops}
Listed == {Tool(ops[i]) : i \in DOMAIN ops}

\* tools/call asks byName.
McpFind(tool) ==
    [ran |-> IF tool \in DOMAIN byName THEN Ran("op", byName[tool]) ELSE Ran("unknown", 0),
     rest |-> <<>>]
====
