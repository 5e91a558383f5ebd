---- MODULE Binding ----
(***************************************************************************)
(* From one logical call to the typed input of a handler: how each surface *)
(* writes the call down (the command line, an HTTP path, an HTTP query, a  *)
(* tools/call object) and how op.bind reads it back. A word stands for     *)
(* one value; what the conversions can tell apart about it is in the       *)
(* constants. A number is the word strconv.Itoa prints: other spellings of *)
(* it (+7, 007) are no words of the model. A value is a sequence of words: *)
(* the empty one is the zero value, a scalar has one word.                 *)
(***************************************************************************)
EXTENDS Naturals, Sequences, FiniteSets, SequencesExt

CONSTANTS
    Words,      \* every value a parameter can be given
    Segments,   \* strings.Split(strings.Trim(w, "/"), "/") of a word in a path: none of the
                \* empty word, and never "." or "..", which http.ServeMux redirects away
    Commas,     \* splitList(w): the parts between commas
    Numerals,   \* the words strconv.ParseInt accepts in base 10
    FlagInt,    \* the number pflag reads a word as: it takes any base, so 0x10 is 16
    Numbers,    \* the words that are a JSON number: 7, 7.5, 1e30
    Sprinted,   \* fmt.Sprint of the float64 a JSON number is decoded to
    Converted,  \* the integer reflect.Convert makes of it: 7.5 is 7, above 2^53 it is rounded
    Bracketed   \* fmt.Sprint of a list, whatever its elements

EmptyWord == ""

ASSUME WordsAssumption ==
    /\ Words \subseteq STRING /\ Numerals \subseteq Words \ {EmptyWord} /\ Bracketed \in Words
    /\ Segments \in [Words -> Seq(Words)] /\ Commas \in [Words -> Seq(Words)]
    /\ FlagInt \in [DOMAIN FlagInt -> Numerals] /\ DOMAIN FlagInt \subseteq Words
    /\ \A w \in Numerals : w \in DOMAIN FlagInt /\ FlagInt[w] = w
    /\ Numbers \subseteq Words
    /\ Sprinted \in [Numbers -> Words \ {EmptyWord}] /\ Converted \in [Numbers -> Numerals]

(***************************************************************************)
(* reflectIn and parseBind: the parameters of an operation, from the       *)
(* fields of its In struct: [name, head, renamed, options, go, def,        *)
(* exported, tagged]; head is the first word of the kit tag. A field the   *)
(* tag does not call arg or inject is a flag. Meta.Args is a list of its   *)
(* own, [name, variadic, optional]: nothing derives it from the struct.    *)
(***************************************************************************)
ParamType(go) == CASE go = "[]string" -> "slice" [] go = "int" -> "int" [] OTHER -> "string"

SpecOf(f) ==
    [name |-> IF f.renamed = EmptyWord THEN f.name ELSE f.renamed,
     kind |-> IF f.head \in {"arg", "inject"} THEN f.head ELSE "flag",
     type |-> IF f.head = "inject" THEN f.go ELSE ParamType(f.go),
     variadic |-> "variadic" \in f.options, inherit |-> "inherit" \in f.options,
     def |-> f.def]

ReflectIn(fields) ==
    LET bound == {i \in DOMAIN fields : fields[i].exported /\ fields[i].tagged}
        Nth(k) == CHOOSE i \in bound : Cardinality({j \in bound : j <= i}) = k
    IN  [k \in 1..Cardinality(bound) |-> SpecOf(fields[Nth(k)])]

ArgsOf(ps) == {k \in DOMAIN ps : ps[k].kind = "arg"}
Absent == [form |-> "none", words |-> <<>>]
Text(w) == [form |-> "string", words |-> <<w>>]
List(ws) == [form |-> "list", words |-> ws]
Typed(w) == [form |-> "int", words |-> <<w>>]      \* an int pflag has read
Json(w) == [form |-> "number", words |-> <<w>>]    \* the float64 of a JSON number

(***************************************************************************)
(* op.bind.                                                                *)
(***************************************************************************)
Good(v) == [ok |-> TRUE, v |-> v]
Bad == [ok |-> FALSE, v |-> <<>>]

\* The empty word is the zero value of a string.
Scalar(w) == IF w = EmptyWord THEN <<>> ELSE <<w>>

FromString(type, w) ==
    IF type = "slice" THEN Good(Commas[w])
    ELSE IF type = "int" /\ w \notin Numerals THEN Bad ELSE Good(Scalar(w))

SetSlice(type, ws) ==
    IF type = "slice" THEN Good(ws)
    ELSE IF ws = <<>> THEN Good(<<>>) ELSE FromString(type, ws[1])

SetAny(type, raw) ==
    CASE type = "slice" /\ raw.form = "list"  -> Good(raw.words)
      [] raw.form = "string"                  -> FromString(type, raw.words[1])
      [] raw.form = "int" /\ type = "int"     -> Good(raw.words)
      [] raw.form = "number" /\ type = "int"  -> Good(<<Converted[raw.words[1]]>>)
      [] raw.form = "number" /\ type # "int"  -> FromString(type, Sprinted[raw.words[1]])
      [] OTHER                                -> Bad

\* Slip: a named variadic argument is split on commas, as a slice flag is.
NamedListSplits(raw) == IF raw.form = "string" THEN Commas[raw.words[1]] ELSE raw.words

NamedList(raw) ==
    CASE raw = Text(EmptyWord) -> <<>>
      [] raw.form = "number"   -> <<Sprinted[raw.words[1]]>>
      [] OTHER                 -> raw.words

\* Slip: every bound field moves the cursor.
CursorOfFields(ps, k, args) ==
    IF \E j \in ArgsOf(ps) : j < k /\ ps[j].variadic THEN Len(args) ELSE k - 1

\* Where the positional cursor stands when it reaches parameter k.
Cursor(ps, k, args) ==
    LET before == {j \in ArgsOf(ps) : j < k}
    IN  IF \E j \in before : ps[j].variadic THEN Len(args) ELSE Cardinality(before)

\* An argument no positional word is left for is looked up by name, where a number is not read.
BindArg(ps, k, in) ==
    LET at == Cursor(ps, k, in.args)
        rest == SubSeq(in.args, at + 1, Len(in.args))
        named == in.flags[k]
    IN  IF ps[k].variadic
        THEN SetSlice(ps[k].type, IF rest = <<>> THEN NamedList(named) ELSE rest)
        ELSE IF at < Len(in.args) THEN FromString(ps[k].type, in.args[at + 1])
        ELSE IF named.form = "string" /\ named.words # <<EmptyWord>>
             THEN FromString(ps[k].type, named.words[1]) ELSE Good(<<>>)

Default(p) == IF p.def = EmptyWord THEN Good(<<>>) ELSE FromString(p.type, p.def)

BindFlag(p, raw, limit) ==
    IF p.inherit THEN Good(IF p.name = "limit" THEN limit ELSE <<>>)
    ELSE IF raw = Absent THEN Default(p) ELSE SetAny(p.type, raw)

\* The client fills a field it is assignable to, and the store what is left.
Inject(p, handles) ==
    IF "client" \in handles /\ p.type \in {"client", "any"} THEN Good(<<"client">>)
    ELSE IF "store" \in handles /\ p.type \in {"store", "any"} THEN Good(<<"store">>)
    ELSE Good(<<>>)

BindOne(ps, k, in, rt) ==
    CASE ps[k].kind = "arg"    -> BindArg(ps, k, in)
      [] ps[k].kind = "flag"   -> BindFlag(ps[k], in.flags[k], rt.limit)
      [] ps[k].kind = "inject" -> Inject(ps[k], rt.handles)

Failure == [ok |-> FALSE, vals |-> <<>>]
BindAll(ps, in, rt) ==
    LET got == [k \in DOMAIN ps |-> BindOne(ps, k, in, rt)]
    IN  IF \E k \in DOMAIN ps : ~got[k].ok THEN Failure
        ELSE [ok |-> TRUE, vals |-> [k \in DOMAIN ps |-> got[k].v]]

(***************************************************************************)
(* The surfaces. given[k] is what the caller means for parameter k: <<>>   *)
(* to leave it out. inputs are records of positional words and, for each   *)
(* parameter, the raw value found under its name.                          *)
(***************************************************************************)
Flat(ps, given, part) ==
    FlattenSeq([k \in DOMAIN ps |->
        IF k \in ArgsOf(ps) THEN FlattenSeq([i \in DOMAIN given[k] |-> part[given[k][i]]])
        ELSE <<>>])
Whole == [w \in Words |-> <<w>>]

FlagsBy(ps, given, Raw(_, _)) ==
    [k \in DOMAIN ps |-> IF ps[k].kind # "flag" \/ given[k] = <<>> THEN Absent
                         ELSE Raw(ps[k], given[k])]

\* registerFlag and collectFlags: a flag left out still shows its registered default.
CliRaw(p, v) ==
    CASE p.type = "slice" -> List(FlattenSeq([i \in DOMAIN v |-> Commas[v[i]]]))
      [] p.type = "int" /\ v[1] \in DOMAIN FlagInt -> Typed(FlagInt[v[1]])
      [] OTHER -> Text(v[1])
Shown(p, given) == IF given = <<>> /\ p.kind = "flag" /\ p.def # EmptyWord THEN <<p.def>> ELSE given
CliFlags(ps, given) == FlagsBy(ps, [k \in DOMAIN ps |-> Shown(ps[k], given[k])], CliRaw)
CliWords(ps, given) == Flat(ps, given, Whole)

\* argsValidator counts the words against Meta.Args and looks at nothing else.
Admits(decl, n) ==
    /\ n >= Cardinality({i \in DOMAIN decl : ~decl[i].optional /\ ~decl[i].variadic})
    /\ n > Len(decl) => \E i \in DOMAIN decl : decl[i].variadic

QueryRaw(p, v) == IF Len(v) = 1 THEN Text(v[1]) ELSE List(v)
PathWords(ps, given) == Flat(ps, given, Segments)
PathFlags(ps, given) == FlagsBy(ps, given, QueryRaw)
QueryFlags(ps, given) ==
    [k \in DOMAIN ps |-> IF ps[k].kind = "inject" \/ given[k] = <<>> THEN Absent
                         ELSE QueryRaw(ps[k], given[k])]

\* The JSON value an agent sends; bare is a lone string where the schema has an array.
JsonRaw(p, v, bare) ==
    IF p.type = "slice" THEN IF bare /\ Len(v) = 1 THEN Text(v[1]) ELSE List(v)
    ELSE IF p.type = "int" /\ v[1] \in Numbers THEN Json(v[1]) ELSE Text(v[1])

\* mcpInput: what the object holds under a name of Meta.Args becomes positional, in the order
\* of Meta.Args, and leaves the flags. Any other value stays a flag, an argument's too.
ToStringSlice(raw) ==
    CASE raw.form = "string" -> Commas[raw.words[1]]
      [] raw.form = "number" -> <<Sprinted[raw.words[1]]>>
      [] OTHER               -> raw.words
McpWord(variadic, raw) ==
    IF variadic THEN ToStringSlice(raw)
    ELSE CASE raw.form = "number" -> <<Sprinted[raw.words[1]]>>
           [] raw.form = "list"   -> <<Bracketed>>
           [] OTHER               -> raw.words
Named(ps, given, name) == {k \in DOMAIN ps : ps[k].name = name /\ given[k] # <<>>}
McpPositional(ps, decl, given, bare) ==
    FlattenSeq([i \in DOMAIN decl |->
        LET named == Named(ps, given, decl[i].name)
            k == CHOOSE k \in named : TRUE
        IN  IF named = {} THEN <<>> ELSE McpWord(decl[i].variadic, JsonRaw(ps[k], given[k], bare))])
McpFlags(ps, decl, given, bare) ==
    [k \in DOMAIN ps |->
        IF given[k] = <<>> \/ \E i \in DOMAIN decl : decl[i].name = ps[k].name THEN Absent
        ELSE JsonRaw(ps[k], given[k], bare)]

\* InputSchema's "required": the parameters a valid arguments object must hold.
SchemaRequires(ps) == {k \in ArgsOf(ps) : ~ps[k].variadic}

(***************************************************************************)
(* What the caller meant, and the calls each way of writing it can carry.  *)
(***************************************************************************)
Intended(ps, given, rt) ==
    [k \in DOMAIN ps |->
        CASE ps[k].kind = "inject" -> Inject(ps[k], rt.handles).v
          [] ps[k].kind = "flag" /\ ps[k].inherit -> IF ps[k].name = "limit" THEN rt.limit ELSE <<>>
          [] OTHER -> IF given[k] = <<>> THEN IF ps[k].kind = "flag" THEN Default(ps[k]).v ELSE <<>>
                      ELSE IF ps[k].type = "slice" THEN given[k] ELSE Scalar(given[k][1])]

\* What a call may give: one word but for a list, and nothing to a field kit fills itself.
Fits(ps, given) ==
    /\ given \in [DOMAIN ps -> Seq(Words)]
    /\ \A k \in DOMAIN ps :
          /\ ps[k].type # "slice" => Len(given[k]) <= 1
          /\ ps[k].kind = "inject" \/ (ps[k].kind = "flag" /\ ps[k].inherit) => given[k] = <<>>

\* The structs kit's documentation describes: each parameter has a name of its own, a list is
\* an argument when it is variadic, which only the last argument is, and the default of a
\* number is one.
Conventional(ps) ==
    /\ \A j, k \in DOMAIN ps : ps[j].name = ps[k].name => j = k
    /\ \A k \in ArgsOf(ps) : /\ ps[k].variadic <=> ps[k].type = "slice"
                             /\ ps[k].variadic => \A j \in ArgsOf(ps) : j <= k
    /\ \A k \in DOMAIN ps :
          ps[k].type = "int" /\ ps[k].def # EmptyWord => ps[k].def \in Numerals

\* Meta.Args as its comment wants it: "names line up with In arg fields" (op.go:21).
LinesUp(ps, decl) ==
    /\ Len(decl) = Cardinality(ArgsOf(ps))
    /\ \A k \in ArgsOf(ps) :
          LET i == Cardinality({j \in ArgsOf(ps) : j <= k})
          IN  decl[i].name = ps[k].name /\ decl[i].variadic = ps[k].variadic

\* The forms in which arguments have no place and are read by name: a query, and the object
\* of a tool whose operation declares no Args.
ByName(form, decl) == form = "query" \/ (form \in {"tool", "bare"} /\ decl = <<>>)

\* What a form says of a number: pflag reads it in any base, a JSON number for a flag is
\* converted, and for an argument printed.
Said(form, p, w) ==
    CASE p.type = "int" /\ form = "cli" /\ p.kind = "flag" /\ w \in DOMAIN FlagInt -> FlagInt[w]
      [] p.type = "int" /\ form \in {"tool", "bare"} /\ w \in Numbers ->
             IF p.kind = "arg" THEN Sprinted[w] ELSE Converted[w]
      [] OTHER -> w
Heard(form, ps, given) ==
    [k \in DOMAIN ps |-> IF ps[k].type = "int" /\ given[k] # <<>>
                         THEN <<Said(form, ps[k], given[k][1])>> ELSE given[k]]

Gap(ps, given) ==
    \E j, k \in ArgsOf(ps) : j < k /\ given[j] = <<>> /\ given[k] # <<>>
Slashed(ps, given) ==
    \E k \in ArgsOf(ps) : \E i \in DOMAIN given[k] : Segments[given[k][i]] # <<given[k][i]>>
Comma(ps, given, kind) ==
    \E k \in DOMAIN ps : /\ ps[k].kind = kind /\ ps[k].type = "slice"
                         /\ \E i \in DOMAIN given[k] : Commas[given[k][i]] # <<given[k][i]>>
Blank(ps, given) == \E k \in ArgsOf(ps) : EmptyWord \in ToSet(given[k])
Dropped(ps, given) ==
    \E k \in ArgsOf(ps) : ps[k].type = "int" /\ given[k] # <<>> /\ given[k][1] \in Numbers
Mistyped(ps, given) ==
    \E k \in DOMAIN ps : ps[k].type = "int" /\ ToSet(given[k]) \notin SUBSET Numerals

\* The calls in which a form lets words go astray: one too few moves the later ones up, a
\* slash makes two of one, a blank is nothing, and a number under a name is not read.
Strays(form, ps, decl, given) ==
    \/ ~ByName(form, decl) /\ Gap(ps, given)
    \/ form = "path" /\ Slashed(ps, given)
    \/ ByName(form, decl) /\ Blank(ps, given)
    \/ ByName(form, decl) /\ form # "query" /\ Dropped(ps, given)

\* The calls a form cannot carry as they were meant: a comma may split a word, too.
Hard(form, ps, decl, given) ==
    \/ Strays(form, ps, decl, given)
    \/ form # "tool" /\ Comma(ps, given, "flag")
    \/ form = "bare" /\ Comma(ps, given, "arg")
====
