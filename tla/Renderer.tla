------------------------------ MODULE Renderer ------------------------------
(***************************************************************************)
(* The renderer of the command line (kit/render/render.go, grid.go): one   *)
(* instance takes the records of a run one by one and writes them in the   *)
(* format asked for, some at once, some through a buffer, the grids only   *)
(* when the run ends.  A record is a struct of the run's type, one that    *)
(* encoding/json refuses, an explicit Record with columns of its own, or a *)
(* nil pointer.  Any write may fail, and the caller may go on after an     *)
(* error, as a handler that ignores emit does.                             *)
(***************************************************************************)
EXTENDS RecordShape

CONSTANTS MaxRecords,      \* the records of a run
          Projections,   \* what --fields may ask for
          Explicit       \* the column names of an explicit Record

Formats == {"grid", "list", "delim", "jsonl", "json", "url", "raw", "template", "encoder"}
Kinds == {"struct", "unmarshalable", "explicit", "nil"}

ASSUME RendererAssumption ==
    MaxRecords \in Nat /\ Projections \subseteq Seq(Keys) /\ Explicit \in Seq(Keys)

VARIABLES opt,       \* the format, --no-header, --fields, the record type
          flags,     \* headerDone, jsonOpen, gridSeen: what has been begun
          buffer,    \* the rows of a grid, or what csv.Writer holds back
          sticky,    \* whether the buffer below csv.Writer has failed
          out,       \* the tokens written
          results,   \* what Emit returned for each record
          kinds,     \* the records
          phase,     \* "open", "flushed", or "panicked"
          flushRes,  \* what Flush returned
          lost       \* whether a write has failed

renderVars == <<opt, flags, buffer, sticky, out, results, kinds, phase, flushRes, lost>>

(* A token: a mark, the row of record n, or the header that record n gave, *)
(* with its width.                                                         *)
Mark(k) == [t |-> k, n |-> 0, width |-> 0]
Row(n, w) == [t |-> "row", n |-> n, width |-> w]
Header(n, w) == [t |-> "head", n |-> n, width |-> w]

RendererInit ==
    /\ opt \in [format : Formats, header : BOOLEAN, fields : Projections, shape : Shapes]
    /\ flags = [headerDone |-> FALSE, jsonOpen |-> FALSE, gridSeen |-> FALSE]
    /\ buffer = <<>> /\ sticky = FALSE
    /\ out = <<>> /\ results = <<>> /\ kinds = <<>>
    /\ phase = "open" /\ flushRes = "none" /\ lost = FALSE
----------------------------------------------------------------------------
(* A slip: a Record keeps its own columns. *)
ColumnsUnprojected(k) ==
    CASE k = "nil"      -> <<>>
      [] k = "explicit" -> Explicit
      [] OTHER          -> LET cols == Pick(Plan(opt.shape), opt.fields)
                           IN  [i \in DOMAIN cols |-> cols[i].name]

(* columns and project: a projection fixes the columns, known or not; a    *)
(* nil record has none.                                                    *)
Columns(k) ==
    CASE k = "nil"      -> <<>>
      [] k = "explicit" -> IF opt.fields = <<>> THEN Explicit ELSE opt.fields
      [] OTHER          -> LET cols == Pick(Plan(opt.shape), opt.fields)
                           IN  [i \in DOMAIN cols |-> cols[i].name]

Width(k) == Len(Columns(k))
This == Len(kinds) + 1   \* the number of the record at hand
Marshals(k) == k # "unmarshalable"

Returns(k, res) == /\ kinds' = Append(kinds, k)
                   /\ results' = Append(results, res)
                   /\ UNCHANGED <<opt, phase, flushRes>>

(* The writes of one Emit happen in order, and any of them may fail. *)
Writes(tokens, m) == /\ m \in 0..Len(tokens)
                     /\ out' = out \o SubSeq(tokens, 1, m)
                     /\ lost' = (lost \/ m < Len(tokens))

(* list, jsonl, raw, template: one write a record.  A list entry without   *)
(* columns and a url that is not there are no write at all.                *)
Streamed(k, ok) ==
    /\ Writes(<<Row(This, Width(k))>>, IF ok THEN 1 ELSE 0)
    /\ Returns(k, IF ok THEN "ok" ELSE "error")
    /\ UNCHANGED <<flags, buffer, sticky>>

Silent(k, res) == Returns(k, res) /\ UNCHANGED <<flags, buffer, sticky, out, lost>>

(* A nil record breaks emitURL, that does not look for it. *)
Panics(k) == /\ kinds' = Append(kinds, k)
             /\ results' = Append(results, "panic")
             /\ phase' = "panicked"
             /\ UNCHANGED <<opt, flags, buffer, sticky, out, flushRes, lost>>

(* A template goes out in pieces: one that fails midway leaves a part.     *)
Torn(k) == /\ Writes(<<Mark("part"), Row(This, Width(k))>>, 1)
           /\ Returns(k, "error")
           /\ UNCHANGED <<flags, buffer, sticky>>

EmitPlain(k) ==
    /\ opt.format \in {"jsonl", "raw", "template"}
    /\ IF Marshals(k) \/ opt.format = "template"
       THEN \E ok \in BOOLEAN : Streamed(k, ok)
       ELSE Silent(k, "error")

EmitTemplate(k) == opt.format = "template" /\ Torn(k)

EmitList(k) ==
    /\ opt.format = "list"
    /\ IF Width(k) = 0 THEN Silent(k, "ok")
       ELSE \E ok \in BOOLEAN : Streamed(k, ok)

EmitURL(k) ==
    /\ opt.format = "url"
    /\ CASE k = "explicit" -> IF \E i \in DOMAIN Explicit : Explicit[i] = UrlKey
                              THEN \E ok \in BOOLEAN : Streamed(k, ok) ELSE Silent(k, "ok")
         [] k # "explicit" /\ UrlAt(opt.shape) = <<>> -> Silent(k, "ok")
         [] k = "nil" /\ UrlAt(opt.shape) # <<>> -> Panics(k)
         [] OTHER -> Silent(k, "ok") \/ \E ok \in BOOLEAN : Streamed(k, ok)

(* A slip: that the array was opened is not remembered. *)
EmitJSONReopens(k) ==
    /\ opt.format = "json"
    /\ LET tokens == <<Mark("[")>> \o (IF Marshals(k) THEN <<Row(This, 0)>> ELSE <<>>)
       IN  \E m \in 0..Len(tokens) :
               /\ Writes(tokens, m)
               /\ Returns(k, IF Marshals(k) /\ m = Len(tokens) THEN "ok" ELSE "error")
    /\ UNCHANGED <<flags, buffer, sticky>>

(* The bracket or the comma goes out before the record is marshalled, and  *)
(* stays when that fails.                                                  *)
EmitJSON(k) ==
    /\ opt.format = "json"
    /\ LET mark == IF flags.jsonOpen THEN Mark("comma") ELSE Mark("[")
           tokens == <<mark>> \o (IF Marshals(k) THEN <<Row(This, 0)>> ELSE <<>>)
       IN  \E m \in 0..Len(tokens) :
               /\ Writes(tokens, m)
               /\ flags' = [flags EXCEPT !.jsonOpen = @ \/ m > 0]
               /\ Returns(k, IF Marshals(k) /\ m = Len(tokens) THEN "ok" ELSE "error")
    /\ UNCHANGED <<buffer, sticky>>

(* csv.Writer buffers: a row that fits is accepted and may push out what   *)
(* the buffer holds; once that fails every later write fails too.          *)
EmitDelim(k) ==
    /\ opt.format = "delim"
    /\ LET heads == ~flags.headerDone /\ opt.header
           head == IF heads THEN <<Header(This, Width(k))>> ELSE <<>>
           held == Append(buffer \o head, Row(This, Width(k)))
           Spills(s) == \E m \in 0..Len(s) : /\ out' = out \o SubSeq(s, 1, m)
                                              /\ buffer' = SubSeq(s, m + 1, Len(s))
       IN  \/ /\ ~sticky /\ Spills(held)
              /\ flags' = [flags EXCEPT !.headerDone = @ \/ heads]
              /\ Returns(k, "ok")
              /\ UNCHANGED <<sticky, lost>>
           \/ /\ IF sticky THEN UNCHANGED <<out, buffer>> ELSE Spills(buffer)
              /\ sticky' = TRUE /\ lost' = TRUE
              /\ Returns(k, "error")
              /\ UNCHANGED flags

EmitGrid(k) ==
    /\ opt.format = "grid"
    /\ buffer' = IF flags.gridSeen THEN Append(buffer, Row(This, Width(k)))
                 ELSE <<Header(This, Width(k)), Row(This, Width(k))>>
    /\ flags' = [flags EXCEPT !.gridSeen = TRUE]
    /\ Returns(k, "ok")
    /\ UNCHANGED <<sticky, out, lost>>

(* A registered encoder decides for itself what it writes and when. *)
EmitEncoded(k) == /\ opt.format = "encoder"
                  /\ \E res \in {"ok", "error"} : Silent(k, res)

EmitRecord(k) ==
    /\ phase = "open" /\ Len(kinds) < MaxRecords
    /\ \/ EmitPlain(k) \/ EmitTemplate(k) \/ EmitList(k) \/ EmitURL(k) \/ EmitJSON(k)
       \/ EmitDelim(k) \/ EmitGrid(k) \/ EmitEncoded(k)
----------------------------------------------------------------------------
FlushWrites(tokens) ==
    \E m \in 0..Len(tokens) : /\ Writes(tokens, m)
                              /\ flushRes' = IF m = Len(tokens) THEN "ok" ELSE "error"

(* The lines of a grid: its header comes first, unless --no-header.        *)
Drawn == IF opt.header \/ buffer = <<>> THEN buffer ELSE Tail(buffer)

(* A slip: the error of csv.Writer is not asked for. *)
FlushUnasked ==
    /\ phase = "open" /\ phase' = "flushed"
    /\ CASE opt.format = "grid" ->
              FlushWrites(Drawn)
         [] opt.format = "json" ->
              FlushWrites(IF flags.jsonOpen THEN <<Mark("]")>> ELSE <<Mark("[]")>>)
         [] OTHER -> flushRes' = "ok" /\ UNCHANGED <<out, lost>>
    /\ buffer' = <<>>
    /\ UNCHANGED <<opt, flags, sticky, results, kinds>>

(* Flush: a grid is drawn, csv.Writer empties its buffer and tells whether *)
(* any write of the run failed, a JSON array is closed.                    *)
FlushRun ==
    /\ phase = "open" /\ phase' = "flushed"
    /\ CASE opt.format = "grid" ->
              FlushWrites(Drawn)
         [] opt.format = "json" ->
              FlushWrites(IF flags.jsonOpen THEN <<Mark("]")>> ELSE <<Mark("[]")>>)
         [] opt.format = "delim" /\ ~sticky -> FlushWrites(buffer)
         [] opt.format = "delim" /\ sticky -> flushRes' = "error" /\ UNCHANGED <<out, lost>>
         [] opt.format = "encoder" -> flushRes' \in {"ok", "error"} /\ UNCHANGED <<out, lost>>
         [] OTHER -> flushRes' = "ok" /\ UNCHANGED <<out, lost>>
    /\ buffer' = <<>>
    /\ UNCHANGED <<opt, flags, sticky, results, kinds>>

RendererNext == FlushRun \/ \E k \in Kinds : EmitRecord(k)

RendererSpec == RendererInit /\ [][RendererNext]_renderVars
----------------------------------------------------------------------------
RendererTypeOK ==
    /\ phase \in {"open", "flushed", "panicked"} /\ flushRes \in {"none", "ok", "error"}
    /\ kinds \in Seq(Kinds) /\ Len(results) = Len(kinds)
    /\ Len(kinds) <= MaxRecords
    /\ opt.format \notin {"grid", "delim"} => buffer = <<>>

(* The records a caller believes to be rendered, those of the url and list *)
(* formats that have nothing to show left out.                             *)
Shown(i) == /\ results[i] = "ok"
            /\ opt.format = "list" => Width(kinds[i]) # 0
Accepted == {i \in DOMAIN kinds : Shown(i)}

(* The rows that are out are those of records S, in order and each once.   *)
Rows == {i \in DOMAIN out : out[i].t = "row"}
Written(S) == /\ {out[i].n : i \in Rows} = S
              /\ \A i, j \in Rows : i < j => out[i].n < out[j].n

(* A format that streams has written a record by the time Emit accepts it, *)
(* and only then; a grid writes nothing before the end; and where Flush    *)
(* says ok, a buffered format has written every accepted record in order.  *)
AcceptedIsWritten ==
    /\ opt.format \in {"list", "jsonl", "json", "raw", "template"} => Written(Accepted)
    /\ opt.format = "grid" /\ phase = "open" => out = <<>>
    /\ opt.format \in {"grid", "delim"} /\ flushRes = "ok" => Written(Accepted)

(* However the handler behaves, if every record could be marshalled and no *)
(* write failed, what -o json leaves on standard output is one array of    *)
(* the records, even when there is none.                                   *)
ArrayOf(n) ==
    IF n = 0 THEN <<Mark("[]")>>
    ELSE [i \in 1..(2 * n + 1) |->
             CASE i = 1 -> Mark("[")
               [] i = 2 * n + 1 -> Mark("]")
               [] i # 1 /\ i % 2 = 0 -> Row(i \div 2, 0)
               [] OTHER -> Mark("comma")]
JsonIsOneArray ==
    opt.format = "json" /\ phase = "flushed" /\ ~lost /\ (\A i \in DOMAIN kinds : Marshals(kinds[i]))
        => out = ArrayOf(Len(kinds))

(* A csv or a grid has its header once, before the first row, or not at    *)
(* all under --no-header, also when some records were refused.             *)
HeaderOnce ==
    /\ \A i \in DOMAIN out : out[i].t = "head" => i = 1 /\ opt.header
    /\ opt.format \in {"delim", "grid"} /\ opt.header /\ Rows # {} => out[1].t = "head"

(* In the formats that lay records out in columns --fields fixes the shape *)
(* of the whole output: whatever records a run mixes, the rows and the     *)
(* header have one cell a name.  Nil records alone fall out: their rows    *)
(* are empty, and a header is when the record that gave it was nil, above  *)
(* rows that are not.                                                      *)
Tabular == {"grid", "list", "delim"}
Projected(o, k, w) == o.fields # <<>> /\ o.format \in Tabular =>
                          w = IF k = "nil" THEN 0 ELSE Len(o.fields)
ProjectionAligns ==
    \A e \in Range(out) \union Range(buffer) :
        e.t \in {"row", "head"} => /\ e.n \in DOMAIN kinds
                                  /\ Projected(opt, kinds[e.n], e.width)

(* Where a type promotes fields through plain embedding, every exported    *)
(* field that the schema, the tee and the URIs go by is a column that      *)
(* -o table or --fields can show, and a column more is one that they do    *)
(* not see, since a field no deeper bears its name.  Where no name occurs  *)
(* twice there is none more, and --fields id shows the key the store files *)
(* the record under.                                                       *)
PlainlyEmbeds(t) == \A i \in DOMAIN t : t[i].embed # "no" =>
                        t[i].embed = "value" /\ ~t[i].named /\ ~t[i].gone
NamesTell(t) == \A a, b \in Range(Declared(t)) \union Range(Promoted(t)) : a.f.key = b.f.key => a = b
WalksAgree == PlainlyEmbeds(opt.shape) =>
    LET p == Plan(opt.shape)
        cols == Range(p.cols) \union Range(p.hidden)
        read == Range(Fields(opt.shape))
        seen == {e \in read : e.f.exported /\ ~e.f.gone}
    IN  /\ \A e \in seen : [name |-> e.f.key, at |-> e.at] \in cols
        /\ \A c \in cols :
               \/ \E e \in seen : c = [name |-> e.f.key, at |-> e.at]
               \/ \E e \in read : e.f.key = c.name /\ e.at # c.at /\ Len(e.at) <= Len(c.at)
        /\ NamesTell(opt.shape) =>
               /\ Len(p.cols) + Len(p.hidden) = Cardinality(seen)
               /\ \A e \in seen : e.f.key = IdKey /\ e.at = IdAt(opt.shape) =>
                      ByName(p, IdKey).at = e.at

(* A shown column stands for its name even if a hidden field has it too,   *)
(* so asking for a column by name never blanks or hides what the table     *)
(* shows.                                                                  *)
ShownNameIsShown == \A n \in Keys :
    LET p == Plan(opt.shape)
    IN  n \in {c.name : c \in Range(p.cols)} => ByName(p, n) \in Range(p.cols)

(* The state of an encoder and the shape of its lines. *)
RendererInv == RendererTypeOK /\ HeaderOnce /\ ProjectionAligns

(* The two walks over a record type agree on what it shows but for what is *)
(* shadowed, which the renderer shows too, and a name shown is a column of *)
(* that name (render.go:513-676, reflectx.go:34-76).                       *)
ColumnsAgree == WalksAgree /\ ShownNameIsShown
=============================================================================
