----------------------------- MODULE RecordShape -----------------------------
(***************************************************************************)
(* How kit reads a record type by reflection, twice: the renderer plans    *)
(* its columns (kit/render/render.go), and the framework looks for its     *)
(* id, its links and its schema (kit/reflectx.go).  A type is a sequence   *)
(* of fields; an embedded field holds a sequence of plain ones.  Where the *)
(* two walks meet an embedded struct they must agree on what the record    *)
(* has.                                                                    *)
(***************************************************************************)
EXTENDS Integers, Sequences, SequencesExt

CONSTANTS Keys,     \* the names of fields; table and json name agree
          IdKey,    \* the json name "id"
          UrlKey,   \* the column name "url"
          Shapes    \* the record types

(* Gone is json:"-", hidden table:"-", isUrl the url option, isId kit:"id"; *)
(* named tells an embedded struct with a name of its own.                  *)
Plain == [key : Keys, exported : BOOLEAN, gone : BOOLEAN, hidden : BOOLEAN,
          isUrl : BOOLEAN, isId : BOOLEAN]

Field == [key : Keys, exported : BOOLEAN, gone : BOOLEAN, hidden : BOOLEAN, isUrl : BOOLEAN,
          isId : BOOLEAN, embed : {"no", "value", "pointer"}, named : BOOLEAN, sub : Seq(Plain)]

ASSUME ShapeAssumption ==
    /\ {IdKey, UrlKey} \subseteq Keys
    /\ \A t \in Shapes : t \in Seq(Field) /\ \A i \in DOMAIN t : t[i].embed = "no" => t[i].sub = <<>>

(* What a loop that appends under a condition leaves: SelectSeq as one flattening. *)
Those(s, P(_)) == FlattenSeq([i \in DOMAIN s |-> IF P(s[i]) THEN <<s[i]>> ELSE <<>>])

FirstIn(s, P(_)) == IF \E i \in DOMAIN s : P(s[i])
                    THEN s[CHOOSE i \in DOMAIN s : P(s[i]) /\ \A j \in 1..(i - 1) : ~P(s[j])]
                    ELSE [name |-> UrlKey, at |-> <<>>]
----------------------------------------------------------------------------
(* A slip: what an unexported struct embeds stays out of reach. *)
SpreadsExported(f) == f.embed # "no" /\ f.exported /\ ~f.named

(* render.collect: depth first, one column per exported field; an embedded *)
(* struct without a name spreads, and so does an unexported one.           *)
Spreads(f) == f.embed # "no" /\ (~f.exported \/ ~f.named)

ColumnOf(f, at, hide) ==
    IF ~f.exported \/ f.gone THEN <<>>
    ELSE <<[name |-> f.key, at |-> at, hide |-> hide \/ f.hidden, url |-> f.isUrl]>>

(* A field without a json name is dropped with all that it embeds. *)
Collected(f, i) ==
    IF ~Spreads(f) THEN ColumnOf(f, <<i>>, FALSE)
    ELSE IF f.gone THEN <<>>
    ELSE FlattenSeq([j \in DOMAIN f.sub |-> ColumnOf(f.sub[j], <<i, j>>, f.hidden)])

Collect(t) == FlattenSeq([i \in DOMAIN t |-> Collected(t[i], i)])

(* The url column: the first that is hidden but marked url, even one       *)
(* without a json name, else the first shown column marked url.            *)
HiddenUrls(t) ==
    LET Marked(f, at) == IF f.hidden /\ f.isUrl /\ f.exported
                         THEN <<[name |-> UrlKey, at |-> at]>> ELSE <<>>
        Under(f, i) == IF Spreads(f) /\ ~f.gone
                       THEN FlattenSeq([j \in DOMAIN f.sub |-> Marked(f.sub[j], <<i, j>>)])
                       ELSE <<>>
    IN  FlattenSeq([i \in DOMAIN t |-> Marked(t[i], <<i>>) \o Under(t[i], i)])

Plan(t) == LET all == Collect(t)
               Slim(s) == [i \in DOMAIN s |-> [name |-> s[i].name, at |-> s[i].at]]
           IN  [cols |-> Slim(Those(all, LAMBDA c : ~c.hide)),
                hidden |-> Slim(Those(all, LAMBDA c : c.hide)),
                url |-> IF HiddenUrls(t) # <<>> THEN Head(HiddenUrls(t)).at
                        ELSE FirstIn(Those(all, LAMBDA c : ~c.hide), LAMBDA c : c.url).at]

(* pick by name: the map is filled with the hidden fields, then the shown; *)
(* the last entry stands, and a name the type lacks is an empty column.    *)
ByName(p, n) ==
    LET Named(s) == Those(s, LAMBDA c : c.name = n)
        found == Named(p.hidden) \o Named(p.cols)
    IN  IF found = <<>> THEN [name |-> n, at |-> <<>>] ELSE Last(found)

Pick(p, fields) == IF fields = <<>> THEN p.cols
                   ELSE [i \in DOMAIN fields |-> ByName(p, fields[i])]

(* emitURL: the url column, else a shown one of that very name. *)
UrlAt(t) == IF Plan(t).url # <<>> THEN Plan(t).url
            ELSE FirstIn(Plan(t).cols, LAMBDA c : c.name = UrlKey).at
----------------------------------------------------------------------------
(* reflectx.fields: breadth first, through embedded values only, a name    *)
(* met before shadows.                                                     *)
Declared(t) == Those([i \in DOMAIN t |-> [f |-> t[i], at |-> <<i>>]],
                         LAMBDA e : e.f.embed # "value")
Promoted(t) == FlattenSeq([i \in DOMAIN t |->
                   IF t[i].embed = "value"
                   THEN [j \in DOMAIN t[i].sub |-> [f |-> t[i].sub[j], at |-> <<i, j>>]]
                   ELSE <<>>])

Fields(t) == LET all == Declared(t) \o Promoted(t)
                 idx == Those([k \in DOMAIN all |-> k],
                                  LAMBDA k : \A m \in 1..(k - 1) : all[m].f.key # all[k].f.key)
             IN  [k \in DOMAIN idx |-> all[idx[k]]]

(* idFieldIndex: the first field tagged kit:"id", else json name "id". *)
IdAt(t) ==
    LET tagged == Those(Fields(t), LAMBDA e : e.f.isId)
        json == Those(Fields(t), LAMBDA e : e.f.key = IdKey /\ ~e.f.gone)
    IN  IF tagged # <<>> THEN Head(tagged).at ELSE IF json # <<>> THEN Head(json).at ELSE <<>>
=============================================================================
