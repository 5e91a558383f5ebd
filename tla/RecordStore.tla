---- MODULE RecordStore ----
(***************************************************************************)
(* The record store behind --db: the backends registered by scheme, the    *)
(* DSN that picks one, and the SQLite store that every request of one run  *)
(* shares. A request's tee hands over its records one at a time; Upsert    *)
(* takes the mutex, makes sure of the table, writes the row. The store is  *)
(* closed while requests may still be at work, the process may be killed,  *)
(* and the same command is run again over the same file.                   *)
(***************************************************************************)
EXTENDS Naturals, Sequences, FiniteSets

CONSTANTS
    Calls,     \* concurrent requests of a run (one, for a command line)
    Records,   \* what a handler emits: [type, id, data]; id is "unset" without an id field,
               \* type is the name of its operation's Out, "records" when that is no struct
    StreamOf,  \* the records each call emits, in order
    Schemes,   \* schemes a backend may be registered under
    Dsns,      \* [form, scheme, path]; form is "bare", "colon" or "url"; what stands before
               \* a colon as a single letter is a drive, and the form bare
    Upper,     \* from each upper-case letter to its lower case
    Plain,     \* lower-case letters and digits
    MaxRuns    \* bound: runs over the same file

NoOne == "none"
Gap == "_"

ASSUME StoreAssumption ==
    /\ "sqlite" \in Schemes
    /\ Dsns \subseteq [form : {"bare", "colon", "url"}, scheme : Schemes \cup {""}, path : STRING]
    /\ \A d \in Dsns : d.form = "bare" => d.scheme = ""
    /\ NoOne \notin Calls
    /\ \A c \in Calls : StreamOf[c] \in Seq(Records)
    /\ \A c \in Calls : \A i, j \in DOMAIN StreamOf[c] : StreamOf[c][i].type = StreamOf[c][j].type
    /\ \A r \in Records : r.type \in Seq(STRING)
    /\ \A u \in DOMAIN Upper : Upper[u] \in Plain
    /\ (Plain \cup {Gap, "records"}) \cap DOMAIN Upper = {}
    /\ {Gap, "records"} \cap Plain = {}

VARIABLES
    openers,   \* schemes with a backend
    default,   \* defaultScheme
    db,        \* "none" | "refused" | "open" | "closed"
    opened,    \* what Open resolved: [dsn, scheme, target]
    tables,    \* sqliteStore.tables: the tables this run has made sure of
    disk,      \* the file: from each table to its rows, [key, rec]
    at,        \* from each call to "idle" | "waiting" | "ensuring" | "writing"
    next,      \* from each call to the index of its next record
    holder,    \* the call inside the mutex, or none
    runs

file == <<tables, disk>>
pick == <<openers, default, opened>>
vars == <<openers, default, db, opened, tables, disk, at, next, holder, runs>>

(***************************************************************************)
(* Collection: snake case over the letters of a type name.                 *)
(***************************************************************************)

Snake(acc, c) ==
    CASE c \in DOMAIN Upper ->
            [out |-> (IF acc.out = <<>> \/ acc.under THEN acc.out ELSE Append(acc.out, Gap))
                     \o <<Upper[c]>>, under |-> FALSE]
      [] c \in Plain -> [out |-> Append(acc.out, c), under |-> FALSE]
      [] OTHER -> IF acc.under \/ acc.out = <<>> THEN acc
                  ELSE [out |-> Append(acc.out, Gap), under |-> TRUE]

\* The state of the loop over the letters of a name, after each of them.
Snaked(name) ==
    LET acc[k \in 0..Len(name)] ==
            IF k = 0 THEN [out |-> <<>>, under |-> FALSE] ELSE Snake(acc[k - 1], name[k])
    IN  acc

Trimmed(out) ==
    IF out # <<>> /\ out[Len(out)] = Gap THEN SubSeq(out, 1, Len(out) - 1) ELSE out

\* "records" stands for itself, in one piece.
Collection(name) ==
    LET trimmed == Trimmed(Snaked(name)[Len(name)].out)
    IN  IF trimmed = <<>> THEN <<"records">> ELSE trimmed

\* Its value for each type name, and for each collection, which is normalised once more.
TypeNames == {r.type : r \in Records}
CollectionOf == [n \in TypeNames \cup {Collection(t) : t \in TypeNames} |-> Collection(n)]

(***************************************************************************)
(* Backends and DSNs.                                                      *)
(***************************************************************************)

\* The whole DSN stays the target but for a known scheme before a single colon.
ParseDSN(d) ==
    CASE d.form = "url" -> [dsn |-> d, scheme |-> d.scheme, target |-> d]
      [] d.form = "colon" /\ d.scheme \in openers ->
            [dsn |-> d, scheme |-> d.scheme, target |-> [d EXCEPT !.form = "bare", !.scheme = ""]]
      [] OTHER -> [dsn |-> d, scheme |-> default, target |-> d]

StoreInit ==
    /\ openers = {"sqlite"} /\ default = "sqlite" /\ db = "none"
    /\ opened \in {[dsn |-> d, scheme |-> "", target |-> d] : d \in Dsns}
    /\ tables = {} /\ disk = [t \in {} |-> {}]
    /\ at = [c \in Calls |-> "idle"] /\ next = [c \in Calls |-> 1]
    /\ holder = NoOne /\ runs = 1

\* Registering a scheme twice panics at startup: no run begins.
Register(s) ==
    /\ db = "none" /\ s \notin openers /\ openers' = openers \cup {s}
    /\ UNCHANGED <<default, db, opened, file, at, next, holder, runs>>

SetDefaultScheme(s) ==
    /\ db = "none" /\ default' = s
    /\ UNCHANGED <<openers, db, opened, file, at, next, holder, runs>>

Open ==
    /\ db = "none" /\ opened' = ParseDSN(opened.dsn)
    /\ db' \in IF opened'.scheme \in openers THEN {"open", "refused"} ELSE {"refused"}
    /\ UNCHANGED <<openers, default, file, at, next, holder, runs>>

(***************************************************************************)
(* One Upsert. An error anywhere is returned, and the tee drops it.        *)
(***************************************************************************)
Rec(c) == StreamOf[c][next[c]]
\* The tee fixes the collection when an operation starts: that of its Out, for all records.
Table(c) == CollectionOf[CollectionOf[Rec(c).type]]
Move(c, step) == at' = [at EXCEPT ![c] = step]
Done(c) == Move(c, "idle") /\ next' = [next EXCEPT ![c] = @ + 1] /\ holder' = NoOne

\* A record json.Marshal refuses never gets as far as the store.
Tee(c) ==
    /\ at[c] = "idle" /\ db \in {"open", "closed"} /\ next[c] <= Len(StreamOf[c])
    /\ \/ Move(c, "waiting") /\ UNCHANGED next
       \/ UNCHANGED at /\ next' = [next EXCEPT ![c] = @ + 1]
    /\ UNCHANGED <<pick, db, file, holder, runs>>

\* Slip: the mutex is not taken.
LockNothing(c) ==
    /\ at[c] = "waiting" /\ Move(c, "ensuring") /\ holder' = c
    /\ UNCHANGED <<pick, db, file, next, runs>>

Lock(c) ==
    /\ at[c] = "waiting" /\ holder = NoOne
    /\ Move(c, "ensuring") /\ holder' = c
    /\ UNCHANGED <<pick, db, file, next, runs>>

\* Slip: a failing CREATE TABLE returns with the mutex held.
EnsureFailsLocked(c) ==
    /\ at[c] = "ensuring" /\ Table(c) \notin tables
    /\ Move(c, "idle") /\ next' = [next EXCEPT ![c] = @ + 1] /\ UNCHANGED holder
    /\ UNCHANGED <<pick, db, file, runs>>

EnsureFails(c) ==
    /\ at[c] = "ensuring" /\ Table(c) \notin tables /\ Done(c)
    /\ UNCHANGED <<pick, db, file, runs>>

Rows(t) == IF t \in DOMAIN disk THEN disk[t] ELSE {}
SetRows(t, rows) == disk' = [u \in DOMAIN disk \cup {t} |-> IF u = t THEN rows ELSE disk[u]]

\* Slip: the table is made anew the first time a run needs it.
EnsureAnew(c) ==
    /\ at[c] = "ensuring" /\ (db = "open" \/ Table(c) \in tables)
    /\ Move(c, "writing") /\ tables' = tables \cup {Table(c)}
    /\ IF Table(c) \in tables THEN UNCHANGED disk ELSE SetRows(Table(c), {})
    /\ UNCHANGED <<pick, db, next, holder, runs>>

Ensure(c) ==
    /\ at[c] = "ensuring" /\ (db = "open" \/ Table(c) \in tables)
    /\ Move(c, "writing") /\ tables' = tables \cup {Table(c)}
    /\ IF Table(c) \in tables THEN UNCHANGED disk ELSE SetRows(Table(c), Rows(Table(c)))
    /\ UNCHANGED <<pick, db, next, holder, runs>>

\* INSERT fails: the store is closed, the disk is full, another process holds the file.
InsertFails(c) ==
    /\ at[c] = "writing" /\ Done(c)
    /\ UNCHANGED <<pick, db, file, runs>>

\* An empty id is given a fresh key; any other replaces the row that has it.
ExtractID(rec) == IF rec.id = "unset" THEN "" ELSE rec.id
Fresh(t) == Cardinality(Rows(t)) + 1

\* Slip: a plain INSERT, of a table without a primary key.
InsertAgain(c) ==
    /\ at[c] = "writing" /\ db = "open" /\ Done(c)
    /\ SetRows(Table(c), Rows(Table(c)) \cup {[key |-> ExtractID(Rec(c)), n |-> Fresh(Table(c)), rec |-> Rec(c)]})
    /\ UNCHANGED <<pick, db, tables, runs>>

Insert(c) ==
    /\ at[c] = "writing" /\ db = "open" /\ Done(c)
    /\ LET t == Table(c)
           id == ExtractID(Rec(c))
       IN  IF id = "" THEN SetRows(t, Rows(t) \cup {[key |-> "", n |-> Fresh(t), rec |-> Rec(c)]})
           ELSE SetRows(t, {r \in Rows(t) : r.key # id} \cup {[key |-> id, n |-> 0, rec |-> Rec(c)]})
    /\ UNCHANGED <<pick, db, tables, runs>>

\* PersistentPostRunE closes the store; on a served run the requests may not have ended.
Close == db = "open" /\ db' = "closed" /\ UNCHANGED <<pick, file, at, next, holder, runs>>

\* The process ends, or is killed; the command is run again.
Again ==
    /\ db # "none" /\ runs < MaxRuns /\ runs' = runs + 1
    /\ db' = "none" /\ tables' = {} /\ holder' = NoOne
    /\ at' = [c \in Calls |-> "idle"] /\ next' = [c \in Calls |-> 1]
    /\ UNCHANGED <<pick, disk>>

Upsert(c) == Lock(c) \/ EnsureFails(c) \/ Ensure(c) \/ InsertFails(c) \/ Insert(c)
StoreNext ==
    \/ \E s \in Schemes : Register(s) \/ SetDefaultScheme(s)
    \/ Open \/ Close \/ Again
    \/ \E c \in Calls : Tee(c) \/ Upsert(c)

StoreSpec == StoreInit /\ [][StoreNext]_vars
FairStoreSpec == StoreSpec /\ \A c \in Calls : WF_vars(Upsert(c))

----
StoreTypeOK ==
    /\ openers \subseteq Schemes /\ default \in Schemes
    /\ db \in {"none", "refused", "open", "closed"}
    /\ \A c \in Calls : next[c] \in 1..Len(StreamOf[c]) + 1
    /\ \A t \in DOMAIN disk : \A i \in DOMAIN t : t[i] \in Plain \cup {Gap, "records"}

\* The table cache is a plain map: two requests inside Upsert at once would race on it. The
\* mutex of sqliteStore keeps them apart, which the SPI leaves to the caller (store.go:28-29).
OneInside == Cardinality({c \in Calls : at[c] \in {"ensuring", "writing"}}) <= 1

\* A row is only ever written to a table that exists, in this run or an earlier one.
TablesAreBacked == tables \subseteq DOMAIN disk

\* The tee normalises a type name and the backend normalises it again: every row still
\* stands in the table of its type, or in "records" with those of no struct.
RowsOfTheirType == \A t \in DOMAIN disk : \A r \in disk[t] : CollectionOf[r.rec.type] = t

\* However often the command is run, whatever fails and whoever else writes: a key has one
\* row in its table, and only records without a key pile up.
KeysAreUnique == \A t \in DOMAIN disk : \A r, q \in disk[t] : (r.key = q.key /\ r.key # "") => r = q

\* No row is lost to a failure, a close, a kill or a later run; one with a key may be
\* replaced by a record with the same key.
NothingVanishes == [][\A t \in DOMAIN disk : \A r \in disk[t] :
    t \in DOMAIN disk' /\ \E q \in disk'[t] : q.key = r.key /\ (r.key = "" => q = r)]_vars

\* The backend that is open is registered, and what it was given is what the forms of a DSN
\* say (store.go:11-17, 81-102): a URL goes to the backend it names, whole; a scheme before
\* a single colon is followed, and cut off, exactly when its backend is there.  Anything
\* else is a path of the default backend, whole: an unknown scheme before a colon becomes
\* part of a file name, and nothing tells the user.
Followed(d) == d.form = "url" \/ (d.form = "colon" /\ d.scheme \in openers)
NamedBackendOpens ==
    db \in {"open", "closed"} =>
        LET d == opened.dsn
        IN  /\ opened.scheme \in openers
            /\ opened.scheme = IF Followed(d) THEN d.scheme ELSE default
            /\ opened.target = IF Followed(d) /\ d.form = "colon"
                               THEN [d EXCEPT !.form = "bare", !.scheme = ""] ELSE d

\* The backend of a run, and of each later run over the same file, is the one its DSN leads
\* to among those registered; only one request at a time is at its tables, and all exist.
StoreInv == StoreTypeOK /\ NamedBackendOpens /\ OneInside /\ TablesAreBacked

\* Every row is where its type and its key say (sqlite.go:55-89).
RowsAreFiled == RowsOfTheirType /\ KeysAreUnique

\* A request that hands over a record gets past it: no failure leaves the mutex held.
UpsertsEnd == \A c \in Calls : at[c] # "idle" ~> at[c] = "idle"
====
