----------------------------- MODULE StoreProofs -----------------------------
(* Theorems about RecordStore, for any requests, any streams of records and  *)
(* any number of runs: one request at a time is at the tables, the tables it *)
(* relies on exist, a key has one row, nothing in the file is lost, and each *)
(* row stands in the table of its type, whose name Collection makes of any   *)
(* type name and leaves alone when it is applied again.                      *)
EXTENDS RecordStore, FiniteSetTheorems, Induction, TLAPS

LEMMA NobodyCalls == "none" \notin Calls
BY StoreAssumption DEF NoOne

(* The mutex: whoever is past Lock holds it. *)
Holding(c) == at[c] \in {"ensuring", "writing"}
MutexFits == /\ at \in [Calls -> {"idle", "waiting", "ensuring", "writing"}]
             /\ \A c \in Calls : Holding(c) <=> holder = c
             /\ holder \in Calls \cup {NoOne}
             /\ next \in [Calls -> Nat]

(* A request that is about to write has its table. *)
TablesFit == /\ tables \subseteq DOMAIN disk
             /\ \A c \in Calls : at[c] = "writing" => Table(c) \in tables

FileFits == MutexFits /\ TablesFit /\ KeysAreUnique

LEMMA FileFitsInit == StoreInit => FileFits
<1> SUFFICES ASSUME StoreInit PROVE FileFits
    OBVIOUS
<1>1. MutexFits
    BY NobodyCalls DEF StoreInit, MutexFits, Holding, NoOne
<1>2. TablesFit /\ KeysAreUnique
    BY DEF StoreInit, TablesFit, KeysAreUnique
<1>. QED BY <1>1, <1>2 DEF FileFits

LEMMA MutexStep ==
    ASSUME MutexFits, [StoreNext]_vars
    PROVE  MutexFits'
<1> USE NobodyCalls DEF MutexFits, Holding, NoOne, Move, Done
<1>1. ASSUME NEW c \in Calls, Lock(c) PROVE MutexFits'
    BY <1>1 DEF Lock
<1>2. ASSUME NEW c \in Calls, EnsureFails(c) \/ InsertFails(c) \/ Insert(c) PROVE MutexFits'
  <2>1. at[c] \in {"ensuring", "writing"} /\ Done(c)
      BY <1>2 DEF EnsureFails, InsertFails, Insert
  <2>2. at' = [at EXCEPT ![c] = "idle"] /\ holder' = NoOne /\ holder = c
      BY <2>1
  <2>3. next' \in [Calls -> Nat]
      BY <2>1
  <2>. QED BY <2>2, <2>3
<1>3. ASSUME NEW c \in Calls, Ensure(c) PROVE MutexFits'
    BY <1>3 DEF Ensure
<1>4. ASSUME NEW c \in Calls, Tee(c) PROVE MutexFits'
    BY <1>4 DEF Tee
<1>5. CASE Again
    BY <1>5 DEF Again
<1>6. ASSUME NEW s \in Schemes, Register(s) \/ SetDefaultScheme(s) PROVE MutexFits'
    BY <1>6 DEF Register, SetDefaultScheme
<1>7. CASE Open \/ Close \/ UNCHANGED vars
    BY <1>7 DEF Open, Close, vars
<1>. QED BY <1>1, <1>2, <1>3, <1>4, <1>5, <1>6, <1>7 DEF StoreNext, Upsert

(* What a step may do to the file: nothing, make sure of the table of a     *)
(* request, or write the row of one.                                        *)
LEMMA SetRowsIs ==
    ASSUME NEW t, NEW rows, SetRows(t, rows)
    PROVE  /\ DOMAIN disk' = DOMAIN disk \cup {t}
           /\ disk'[t] = rows
           /\ \A u \in DOMAIN disk : u # t => disk'[u] = disk[u]
BY DEF SetRows

LEMMA RowsIs == \A t \in DOMAIN disk : Rows(t) = disk[t]
BY DEF Rows

LEMMA TablesStep ==
    ASSUME MutexFits, TablesFit, [StoreNext]_vars
    PROVE  TablesFit'
<1> USE DEF TablesFit
<1>1. ASSUME NEW c \in Calls, Ensure(c) PROVE TablesFit'
  <2>1. /\ tables' = tables \cup {Table(c)} /\ next' = next
        /\ DOMAIN disk' = DOMAIN disk \cup {Table(c)}
    <3>1. CASE Table(c) \in tables
        BY <1>1, <3>1 DEF Ensure
    <3>2. CASE Table(c) \notin tables
        BY <1>1, <3>2, SetRowsIs DEF Ensure
    <3>. QED BY <3>1, <3>2
  <2>2. \A d \in Calls : Table(d)' = Table(d) /\ (d # c => at'[d] = at[d])
      BY <1>1, <2>1 DEF Table, Rec, Ensure, Move, MutexFits
  <2>. QED BY <2>1, <2>2
<1>2. ASSUME NEW c \in Calls, Lock(c) PROVE TablesFit'
  <2>1. /\ UNCHANGED <<tables, disk, next>>
        /\ \A d \in Calls : at'[d] = "writing" => at[d] = "writing"
      BY <1>2 DEF Lock, Move, MutexFits, file
  <2>. QED BY <2>1 DEF Table, Rec
<1>3. ASSUME NEW c \in Calls, EnsureFails(c) \/ InsertFails(c) \/ Insert(c) \/ Tee(c)
      PROVE  TablesFit'
  <2>1. tables' = tables /\ DOMAIN disk \subseteq DOMAIN disk'
    <3>1. CASE Insert(c)
        BY <3>1, SetRowsIs DEF Insert
    <3>2. CASE EnsureFails(c) \/ InsertFails(c) \/ Tee(c)
        BY <3>2 DEF EnsureFails, InsertFails, Tee, file
    <3>. QED BY <1>3, <3>1, <3>2
  <2>2. \A d \in Calls : at'[d] = "writing" => at[d] = "writing" /\ d # c
      BY <1>3 DEF EnsureFails, InsertFails, Insert, Tee, Done, Move, MutexFits
  <2>3. \A d \in Calls : d # c => next'[d] = next[d]
      BY <1>3 DEF EnsureFails, InsertFails, Insert, Tee, Done, MutexFits
  <2>. QED BY <2>1, <2>2, <2>3 DEF Table, Rec
<1>4. CASE Again
    BY <1>4 DEF Again
<1>5. ASSUME NEW s \in Schemes, Register(s) \/ SetDefaultScheme(s) PROVE TablesFit'
    BY <1>5 DEF Register, SetDefaultScheme, file, Table, Rec
<1>6. CASE Open \/ Close \/ UNCHANGED vars
    BY <1>6 DEF Open, Close, vars, file, Table, Rec
<1>. QED BY <1>1, <1>2, <1>3, <1>4, <1>5, <1>6 DEF StoreNext, Upsert

(* A step leaves the rows of a table alone, or writes one of them: under a  *)
(* fresh key, or in the place of the one that had its key.                  *)
LEMMA FileStep ==
    ASSUME MutexFits, TablesFit, [StoreNext]_vars
    PROVE  \/ disk' = disk
           \/ \E t :
                /\ DOMAIN disk' = DOMAIN disk \cup {t}
                /\ \A u \in DOMAIN disk : u # t => disk'[u] = disk[u]
                /\ \/ disk'[t] = Rows(t)
                   \/ \E row : disk'[t] = {r \in Rows(t) : r.key # row.key \/ row.key = ""}
                                            \cup {row}
<1>1. ASSUME NEW c \in Calls, Ensure(c) PROVE disk' = disk \/ SetRows(Table(c), Rows(Table(c)))
    BY <1>1 DEF Ensure
<1>2. ASSUME NEW c \in Calls, Insert(c)
      PROVE  \E row : SetRows(Table(c), {r \in Rows(Table(c)) : r.key # row.key \/ row.key = ""}
                                           \cup {row})
  <2> DEFINE t == Table(c)
             id == ExtractID(Rec(c))
  <2>1. CASE id = ""
    <3> DEFINE row == [key |-> "", n |-> Fresh(t), rec |-> Rec(c)]
    <3>1. SetRows(t, Rows(t) \cup {row})
        BY <1>2, <2>1 DEF Insert
    <3>2. row.key = "" /\ Rows(t) = {r \in Rows(t) : r.key # row.key \/ row.key = ""}
        OBVIOUS
    <3> HIDE DEF row, t
    <3>3. SetRows(t, {r \in Rows(t) : r.key # row.key \/ row.key = ""} \cup {row})
        BY <3>1, <3>2
    <3>. QED BY <3>3 DEF t
  <2>2. CASE id # ""
    <3> DEFINE row == [key |-> id, n |-> 0, rec |-> Rec(c)]
    <3>1. SetRows(t, {r \in Rows(t) : r.key # id} \cup {row})
        BY <1>2, <2>2 DEF Insert
    <3>2. {r \in Rows(t) : r.key # id} = {r \in Rows(t) : r.key # row.key \/ row.key = ""}
        BY <2>2
    <3> HIDE DEF row, t, id
    <3>3. SetRows(t, {r \in Rows(t) : r.key # row.key \/ row.key = ""} \cup {row})
        BY <3>1, <3>2
    <3>. QED BY <3>3 DEF t
  <2>. QED BY <2>1, <2>2
<1>3. CASE \E c \in Calls : Ensure(c) \/ Insert(c)
  <2>1. \/ disk' = disk
        \/ \E t : SetRows(t, Rows(t))
        \/ \E t, row : SetRows(t, {r \in Rows(t) : r.key # row.key \/ row.key = ""} \cup {row})
      BY <1>1, <1>2, <1>3
  <2>2. ASSUME NEW t, SetRows(t, Rows(t))
        PROVE  /\ DOMAIN disk' = DOMAIN disk \cup {t}
               /\ \A u \in DOMAIN disk : u # t => disk'[u] = disk[u]
               /\ disk'[t] = Rows(t)
      BY <2>2, SetRowsIs
  <2>3. ASSUME NEW t, NEW row,
               SetRows(t, {r \in Rows(t) : r.key # row.key \/ row.key = ""} \cup {row})
        PROVE  /\ DOMAIN disk' = DOMAIN disk \cup {t}
               /\ \A u \in DOMAIN disk : u # t => disk'[u] = disk[u]
               /\ disk'[t] = {r \in Rows(t) : r.key # row.key \/ row.key = ""} \cup {row}
    <3> DEFINE rows == {r \in Rows(t) : r.key # row.key \/ row.key = ""} \cup {row}
    <3>1. SetRows(t, rows)
        BY <2>3
    <3> HIDE DEF rows
    <3>2. /\ DOMAIN disk' = DOMAIN disk \cup {t}
          /\ \A u \in DOMAIN disk : u # t => disk'[u] = disk[u]
          /\ disk'[t] = rows
        BY <3>1, SetRowsIs
    <3>. QED BY <3>2 DEF rows
  <2>. QED BY <2>1, <2>2, <2>3
<1>4. CASE ~\E c \in Calls : Ensure(c) \/ Insert(c)
  <2>1. disk' = disk
      BY <1>4 DEF StoreNext, Upsert, vars, file, Register, SetDefaultScheme, Open, Close, Again,
         Tee, Lock, EnsureFails, InsertFails
  <2>. QED BY <2>1
<1>. QED BY <1>3, <1>4

LEMMA KeysStep ==
    ASSUME MutexFits, TablesFit, KeysAreUnique, [StoreNext]_vars
    PROVE  KeysAreUnique'
<1>1. CASE disk' = disk
    BY <1>1 DEF KeysAreUnique
<1>2. ASSUME NEW t, DOMAIN disk' = DOMAIN disk \cup {t},
             \A u \in DOMAIN disk : u # t => disk'[u] = disk[u],
             \/ disk'[t] = Rows(t)
             \/ \E row : disk'[t] = {r \in Rows(t) : r.key # row.key \/ row.key = ""} \cup {row}
      PROVE  KeysAreUnique'
  <2>1. \A r, q \in Rows(t) : (r.key = q.key /\ r.key # "") => r = q
      BY DEF Rows, KeysAreUnique
  <2>2. \A r, q \in disk'[t] : (r.key = q.key /\ r.key # "") => r = q
      BY <1>2, <2>1
  <2>. QED BY <1>2, <2>2 DEF KeysAreUnique
<1>. QED BY <1>1, <1>2, FileStep

LEMMA FileFitsStep ==
    ASSUME FileFits, [StoreNext]_vars
    PROVE  FileFits'
BY MutexStep, TablesStep, KeysStep DEF FileFits

LEMMA FileFitsHolds == StoreSpec => []FileFits
BY FileFitsInit, FileFitsStep, PTL DEF StoreSpec

(* Two requests are never inside Upsert's critical section at once.         *)
THEOREM OneIsInside == StoreSpec => []OneInside
<1>1. FileFits => OneInside
  <2> SUFFICES ASSUME FileFits PROVE OneInside
      OBVIOUS
  <2> DEFINE S == {c \in Calls : at[c] \in {"ensuring", "writing"}}
  <2>1. S \subseteq {holder}
      BY DEF FileFits, MutexFits, Holding
  <2>2. IsFiniteSet({holder}) /\ Cardinality({holder}) = 1
      BY FS_Singleton
  <2>3. Cardinality(S) <= Cardinality({holder})
      BY <2>1, <2>2, FS_Subset
  <2>. QED BY <2>2, <2>3 DEF OneInside
<1>. QED BY <1>1, FileFitsHolds, PTL

(* The table cache never names a table the file does not have, across      *)
(* failures, crashes and later runs.                                       *)
THEOREM TablesBacked == StoreSpec => []TablesAreBacked
<1>1. FileFits => TablesAreBacked
    BY DEF FileFits, TablesFit, TablesAreBacked
<1>. QED BY <1>1, FileFitsHolds, PTL

(* A key has one row in its table, however often the command is run.       *)
THEOREM KeysUnique == StoreSpec => []KeysAreUnique
<1>1. FileFits => KeysAreUnique
    BY DEF FileFits
<1>. QED BY <1>1, FileFitsHolds, PTL

(* No row is lost to a failure, a close, a crash or a later run.           *)
THEOREM RowsStay == StoreSpec => NothingVanishes
<1>1. ASSUME FileFits, [StoreNext]_vars
      PROVE  \A t \in DOMAIN disk : \A r \in disk[t] :
                t \in DOMAIN disk' /\ \E q \in disk'[t] : q.key = r.key /\ (r.key = "" => q = r)
  <2>1. CASE disk' = disk
      BY <2>1
  <2>2. ASSUME NEW t, DOMAIN disk' = DOMAIN disk \cup {t},
               \A u \in DOMAIN disk : u # t => disk'[u] = disk[u],
               \/ disk'[t] = Rows(t)
               \/ \E row : disk'[t] = {r \in Rows(t) : r.key # row.key \/ row.key = ""} \cup {row}
        PROVE  \A u \in DOMAIN disk : \A r \in disk[u] :
                 u \in DOMAIN disk'
                 /\ \E q \in disk'[u] : q.key = r.key /\ (r.key = "" => q = r)
    <3> SUFFICES ASSUME NEW u \in DOMAIN disk, NEW r \in disk[u]
                 PROVE  \E q \in disk'[u] : q.key = r.key /\ (r.key = "" => q = r)
        BY <2>2
    <3>1. CASE u # t
        BY <2>2, <3>1
    <3>2. CASE u = t /\ disk'[t] = Rows(t)
        BY <3>2, RowsIs
    <3>3. ASSUME u = t, NEW row,
                 disk'[t] = {x \in Rows(t) : x.key # row.key \/ row.key = ""} \cup {row}
          PROVE  \E q \in disk'[u] : q.key = r.key /\ (r.key = "" => q = r)
      <4>1. r \in Rows(t)
          BY <3>3, RowsIs
      <4>2. CASE r.key # row.key \/ row.key = ""
          BY <3>3, <4>1, <4>2
      <4>3. CASE r.key = row.key /\ row.key # ""
          BY <3>3, <4>3
      <4>. QED BY <4>2, <4>3
    <3>. QED BY <2>2, <3>1, <3>2, <3>3
  <2>3. FileFits => MutexFits /\ TablesFit
      BY DEF FileFits
  <2>. QED BY <1>1, <2>1, <2>2, <2>3, FileStep
<1>2. FileFits /\ [StoreNext]_vars =>
        [\A t \in DOMAIN disk : \A r \in disk[t] :
            t \in DOMAIN disk' /\ \E q \in disk'[t] : q.key = r.key /\ (r.key = "" => q = r)]_vars
    BY <1>1
<1>. QED BY <1>2, FileFitsHolds, PTL DEF StoreSpec, NothingVanishes
----------------------------------------------------------------------------
(* A DSN goes to the backend that the forms of a DSN and the registry give, *)
(* and only if that backend is there.                                       *)
DsnFits == opened.dsn \in Dsns /\ NamedBackendOpens

(* What Open has to establish. *)
LEMMA Opened ==
    ASSUME NEW d \in Dsns, opened'.dsn = d, default' = default, openers' = openers,
           db' # "refused" => opened'.scheme \in openers,
           opened'.scheme = (IF Followed(d) THEN d.scheme ELSE default),
           opened'.target = (IF Followed(d) /\ d.form = "colon"
                             THEN [d EXCEPT !.form = "bare", !.scheme = ""] ELSE d)
    PROVE  DsnFits'
BY DEF DsnFits, NamedBackendOpens, Followed

LEMMA DsnStep ==
    ASSUME DsnFits, [StoreNext]_vars
    PROVE  DsnFits'
<1>1. CASE Open
  <2> DEFINE d == opened.dsn
  <2>1. d \in Dsns /\ opened' = ParseDSN(d) /\ UNCHANGED <<openers, default>>
        /\ (db' # "refused" => opened'.scheme \in openers)
      BY <1>1 DEF Open, DsnFits
  <2>3. CASE d.form = "url"
    <3>1. opened' = [dsn |-> d, scheme |-> d.scheme, target |-> d]
        BY <2>1, <2>3 DEF ParseDSN
    <3>2. Followed(d) /\ d.form # "colon"
        BY <2>3 DEF Followed
    <3>3. opened'.dsn = d /\ opened'.scheme = d.scheme /\ opened'.target = d
        BY <3>1
    <3>. QED BY <2>1, <3>2, <3>3, Opened
  <2>4. CASE d.form = "colon" /\ d.scheme \in openers
    <3>1. opened' = [dsn |-> d, scheme |-> d.scheme,
                     target |-> [d EXCEPT !.form = "bare", !.scheme = ""]]
        BY <2>1, <2>4 DEF ParseDSN
    <3>3. /\ opened'.dsn = d /\ opened'.scheme = d.scheme
          /\ opened'.target = [d EXCEPT !.form = "bare", !.scheme = ""]
        BY <3>1
    <3>4. Followed(d)
        BY <2>4 DEF Followed
    <3>. QED BY <2>1, <2>4, <3>3, <3>4, Opened
  <2>5. CASE d.form # "url" /\ ~(d.form = "colon" /\ d.scheme \in openers)
    <3>1. opened' = [dsn |-> d, scheme |-> default, target |-> d]
        BY <2>1, <2>5 DEF ParseDSN
    <3>2. ~Followed(d)
        BY <2>5 DEF Followed
    <3>3. opened'.dsn = d /\ opened'.scheme = default /\ opened'.target = d
        BY <3>1
    <3>. QED BY <2>1, <3>2, <3>3, Opened
  <2>. QED BY <2>3, <2>4, <2>5
<1>2. ASSUME NEW s \in Schemes, Register(s) \/ SetDefaultScheme(s) PROVE DsnFits'
    BY <1>2 DEF Register, SetDefaultScheme, DsnFits, NamedBackendOpens, Followed
<1>3. CASE Close
    BY <1>3 DEF Close, pick, DsnFits, NamedBackendOpens, Followed
<1>4. CASE Again
    BY <1>4 DEF Again, pick, DsnFits, NamedBackendOpens, Followed
<1>5. ASSUME UNCHANGED <<pick, db>> PROVE DsnFits'
    BY <1>5 DEF pick, DsnFits, NamedBackendOpens, Followed
<1>6. CASE UNCHANGED vars \/ \E c \in Calls : Tee(c) \/ Upsert(c)
  <2>1. UNCHANGED <<pick, db>>
      BY <1>6 DEF vars, pick, Upsert, Tee, Lock, EnsureFails, Ensure, InsertFails, Insert
  <2>. QED BY <2>1, <1>5
<1>. QED BY <1>1, <1>2, <1>3, <1>4, <1>6 DEF StoreNext

LEMMA DsnInit == StoreInit => DsnFits
<1> SUFFICES ASSUME StoreInit PROVE DsnFits
    OBVIOUS
<1>1. PICK d \in Dsns : opened = [dsn |-> d, scheme |-> "", target |-> d]
    BY DEF StoreInit
<1>2. opened.dsn = d
    BY <1>1
<1>. QED BY <1>2 DEF StoreInit, DsnFits, NamedBackendOpens, Followed

(* However backends are registered and the default is set before each run,  *)
(* the backend that is open and what it was given are those of the forms of *)
(* a DSN: the scheme named by a URL or by a colon with a backend for it,    *)
(* and the default one with the whole DSN for anything else.                *)
THEOREM BackendIsNamed == StoreSpec => []NamedBackendOpens
<1>1. DsnFits => NamedBackendOpens
    BY DEF DsnFits
<1>. QED BY <1>1, DsnInit, DsnStep, PTL DEF StoreSpec
----------------------------------------------------------------------------
(* The names of tables. *)

(* What the loop over a name has written: words without a gap, the          *)
(* underscore of the last one perhaps.                                      *)
Letters == Plain \cup {Gap}
Apart(s) == \A i \in 1..(Len(s) - 1) : ~(s[i] = Gap /\ s[i + 1] = Gap)
Accs == {a \in [out : Seq(Letters), under : BOOLEAN] :
            /\ a.out # <<>> => a.out[1] # Gap
            /\ Apart(a.out)
            /\ a.under <=> (a.out # <<>> /\ a.out[Len(a.out)] = Gap)}
NoLetters == [out |-> <<>>, under |-> FALSE]

LEMMA NoLettersType == NoLetters \in Accs
BY DEF NoLetters, Accs, Apart

LEMMA LetterFits ==
    ASSUME NEW a \in Accs, NEW c \in Letters,
           c = Gap => a.out # <<>> /\ ~a.under
    PROVE  [out |-> Append(a.out, c), under |-> c = Gap] \in Accs
<1>. DEFINE s == a.out
            r == Append(s, c)
<1>1. s \in Seq(Letters) /\ Len(s) \in Nat /\ (s = <<>> <=> Len(s) = 0)
    BY DEF Accs
<1>2. /\ r \in Seq(Letters) /\ Len(r) = Len(s) + 1 /\ r[Len(r)] = c
      /\ \A i \in 1..Len(s) : r[i] = s[i]
    BY <1>1
<1>3. r[1] # Gap
  <2>1. CASE s = <<>>
      BY <1>1, <1>2, <2>1
  <2>2. CASE s # <<>>
      BY <1>1, <1>2, <2>2 DEF Accs
  <2>. QED BY <2>1, <2>2
<1>4. Apart(r)
  <2>. SUFFICES ASSUME NEW i \in 1..Len(s), r[i] = Gap, r[i + 1] = Gap PROVE FALSE
      BY <1>1, <1>2 DEF Apart
  <2>1. CASE i = Len(s)
    <3>1. c = Gap /\ s # <<>> /\ s[Len(s)] = Gap
        BY <1>1, <1>2, <2>1
    <3>. QED BY <3>1 DEF Accs
  <2>2. CASE i # Len(s)
    <3>1. i \in 1..(Len(s) - 1) /\ s[i] = Gap /\ s[i + 1] = Gap
        BY <1>1, <1>2, <2>2
    <3>. QED BY <3>1 DEF Accs, Apart
  <2>. QED BY <2>1, <2>2
<1>5. r # <<>>
    BY <1>1, <1>2
<1>. HIDE DEF r
<1>. DEFINE b == [out |-> r, under |-> c = Gap]
<1>6. b \in [out : Seq(Letters), under : BOOLEAN] /\ b.out = r /\ b.under = (c = Gap)
    BY <1>2
<1>. HIDE DEF b
<1>7. b \in Accs
    BY <1>2, <1>3, <1>4, <1>5, <1>6 DEF Accs
<1>. QED BY <1>7 DEF b, r

LEMMA SnakeFits ==
    ASSUME NEW a \in Accs, NEW c
    PROVE  Snake(a, c) \in Accs
<1>1. \A d \in Plain : d # Gap
    BY StoreAssumption
<1>2. CASE c \in DOMAIN Upper
  <2>1. Upper[c] \in Plain /\ Upper[c] # Gap /\ c \notin Plain
      BY <1>1, <1>2, StoreAssumption
  <2>2. CASE a.out = <<>> \/ a.under
    <3>1. Snake(a, c) = [out |-> a.out \o <<Upper[c]>>, under |-> FALSE]
        BY <1>2, <2>1, <2>2 DEF Snake
    <3>2. a.out \o <<Upper[c]>> = Append(a.out, Upper[c])
        BY <2>1 DEF Accs, Letters
    <3>3. [out |-> Append(a.out, Upper[c]), under |-> Upper[c] = Gap] \in Accs
        BY <2>1, LetterFits DEF Letters
    <3>. QED BY <2>1, <3>1, <3>2, <3>3
  <2>3. CASE ~(a.out = <<>> \/ a.under)
    <3>. DEFINE b == [out |-> Append(a.out, Gap), under |-> TRUE]
    <3>1. Snake(a, c) = [out |-> b.out \o <<Upper[c]>>, under |-> FALSE]
        BY <1>2, <2>1, <2>3 DEF Snake
    <3>2. [out |-> Append(a.out, Gap), under |-> Gap = Gap] \in Accs
        BY <2>3, LetterFits DEF Letters
    <3>3. b \in Accs
        BY <3>2
    <3>. HIDE DEF b
    <3>4. b.out \o <<Upper[c]>> = Append(b.out, Upper[c])
        BY <2>1, <3>3 DEF Accs, Letters
    <3>5. [out |-> Append(b.out, Upper[c]), under |-> Upper[c] = Gap] \in Accs
        BY <2>1, <3>3, LetterFits DEF Letters
    <3>. QED BY <2>1, <3>1, <3>4, <3>5
  <2>. QED BY <2>2, <2>3
<1>3. CASE c \in Plain
  <2>1. c \notin DOMAIN Upper /\ c # Gap
      BY <1>1, <1>3, StoreAssumption
  <2>2. Snake(a, c) = [out |-> Append(a.out, c), under |-> FALSE]
      BY <1>3, <2>1 DEF Snake
  <2>3. [out |-> Append(a.out, c), under |-> c = Gap] \in Accs
      BY <1>3, <2>1, LetterFits DEF Letters
  <2>. QED BY <2>1, <2>2, <2>3
<1>4. CASE c \notin DOMAIN Upper /\ c \notin Plain
  <2>1. CASE a.under \/ a.out = <<>>
      BY <1>4, <2>1 DEF Snake
  <2>2. CASE ~(a.under \/ a.out = <<>>)
    <3>1. Snake(a, c) = [out |-> Append(a.out, Gap), under |-> TRUE]
        BY <1>4, <2>2 DEF Snake
    <3>2. [out |-> Append(a.out, Gap), under |-> Gap = Gap] \in Accs
        BY <2>2, LetterFits DEF Letters
    <3>. QED BY <3>1, <3>2
  <2>. QED BY <2>1, <2>2
<1>. QED BY <1>2, <1>3, <1>4

(* The loop runs, and every state of it is such a text. *)
LEMMA SnakedRuns ==
    ASSUME NEW X, NEW name \in Seq(X)
    PROVE  /\ Snaked(name)[0] = NoLetters
           /\ \A k \in 1..Len(name) : Snaked(name)[k] = Snake(Snaked(name)[k - 1], name[k])
           /\ \A k \in 0..Len(name) : Snaked(name)[k] \in Accs
<1>. DEFINE N == Len(name)
            Loop(f) == f = [k \in 0..N |-> IF k = 0 THEN [out |-> <<>>, under |-> FALSE]
                                           ELSE Snake(f[k - 1], name[k])]
            F == [k \in 1..N |-> [a \in Accs |-> Snake(a, name[k])]]
            g == CHOOSE f : Loop(f)
<1>1. N \in Nat
    OBVIOUS
<1>2. PICK f \in [0..N -> Accs] : Iterates(f, F, NoLetters, N)
  <2>1. F \in [1..N -> [Accs -> Accs]]
      BY SnakeFits
  <2>. HIDE DEF N, F
  <2>. QED BY <1>1, <2>1, NoLettersType, FiniteRecursion
<1>3. \A k \in 1..N : k - 1 \in 0..N /\ f[k] = Snake(f[k - 1], name[k])
  <2>. SUFFICES ASSUME NEW k \in 1..N PROVE k - 1 \in 0..N /\ f[k] = Snake(f[k - 1], name[k])
      OBVIOUS
  <2>1. k - 1 \in 0..N /\ f[k - 1] \in Accs
      BY <1>1
  <2>2. f[k] = F[k][f[k - 1]]
      BY <1>2 DEF Iterates
  <2>. QED BY <2>1, <2>2
<1>4. Loop(f)
  <2>1. f[0] = [out |-> <<>>, under |-> FALSE]
      BY <1>2 DEF Iterates, NoLetters
  <2>. HIDE DEF N
  <2>. QED BY <1>1, <1>3, <2>1
<1>5. Loop(g)
  <2>. HIDE DEF Loop
  <2>. QED BY <1>4
<1>6. Snaked(name) = g
    BY DEF Snaked
<1>. HIDE DEF g, N
<1>7. g[0] = NoLetters /\ \A k \in 1..N : g[k] = Snake(g[k - 1], name[k])
  <2>1. \A k \in 0..N : g[k] = IF k = 0 THEN [out |-> <<>>, under |-> FALSE]
                                ELSE Snake(g[k - 1], name[k])
      BY <1>5
  <2>. QED BY <1>1, <2>1 DEF NoLetters
<1>. DEFINE T == {k \in Nat : k <= N => g[k] \in Accs}
<1>8. 0 \in T
    BY <1>7, NoLettersType
<1>9. ASSUME NEW k \in Nat, k \in T PROVE k + 1 \in T
  <2>. SUFFICES ASSUME k + 1 <= N PROVE g[k + 1] \in Accs
      OBVIOUS
  <2>1. k + 1 \in 1..N /\ (k + 1) - 1 = k /\ g[k] \in Accs
      BY <1>1, <1>9
  <2>2. g[k + 1] = Snake(g[k], name[k + 1])
      BY <1>7, <2>1
  <2>. QED BY <2>1, <2>2, SnakeFits
<1>10. \A k \in Nat : k \in T
  <2>. HIDE DEF T
  <2>. QED BY <1>8, <1>9, SetInduction
<1>11. \A k \in 0..N : g[k] \in Accs
    BY <1>1, <1>10
<1>. QED BY <1>6, <1>7, <1>11 DEF N

(* A table name: words with one underscore between them. *)
Clean(s) == /\ s \in Seq(Letters) /\ s # <<>> /\ Apart(s)
            /\ s[1] # Gap /\ s[Len(s)] # Gap

LEMMA TrimmedIsClean ==
    ASSUME NEW a \in Accs, Trimmed(a.out) # <<>>
    PROVE  Clean(Trimmed(a.out))
<1>. DEFINE s == a.out
            t == SubSeq(s, 1, Len(s) - 1)
<1>1. /\ s \in Seq(Letters) /\ Len(s) \in Nat /\ (s = <<>> <=> Len(s) = 0) /\ Apart(s)
      /\ s # <<>> => s[1] # Gap
    BY DEF Accs
<1>2. CASE ~(s # <<>> /\ s[Len(s)] = Gap)
    BY <1>1, <1>2 DEF Trimmed, Clean
<1>3. CASE s # <<>> /\ s[Len(s)] = Gap
  <2>1. Trimmed(s) = t /\ t # <<>>
      BY <1>3 DEF Trimmed
  <2>2. /\ t \in Seq(Letters) /\ Len(t) = Len(s) - 1
        /\ \A i \in 1..(Len(s) - 1) : t[i] = s[i]
      BY <1>1, <1>3
  <2>3. Len(s) > 1
      BY <1>1, <1>3, <2>1, <2>2
  <2>4. Apart(t)
      BY <1>1, <2>2, <2>3 DEF Apart
  <2>5. t[1] # Gap
      BY <1>1, <1>3, <2>2, <2>3
  <2>6. s[Len(s) - 1] # Gap
    <3>1. Len(s) - 1 \in 1..(Len(s) - 1) /\ (Len(s) - 1) + 1 = Len(s)
        BY <1>1, <2>3
    <3>. QED BY <1>1, <1>3, <3>1 DEF Apart
  <2>7. t[Len(t)] # Gap
      BY <1>1, <2>2, <2>3, <2>6
  <2>. HIDE DEF t
  <2>8. Clean(t)
      BY <2>1, <2>2, <2>4, <2>5, <2>7 DEF Clean
  <2>. QED BY <2>1, <2>8
<1>. QED BY <1>2, <1>3

(* What Collection returns for any name. *)
LEMMA CollectionIs ==
    ASSUME NEW X, NEW name \in Seq(X)
    PROVE  Collection(name) = <<"records">> \/ Clean(Collection(name))
<1>. DEFINE a == Snaked(name)[Len(name)]
<1>1. a \in Accs
    BY SnakedRuns
<1>2. Collection(name) = IF Trimmed(a.out) = <<>> THEN <<"records">> ELSE Trimmed(a.out)
    BY DEF Collection
<1>. HIDE DEF a
<1>. QED BY <1>1, <1>2, TrimmedIsClean

(* The loop copies a table name. *)
LEMMA CleanStays ==
    ASSUME NEW s, Clean(s)
    PROVE  Collection(s) = s
<1>. DEFINE N == Len(s)
            g == Snaked(s)
            P(k) == [i \in 1..k |-> s[i]]
            T == {k \in Nat : k <= N => g[k].out = P(k)}
<1>1. s \in Seq(Letters) /\ N \in Nat /\ N > 0 /\ \A i \in 1..N : s[i] \in Letters
    BY DEF Clean
<1>2. /\ g[0] = NoLetters
      /\ \A k \in 1..N : g[k] = Snake(g[k - 1], s[k])
      /\ \A k \in 0..N : g[k] \in Accs
    BY <1>1, SnakedRuns
<1>. HIDE DEF g
<1>3. 0 \in T
    BY <1>2 DEF NoLetters
<1>4. ASSUME NEW k \in Nat, k \in T PROVE k + 1 \in T
  <2>. SUFFICES ASSUME k + 1 <= N PROVE g[k + 1].out = P(k + 1)
      OBVIOUS
  <2>. DEFINE a == g[k]
              c == s[k + 1]
  <2>1. k + 1 \in 1..N /\ (k + 1) - 1 = k /\ a \in Accs /\ a.out = P(k) /\ c \in Letters
      BY <1>1, <1>2, <1>4
  <2>2. g[k + 1] = Snake(a, c)
      BY <1>2, <2>1
  <2>3. Append(P(k), c) = P(k + 1)
    <3>1. P(k) \in Seq(Letters) /\ Len(P(k)) = k
        BY <1>1, <2>1
    <3>. QED BY <2>1, <3>1
  <2>4. Snake(a, c).out = Append(a.out, c)
    <3>1. c \notin DOMAIN Upper
        BY <2>1, StoreAssumption DEF Letters
    <3>2. CASE c \in Plain
        BY <3>1, <3>2 DEF Snake
    <3>3. CASE c \notin Plain
      <4>1. c = Gap
          BY <2>1, <3>3 DEF Letters
      <4>2. k # 0 /\ s[k] # Gap
        <5>1. k # 0
            BY <4>1 DEF Clean
        <5>2. k \in 1..(Len(s) - 1)
            BY <1>1, <2>1, <5>1
        <5>. QED BY <4>1, <5>1, <5>2 DEF Clean, Apart
      <4>3. a.out # <<>> /\ ~a.under
        <5>1. P(k) # <<>> /\ Len(P(k)) = k /\ P(k)[k] = s[k]
            BY <1>1, <2>1, <4>2
        <5>. HIDE DEF P
        <5>. QED BY <2>1, <4>2, <5>1 DEF Accs
      <4>. QED BY <3>1, <3>3, <4>1, <4>3 DEF Snake
    <3>. QED BY <3>2, <3>3
  <2>. QED BY <2>1, <2>2, <2>3, <2>4
<1>5. N \in T
  <2>. HIDE DEF T
  <2>. QED BY <1>1, <1>3, <1>4, SetInduction
<1>6. g[N].out = s
  <2>1. P(N) = s
      BY <1>1
  <2>. QED BY <1>1, <1>5, <2>1
<1>7. Trimmed(s) = s
    BY DEF Trimmed, Clean
<1>. QED BY <1>1, <1>6, <1>7 DEF Collection, g, Clean

LEMMA RecordsStay == Collection(<<"records">>) = <<"records">>
<1>. DEFINE s == <<"records">>
            g == Snaked(s)
<1>1. s \in Seq({"records"}) /\ Len(s) = 1 /\ s[1] = "records"
    OBVIOUS
<1>2. g[0] = NoLetters /\ g[1] = Snake(g[0], "records")
  <2>. HIDE DEF s
  <2>1. 1 \in 1..Len(s)
      BY <1>1
  <2>2. g[0] = NoLetters /\ g[1] = Snake(g[1 - 1], s[1])
      BY <1>1, <2>1, SnakedRuns
  <2>. QED BY <1>1, <2>2
<1>3. g[1] = NoLetters
  <2>1. "records" \notin DOMAIN Upper /\ "records" \notin Plain
      BY StoreAssumption
  <2>2. NoLetters.out = <<>>
      BY DEF NoLetters
  <2>3. Snake(NoLetters, "records") = NoLetters
      BY <2>1, <2>2 DEF Snake
  <2>. QED BY <1>2, <2>3
<1>4. Collection(s) = IF Trimmed(g[1].out) = <<>> THEN <<"records">> ELSE Trimmed(g[1].out)
    BY <1>1 DEF Collection
<1>. HIDE DEF g
<1>. QED BY <1>3, <1>4 DEF NoLetters, Trimmed

(* The tee normalises a type name, and the backend what it is given: twice  *)
(* is as good as once, for any name.                                        *)
THEOREM CollectionTwice ==
    ASSUME NEW X, NEW name \in Seq(X)
    PROVE  Collection(Collection(name)) = Collection(name)
BY CollectionIs, CleanStays, RecordsStay
----------------------------------------------------------------------------
(* Where a row goes.  Every table has the name of some type's collection.   *)
Tables == {Collection(t) : t \in TypeNames}

LEMMA TypeNamesType == \A n \in TypeNames : n \in Seq(STRING)
BY StoreAssumption DEF TypeNames

(* The two lookups of an Upsert end at the collection of the type. *)
LEMMA LookedUpTwice ==
    ASSUME NEW n \in TypeNames
    PROVE  /\ CollectionOf[n] = Collection(n)
           /\ CollectionOf[CollectionOf[n]] = Collection(n)
<1>1. Collection(n) \in DOMAIN CollectionOf /\ n \in DOMAIN CollectionOf
    BY DEF CollectionOf
<1>2. \A m \in DOMAIN CollectionOf : CollectionOf[m] = Collection(m)
    BY DEF CollectionOf
<1>3. Collection(Collection(n)) = Collection(n)
    BY CollectionTwice, TypeNamesType
<1>. QED BY <1>1, <1>2, <1>3

(* A request that is not idle is at one of its records; every row stands    *)
(* in the table of its record's type.                                       *)
Progress == \A c \in Calls : /\ next[c] \in 1..(Len(StreamOf[c]) + 1)
                             /\ at[c] # "idle" => next[c] <= Len(StreamOf[c])
Filed(t, r) == r.rec \in Records /\ CollectionOf[r.rec.type] = t
RowsFit == \A t \in DOMAIN disk : t \in Tables /\ \A r \in disk[t] : Filed(t, r)
PickFits == /\ openers \subseteq Schemes /\ default \in Schemes
            /\ db \in {"none", "refused", "open", "closed"}

LEMMA StreamType == \A c \in Calls : StreamOf[c] \in Seq(Records) /\ Len(StreamOf[c]) \in Nat
<1>1. \A c \in Calls : StreamOf[c] \in Seq(Records)
    BY StoreAssumption
<1>. QED BY <1>1

LEMMA TableOfRecord ==
    ASSUME Progress, NEW c \in Calls, at[c] # "idle"
    PROVE  /\ Rec(c) \in Records
           /\ Table(c) = CollectionOf[Rec(c).type] /\ Table(c) \in Tables
<1>1. next[c] \in 1..Len(StreamOf[c])
    BY StreamType DEF Progress
<1>2. Rec(c) \in Records
    BY <1>1, StreamType DEF Rec
<1>3. Rec(c).type \in TypeNames
    BY <1>2 DEF TypeNames
<1>. QED BY <1>2, <1>3, LookedUpTwice DEF Table, Tables

LEMMA ProgressStep ==
    ASSUME MutexFits, Progress, [StoreNext]_vars
    PROVE  Progress'
<1>. USE DEF Progress
<1>1. ASSUME NEW c \in Calls, EnsureFails(c) \/ InsertFails(c) \/ Insert(c) PROVE Progress'
  <2>1. at[c] # "idle" /\ Done(c)
      BY <1>1 DEF EnsureFails, InsertFails, Insert
  <2>2. /\ at' = [at EXCEPT ![c] = "idle"] /\ next' = [next EXCEPT ![c] = next[c] + 1]
        /\ next[c] \in 1..Len(StreamOf[c])
      BY <2>1, StreamType DEF Done, Move
  <2>. QED BY <2>2, StreamType DEF MutexFits
<1>2. ASSUME NEW c \in Calls, Tee(c) PROVE Progress'
  <2>1. /\ next[c] \in 1..Len(StreamOf[c])
        /\ \/ at' = [at EXCEPT ![c] = "waiting"] /\ next' = next
           \/ at' = at /\ at[c] = "idle" /\ next' = [next EXCEPT ![c] = next[c] + 1]
      BY <1>2, StreamType DEF Tee, Move
  <2>. QED BY <2>1, StreamType DEF MutexFits
<1>3. ASSUME NEW c \in Calls, Lock(c) \/ Ensure(c) PROVE Progress'
    BY <1>3 DEF Lock, Ensure, Move, MutexFits
<1>4. CASE Again
    BY <1>4, StreamType DEF Again
<1>5. CASE UNCHANGED <<at, next>>
    BY <1>5
<1>. QED BY <1>1, <1>2, <1>3, <1>4, <1>5
         DEF StoreNext, Upsert, vars, Register, SetDefaultScheme, Open, Close

LEMMA PickStep ==
    ASSUME PickFits, [StoreNext]_vars
    PROVE  PickFits'
<1>. USE DEF PickFits
<1>1. ASSUME NEW s \in Schemes, Register(s) \/ SetDefaultScheme(s) PROVE PickFits'
    BY <1>1 DEF Register, SetDefaultScheme
<1>2. CASE Open
    BY <1>2 DEF Open
<1>3. CASE Close \/ Again
    BY <1>3 DEF Close, Again, pick
<1>4. CASE UNCHANGED <<pick, db>>
    BY <1>4 DEF pick
<1>5. ASSUME NEW c \in Calls, Tee(c) \/ Upsert(c) PROVE UNCHANGED <<pick, db>>
    BY <1>5 DEF Upsert, Tee, Lock, EnsureFails, Ensure, InsertFails, Insert
<1>. QED BY <1>1, <1>2, <1>3, <1>4, <1>5 DEF StoreNext, vars, pick

(* Rewriting one table keeps the rows of all where they belong. *)
LEMMA SetRowsFits ==
    ASSUME RowsFit, NEW t \in Tables, NEW rows, SetRows(t, rows), \A r \in rows : Filed(t, r)
    PROVE  RowsFit'
<1>1. /\ DOMAIN disk' = DOMAIN disk \cup {t}
      /\ disk'[t] = rows
      /\ \A u \in DOMAIN disk : u # t => disk'[u] = disk[u]
    BY SetRowsIs
<1>2. \A u \in DOMAIN disk' : u = t \/ (u \in DOMAIN disk /\ disk'[u] = disk[u])
    BY <1>1
<1>. QED BY <1>1, <1>2 DEF RowsFit, Filed

LEMMA RowsStep ==
    ASSUME MutexFits, Progress, RowsFit, [StoreNext]_vars
    PROVE  RowsFit'
<1>1. CASE disk' = disk
    BY <1>1 DEF RowsFit, Filed
<1>2. ASSUME NEW t \in Tables PROVE \A r \in Rows(t) : Filed(t, r)
    BY DEF Rows, RowsFit
<1>3. ASSUME NEW c \in Calls, Ensure(c) PROVE RowsFit'
  <2>1. Table(c) \in Tables
      BY <1>3, TableOfRecord DEF Ensure
  <2>2. disk' = disk \/ SetRows(Table(c), Rows(Table(c)))
      BY <1>3 DEF Ensure
  <2>. QED BY <1>1, <1>2, <2>1, <2>2, SetRowsFits
<1>4. ASSUME NEW c \in Calls, Insert(c) PROVE RowsFit'
  <2>. DEFINE t == Table(c)
              id == ExtractID(Rec(c))
  <2>1. t \in Tables /\ Rec(c) \in Records /\ CollectionOf[Rec(c).type] = t
      BY <1>4, TableOfRecord DEF Insert
  <2>2. CASE id = ""
    <3>. DEFINE row == [key |-> "", n |-> Fresh(t), rec |-> Rec(c)]
                rows == Rows(t) \cup {row}
    <3>1. SetRows(t, rows)
        BY <1>4, <2>2 DEF Insert
    <3>2. Filed(t, row)
        BY <2>1 DEF Filed
    <3>3. \A r \in Rows(t) : Filed(t, r)
        BY <1>2, <2>1
    <3>4. \A r \in rows : Filed(t, r)
      <4>. HIDE DEF row, t
      <4>. QED BY <3>2, <3>3
    <3>. HIDE DEF rows, t
    <3>. QED BY <2>1, <3>1, <3>4, SetRowsFits
  <2>3. CASE id # ""
    <3>. DEFINE rows == {r \in Rows(t) : r.key # id} \cup {[key |-> id, n |-> 0, rec |-> Rec(c)]}
    <3>1. SetRows(t, rows)
        BY <1>4, <2>3 DEF Insert
    <3>2. \A r \in rows : Filed(t, r)
        BY <1>2, <2>1 DEF Filed
    <3>. HIDE DEF rows, t
    <3>. QED BY <2>1, <3>1, <3>2, SetRowsFits
  <2>. QED BY <2>2, <2>3
<1>5. CASE ~\E c \in Calls : Ensure(c) \/ Insert(c)
  <2>1. disk' = disk
      BY <1>5 DEF StoreNext, Upsert, vars, file, Register, SetDefaultScheme, Open, Close, Again,
         Tee, Lock, EnsureFails, InsertFails
  <2>. QED BY <1>1, <2>1
<1>. QED BY <1>3, <1>4, <1>5

(* The inductive invariant of the store. *)
StoreIInv == FileFits /\ DsnFits /\ Progress /\ PickFits /\ RowsFit

LEMMA StoreIInvInit == StoreInit => StoreIInv
<1>. SUFFICES ASSUME StoreInit PROVE StoreIInv
    OBVIOUS
<1>1. Progress
  <2>1. \A c \in Calls : next[c] = 1 /\ at[c] = "idle"
      BY DEF StoreInit
  <2>2. \A c \in Calls : 1 \in 1..(Len(StreamOf[c]) + 1)
      BY StreamType
  <2>. QED BY <2>1, <2>2 DEF Progress
<1>2. PickFits /\ RowsFit
    BY StoreAssumption DEF StoreInit, PickFits, RowsFit
<1>. QED BY <1>1, <1>2, FileFitsInit, DsnInit DEF StoreIInv

LEMMA StoreIInvStep ==
    ASSUME StoreIInv, [StoreNext]_vars
    PROVE  StoreIInv'
<1>1. MutexFits
    BY DEF StoreIInv, FileFits
<1>. QED BY <1>1, FileFitsStep, DsnStep, ProgressStep, PickStep, RowsStep DEF StoreIInv

(* It holds of every run, over whatever file earlier runs left.             *)
THEOREM StoreStays == StoreSpec => []StoreIInv
BY StoreIInvInit, StoreIInvStep, PTL DEF StoreSpec

(* A table name is made of letters and underscores. *)
LEMMA TablesAreNames ==
    ASSUME NEW t \in Tables
    PROVE  \A i \in DOMAIN t : t[i] \in Plain \cup {Gap, "records"}
<1>1. PICK n \in TypeNames : t = Collection(n)
    BY DEF Tables
<1>2. t = <<"records">> \/ Clean(t)
    BY <1>1, CollectionIs, TypeNamesType
<1>. QED BY <1>2 DEF Clean, Letters

(* Whatever is registered, fails, is closed or killed: the store that is    *)
(* open is the one the forms of a DSN lead to, the default one for a scheme *)
(* without a backend included; one request at a time is at its tables, and  *)
(* the tables it relies on exist.                                           *)
THEOREM StoreCorrect == StoreSpec => []StoreInv
<1>1. StoreIInv => StoreTypeOK
    BY TablesAreNames DEF StoreIInv, StoreTypeOK, PickFits, Progress, RowsFit
<1>2. StoreIInv => TablesAreBacked /\ NamedBackendOpens
    BY DEF StoreIInv, FileFits, TablesFit, TablesAreBacked, DsnFits
<1>. QED BY <1>1, <1>2, StoreStays, OneIsInside, PTL DEF StoreInv

(* Every row of the file stands in the table of its type, though the name   *)
(* is normalised twice on the way, and under a key of its own.              *)
THEOREM RowsFiled == StoreSpec => []RowsAreFiled
<1>1. StoreIInv => RowsOfTheirType /\ KeysAreUnique
    BY DEF StoreIInv, FileFits, RowsFit, Filed, RowsOfTheirType
<1>. QED BY <1>1, StoreStays, PTL DEF RowsAreFiled
=============================================================================
