---- MODULE MCRecordStore ----
EXTENDS RecordStore

MCUpper == [c \in {"A", "B"} |-> IF c = "A" THEN "a" ELSE "b"]
MCPlain == {"a", "b", "1"}

\* A_B and A-b share one table, a_b; an operation whose Out is no struct has "records".
Record(type, id, data) == [type |-> type, id |-> id, data |-> data]
AB == <<"A", "_", "B">>
MCRecords == {Record(AB, "1", "x"), Record(<<"A", "-", "b">>, "1", "y"),
              Record(<<"A", "-", "b">>, "1", "z"), Record(<<"records">>, "unset", "x")}
One == <<Record(AB, "1", "x")>>
Two == <<Record(<<"A", "-", "b">>, "1", "y"), Record(<<"A", "-", "b">>, "1", "z")>>
Three == <<Record(<<"records">>, "unset", "x")>>
CONSTANTS c1, c2, c3
MCStreamOf == [c \in {c1, c2, c3} |-> IF c = c1 THEN One ELSE IF c = c2 THEN Two ELSE Three]

Dsn(form, scheme) == [form |-> form, scheme |-> scheme, path |-> "x"]
MCDsns == {Dsn("bare", ""), Dsn("colon", "duckdb"), Dsn("url", "duckdb")}
====
