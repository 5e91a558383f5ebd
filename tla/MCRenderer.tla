----------------------------- MODULE MCRenderer -----------------------------
(* Runs of up to three records for TLC: every format over a few record     *)
(* types, and one record of every type in the format that looks hardest.   *)
EXTENDS Renderer

F(k, exp, gone, hid, u, id) ==
    [key |-> k, exported |-> exp, gone |-> gone, hidden |-> hid, isUrl |-> u, isId |-> id]
Alone(f) == f @@ [embed |-> "no", named |-> FALSE, sub |-> <<>>]
Embed(how, nm, exp, hid, sub) ==
    F("base", exp, FALSE, hid, FALSE, FALSE) @@ [embed |-> how, named |-> nm, sub |-> sub]

Id == F("id", TRUE, FALSE, FALSE, FALSE, TRUE)
Plainly == {Id, F("id", TRUE, FALSE, FALSE, FALSE, FALSE), F("url", TRUE, FALSE, FALSE, FALSE, FALSE),
            F("url", TRUE, FALSE, TRUE, TRUE, FALSE), F("name", TRUE, FALSE, FALSE, TRUE, FALSE),
            F("name", TRUE, FALSE, TRUE, FALSE, FALSE), F("name", TRUE, TRUE, FALSE, FALSE, FALSE),
            F("key", FALSE, FALSE, FALSE, FALSE, FALSE), F("key", TRUE, FALSE, FALSE, FALSE, TRUE)}
Subs == {<<Id, F("url", TRUE, FALSE, FALSE, TRUE, FALSE)>>, <<F("name", TRUE, FALSE, TRUE, TRUE, FALSE)>>}
MCFields == {Alone(f) : f \in Plainly}
            \union {Embed(how, nm, exp, hid, sub) : how \in {"value", "pointer"}, nm \in BOOLEAN,
                                                    exp \in BOOLEAN, hid \in BOOLEAN, sub \in Subs}
MCShapes == {<<f>> : f \in MCFields} \union {<<f, g>> : f \in MCFields, g \in MCFields}

Few == {<<Alone(Id), Alone(F("name", TRUE, FALSE, FALSE, FALSE, FALSE))>>,
        <<Embed("value", FALSE, TRUE, FALSE, <<Id, F("url", TRUE, FALSE, FALSE, TRUE, FALSE)>>)>>}
MCProjections == {<<>>, <<"name", "id", "other">>}
MCExplicit == <<"id">>

MCInit == RendererInit /\ (opt.shape \in Few \/ (opt.format = "url" /\ opt.header /\ opt.fields = <<>>))
MCNext == RendererNext /\ (opt.shape \in Few \/ Len(kinds) = 0)
MCSpec == MCInit /\ [][MCNext]_renderVars
=============================================================================
