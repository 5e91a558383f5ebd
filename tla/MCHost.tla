------------------------------- MODULE MCHost -------------------------------
(* Two domains for TLC: either their names vary and their operations are   *)
(* the usual ones, or their operations vary and their names are clear.     *)
EXTENDS Host

CONSTANTS d1, d2, c1, c2, go, rd, gr, bad, feed, book, page, aBook, aPage, capPage, seg, url

I(s, al) == [scheme |-> s, aliases |-> al]
Op(srch, t, u, r, l) == [search |-> srch, type |-> t, uri |-> u, resolver |-> r, list |-> l]

MCTypeAuthority == book :> aBook @@ page :> aPage
MCLower == aBook :> aBook @@ aPage :> aPage @@ capPage :> aPage

ClearInfo == d1 :> I(go, <<gr>>) @@ d2 :> I(rd, <<>>)
Usual == <<Op(FALSE, book, Nobody, FALSE, FALSE), Op(FALSE, page, aBook, FALSE, TRUE)>>

MCInfos == {I(go, <<gr>>), I(go, <<rd, gr>>), I(rd, <<gr, feed>>), I(rd, <<go>>),
            I(feed, <<>>), I(rd, <<rd>>), I(rd, <<bad>>), I(rd, <<>>)}
MixedCase == <<Op(FALSE, page, aBook, FALSE, TRUE), Op(FALSE, page, capPage, FALSE, FALSE)>>
MCOpLists == {Usual, MixedCase,
    <<Op(TRUE, book, Nobody, FALSE, FALSE), Op(FALSE, book, Nobody, TRUE, FALSE),
      Op(FALSE, book, Nobody, TRUE, FALSE)>>,
    <<Op(TRUE, NoType, Nobody, FALSE, FALSE), Op(FALSE, page, Nobody, FALSE, FALSE),
      Op(FALSE, book, aPage, TRUE, FALSE)>>}

MCRecordIds == {<<>>, <<seg, seg>>, <<url, Blank, seg>>}
MCClassified == {[authority |-> capPage, id |-> <<seg>>]}
MCLinks == {[scheme |-> gr, authority |-> aBook, id |-> <<seg>>]}
MCTyped == {[scheme |-> feed, authority |-> aBook, path |-> <<<<seg>>>>],
            [scheme |-> gr, authority |-> capPage, path |-> <<<<seg, url>>>>]}

(* The names or the operations vary, not both. *)
MCInit == HostInit /\ \/ info = ClearInfo /\ ops[d2] \in {Usual, MixedCase}
                      \/ info[d1].scheme = go /\ \A d \in Doms : ops[d] = Usual
MCSpec == MCInit /\ [][HostNext]_allVars /\ \A c \in Callers : WF_allVars(Step(c))
=============================================================================
