------------------------------ MODULE CliProofs ------------------------------
(* Theorems about the command line, for any limits, handlers, record types   *)
(* and projections.  CliRun: the command runs Invoke as it is specified, so  *)
(* what InvokeProofs shows of an invocation holds of every run.  Renderer:   *)
(* what its lines and flags mean while records come, and what they leave.    *)
EXTENDS CliRun, Renderer, InvokeProofs, Induction

WantsOK == wants \in CommandLines

(* A step of a run is a step of Invoke, or one Invoke does not see. *)
LEMMA CliStepRuns ==
    ASSUME WantsOK, CliNext
    PROVE  [InvokeNext]_invokeVars
<1>1. cmd \in Calls
    BY CliAssumption
<1>2. CASE RunStep
  <2>1. ASSUME NEW s \in BOOLEAN, NEW style \in HandlerStyles,
               Bind(cmd, [limit |-> wants.limit, single |-> s, teed |-> wants.db,
                          style |-> style])
        PROVE  InvokeNext
    <3>1. [limit |-> wants.limit, single |-> s, teed |-> wants.db, style |-> style]
            \in RunContexts
      BY DEF WantsOK, CommandLines, RunContexts
    <3>. QED BY <1>1, <2>1, <3>1 DEF InvokeNext, InvokeStep
  <2>2. CASE \/ BindFails(cmd) \/ Emit(cmd) \/ Accept(cmd) \/ Refuse(cmd) \/ Return(cmd)
             \/ \E kept \in BOOLEAN : Tee(cmd, kept)
             \/ \E ok \in BOOLEAN : Flush(cmd, ok)
    BY <1>1, <2>2 DEF InvokeNext, InvokeStep
  <2>. QED BY <1>2, <2>1, <2>2 DEF RunStep
<1>3. CASE ~RunStep
    BY <1>3 DEF CliNext, ParseFlags, ValidateArgs, BadTemplate, OpenFails, PreRun, BuildClient,
       BuildRenderer, CommandFails, CommandSucceeds, PostRun, Go, ExitWith
<1>. QED BY <1>2, <1>3

LEMMA WantsStep ==
    ASSUME WantsOK, [CliNext]_allVars
    PROVE  WantsOK'
<1>1. UNCHANGED wants
    BY DEF CliNext, allVars, cliVars, ParseFlags, ValidateArgs, BadTemplate, OpenFails, PreRun,
       BuildClient, BuildRenderer, RunStep, CommandFails, CommandSucceeds, PostRun, Go, ExitWith
<1>. QED BY <1>1 DEF WantsOK

(* The command of a run is an Invoke. *)
THEOREM CliRunsInvoke == CliSpec => RunsInvoke
<1>1. CliInit => InvokeInit /\ WantsOK
    BY DEF CliInit, WantsOK
<1>2. WantsOK /\ [CliNext]_allVars => [InvokeNext]_invokeVars
    BY CliStepRuns DEF allVars
<1>. QED BY <1>1, <1>2, WantsStep, PTL DEF CliSpec, RunsInvoke, InvokeSpec

(* So -n, the order of the records and the store hold from the shell, for  *)
(* any -n and any number of records.                                       *)
THEOREM CliDeliveryHolds == CliSpec => []DeliveryIsAccounted
BY CliRunsInvoke, DeliveryHolds, PTL DEF RunsInvoke
----------------------------------------------------------------------------
(* The invariant of a run: how the store, the invocation and the exit code *)
(* stand at each stage.                                                    *)
OpenStore == IF wants.db THEN "open" ELSE "none"
StoreFits == /\ stage \in {"flags", "args", "prerun"} => store = "none"
             /\ stage \in {"client", "renderer", "invoke", "postrun"} => store = OpenStore
             /\ stage = "exited" => store \in {"none", "open", "closed"}
             /\ stage = "exited" /\ pc[cmd] = "done" /\ wants.db => store # "none"
CallFits == /\ stage \notin {"invoke", "postrun", "exited"} => pc[cmd] = "idle"
            /\ stage = "postrun" => pc[cmd] = "done" /\ result[cmd] = "nil"
            /\ stage = "exited" => pc[cmd] \in {"idle", "done"}
            /\ pc[cmd] = "tee" => run[cmd].teed
            /\ run[cmd].teed => wants.db
            /\ stored[cmd] # {} => run[cmd].teed /\ pc[cmd] # "idle"
ExitFits == /\ stage # "exited" <=> exit = -1
            /\ exit # -1 /\ pc[cmd] = "idle" => exit # 0
            /\ exit # -1 /\ pc[cmd] = "done" =>
                 \/ result[cmd] # "nil" /\ exit \in ExitCodes(result[cmd])
                 \/ /\ result[cmd] = "nil"
                    /\ \/ exit = 0 /\ store = IF wants.db THEN "closed" ELSE "none"
                       \/ exit = 1 /\ store = "closed"
RunFits == /\ stage \in {"flags", "args", "prerun", "client", "renderer", "invoke", "postrun",
                         "exited"}
           /\ exit \in -1..8
           /\ WantsOK /\ StoreFits /\ CallFits /\ ExitFits

LEMMA ExitCodesType ==
    ASSUME NEW e \in InvokeResults
    PROVE  /\ ExitCodes(e) \subseteq 0..8
           /\ e # "nil" => 0 \notin ExitCodes(e)
           /\ 3 \in ExitCodes(e) => e = "noResults"
<1>1. CASE e = "nil" \/ e = "usage" \/ e = "noResults"
    BY <1>1 DEF ExitCodes
<1>2. CASE e = "failed"
    BY <1>2 DEF ExitCodes, ClassifiedCodes
<1>3. CASE e \notin {"nil", "usage", "noResults", "failed"}
  <2>1. ExitCodes(e) = {1}
      BY <1>3 DEF ExitCodes
  <2>. QED BY <1>3, <2>1
<1>. QED BY <1>1, <1>2, <1>3

LEMMA RunFitsInit == CliInit => RunFits
<1> SUFFICES ASSUME CliInit PROVE RunFits
    OBVIOUS
<1>1. /\ pc[cmd] = "idle" /\ run[cmd] = Unbound /\ stored[cmd] = {}
    BY CliAssumption DEF CliInit, InvokeInit
<1>. QED BY <1>1 DEF CliInit, RunFits, WantsOK, StoreFits, CallFits, ExitFits, Unbound

(* The steps before the command, which leave the invocation alone.         *)
LEMMA StageStep ==
    ASSUME RunFits, InvokeTypeOK,
           \/ ParseFlags \/ ValidateArgs \/ BadTemplate \/ OpenFails \/ PreRun
           \/ BuildClient \/ BuildRenderer
    PROVE  RunFits'
<1> USE DEF RunFits, WantsOK, Go, ExitWith, ClassifiedCodes
<1>1. UNCHANGED invokeVars /\ UNCHANGED wants
    BY DEF ParseFlags, ValidateArgs, BadTemplate, OpenFails, PreRun, BuildClient, BuildRenderer
<1>2. /\ stage \in {"flags", "args", "prerun", "client", "renderer"}
      /\ \/ /\ stage' \in {"args", "prerun", "client", "renderer", "invoke"}
            /\ exit' = exit
         \/ stage' = "exited" /\ exit' \in 1..8
    BY DEF ParseFlags, ValidateArgs, BadTemplate, OpenFails, PreRun, BuildClient, BuildRenderer
<1>3. CallFits' /\ pc[cmd] = "idle"
    BY <1>1, <1>2 DEF CallFits, invokeVars
<1>4. StoreFits'
    BY <1>1, <1>3 DEF StoreFits, OpenStore, ParseFlags, ValidateArgs, BadTemplate, OpenFails,
       PreRun, BuildClient, BuildRenderer, invokeVars
<1>5. ExitFits'
    BY <1>1, <1>2, <1>3 DEF ExitFits, invokeVars
<1>. QED BY <1>1, <1>2, <1>3, <1>4, <1>5

(* The steps of the invocation. *)
LEMMA CommandStep ==
    ASSUME RunFits, InvokeTypeOK, RunStep
    PROVE  RunFits'
<1> USE DEF RunFits, InvokeTypeOK
<1>1. stage = "invoke" /\ UNCHANGED cliVars /\ cmd \in Calls
    BY CliAssumption DEF RunStep
<1>2. WantsOK' /\ StoreFits'
    BY <1>1 DEF cliVars, WantsOK, StoreFits, OpenStore
<1>3. ExitFits'
    BY <1>1 DEF cliVars, ExitFits
<1>4. CallFits'
  <2>1. stage' = "invoke" /\ wants' = wants
      BY <1>1 DEF cliVars
  <2>2. CASE BindFails(cmd) \/ Accept(cmd) \/ Refuse(cmd) \/ Return(cmd)
             \/ \E ok \in BOOLEAN : Flush(cmd, ok)
    <3>1. pc'[cmd] \notin {"idle", "tee"} /\ run' = run /\ stored' = stored
        BY <1>1, <2>2 DEF BindFails, Accept, Refuse, Return, Flush
    <3>. QED BY <2>1, <3>1 DEF CallFits
  <2>3. ASSUME NEW s \in BOOLEAN, NEW style \in HandlerStyles,
               Bind(cmd, [limit |-> wants.limit, single |-> s, teed |-> wants.db,
                          style |-> style])
        PROVE  CallFits'
    <3>1. /\ pc[cmd] = "idle" /\ pc'[cmd] = "handler" /\ run'[cmd].teed = wants.db
          /\ stored' = stored
        BY <1>1, <2>3 DEF Bind
    <3>. QED BY <2>1, <3>1 DEF CallFits
  <2>4. CASE Emit(cmd)
    <3>1. pc'[cmd] = (IF run[cmd].teed THEN "tee" ELSE "sink") /\ run' = run /\ stored' = stored
        BY <1>1, <2>4 DEF Emit
    <3>. QED BY <2>1, <3>1 DEF CallFits
  <2>5. ASSUME NEW kept \in BOOLEAN, Tee(cmd, kept) PROVE CallFits'
    <3>1. pc[cmd] = "tee" /\ pc'[cmd] = "sink" /\ run' = run
        BY <1>1, <2>5 DEF Tee
    <3>. QED BY <2>1, <3>1 DEF CallFits
  <2>. QED BY <2>2, <2>3, <2>4, <2>5 DEF RunStep
<1>. QED BY <1>1, <1>2, <1>3, <1>4 DEF cliVars

(* The end of the run. *)
LEMMA ExitStep ==
    ASSUME RunFits, InvokeTypeOK, CommandFails \/ CommandSucceeds \/ PostRun
    PROVE  RunFits'
<1> USE DEF RunFits, WantsOK, Go, ExitWith
<1>1. cmd \in Calls /\ result[cmd] \in InvokeResults
    BY CliAssumption DEF InvokeTypeOK
<1>2. UNCHANGED invokeVars /\ UNCHANGED wants /\ stage \in {"invoke", "postrun"}
      /\ pc[cmd] = "done"
    BY DEF CommandFails, CommandSucceeds, PostRun, CallFits
<1>3. CASE CommandFails
  <2>1. /\ result[cmd] # "nil" /\ exit' \in ExitCodes(result[cmd]) /\ stage' = "exited"
        /\ store' = store
      BY <1>3 DEF CommandFails
  <2>2. exit' \in 0..8
      BY <1>1, <2>1, ExitCodesType
  <2>3. StoreFits' /\ CallFits' /\ ExitFits'
      BY <1>2, <2>1, <2>2 DEF StoreFits, CallFits, ExitFits, OpenStore, invokeVars
  <2>. QED BY <1>2, <2>1, <2>2, <2>3
<1>4. CASE CommandSucceeds
  <2>1. result[cmd] = "nil" /\ stage' = "postrun" /\ UNCHANGED <<exit, store>> /\ stage = "invoke"
      BY <1>4 DEF CommandSucceeds
  <2>. QED BY <1>2, <2>1 DEF StoreFits, CallFits, ExitFits, OpenStore, invokeVars
<1>5. CASE PostRun
  <2>1. /\ stage = "postrun" /\ stage' = "exited"
        /\ exit' \in IF store = "open" THEN {0, 1} ELSE {0}
        /\ store' = IF store = "open" THEN "closed" ELSE store
      BY <1>5 DEF PostRun
  <2>2. result[cmd] = "nil" /\ store = IF wants.db THEN "open" ELSE "none"
      BY <2>1 DEF CallFits, StoreFits, OpenStore
  <2>3. StoreFits' /\ CallFits' /\ ExitFits'
      BY <1>2, <2>1, <2>2 DEF StoreFits, CallFits, ExitFits, OpenStore, invokeVars
  <2>. QED BY <1>2, <2>1, <2>3
<1>. QED BY <1>3, <1>4, <1>5

LEMMA RunFitsStep ==
    ASSUME RunFits, InvokeTypeOK, [CliNext]_allVars
    PROVE  RunFits'
<1>1. CASE UNCHANGED allVars
    BY <1>1 DEF allVars, cliVars, invokeVars, RunFits, WantsOK, StoreFits, CallFits, ExitFits,
       OpenStore
<1>. QED BY <1>1, StageStep, CommandStep, ExitStep DEF CliNext

(* What the invariant says, with that of Invoke, of a run that is over.    *)
LEMMA FitsImplies ==
    ASSUME RunFits, InvokeInv
    PROVE  CliInv /\ ExitCodeTells
<1>1. cmd \in Calls /\ InvokeTypeOK /\ result[cmd] \in InvokeResults
    BY CliAssumption DEF InvokeInv, InvokeTypeOK
<1>2. CliInv
  <2>1. CliTypeOK
      BY <1>1 DEF CliTypeOK, RunFits, WantsOK, StoreFits, OpenStore
  <2>2. StoreOutlivesTee
      BY DEF StoreOutlivesTee, RunFits, StoreFits, CallFits, OpenStore
  <2>. QED BY <2>1, <2>2 DEF CliInv
<1>3. /\ pc[cmd] = "done" => result[cmd] \in {"usage", Verdict(cmd, flushed[cmd])}
      /\ pc[cmd] = "idle" => rows[cmd] = <<>> /\ run[cmd] = Unbound
      /\ SuccessIsComplete /\ LimitIsSuccess
    BY <1>1, InvImplies DEF InvokeInv, ResultFits
<1>4. exit # -1 => pc[cmd] \in {"idle", "done"}
    BY DEF RunFits, ExitFits, CallFits
<1>5. ExitZeroIsSuccess
  <2> SUFFICES ASSUME exit = 0
               PROVE  /\ pc[cmd] = "done" /\ result[cmd] = "nil"
                      /\ Disciplined(cmd) => Printed = produced[cmd] \/ LostInFlush
                      /\ run[cmd].single \/ rows[cmd] # <<>>
                      /\ store = IF wants.db THEN "closed" ELSE "none"
      BY DEF ExitZeroIsSuccess
  <2>1. pc[cmd] = "done"
      BY <1>4 DEF RunFits, ExitFits
  <2>2. result[cmd] = "nil" /\ store = IF wants.db THEN "closed" ELSE "none"
      BY <1>1, <2>1, ExitCodesType DEF RunFits, ExitFits
  <2>3. run[cmd].single \/ rows[cmd] # <<>>
      BY <1>3, <2>1, <2>2 DEF Verdict
  <2>4. Disciplined(cmd) => Printed = produced[cmd] \/ LostInFlush
    <3>1. Disciplined(cmd) => /\ produced[cmd] = Len(rows[cmd])
                              /\ flushed[cmd] \/ AtLimit(cmd, Len(rows[cmd]))
      BY <1>1, <1>3, <2>1, <2>2 DEF SuccessIsComplete
    <3>. QED BY <2>1, <3>1 DEF Printed, LostInFlush
  <2>. QED BY <2>1, <2>2, <2>3, <2>4
<1>6. LimitExitsZero
  <2> SUFFICES ASSUME exit # -1, pc[cmd] = "done", run[cmd].style = "return",
                      AtLimit(cmd, Len(rows[cmd]))
               PROVE  exit = 0 \/ (exit = 1 /\ store = "closed")
      BY DEF LimitExitsZero
  <2>1. result[cmd] = "nil"
      BY <1>1, <1>3 DEF LimitIsSuccess
  <2>. QED BY <2>1 DEF RunFits, ExitFits
<1>7. ExitThreeIsEmpty
  <2> SUFFICES ASSUME exit = 3, hErr[cmd] # "noResults"
               PROVE  rows[cmd] = <<>> /\ ~run[cmd].single /\ Printed = 0
      BY DEF ExitThreeIsEmpty
  <2>1. rows[cmd] = <<>> /\ ~run[cmd].single
    <3>1. CASE pc[cmd] = "idle"
        BY <1>3, <3>1 DEF Unbound
    <3>2. CASE pc[cmd] = "done"
      <4>1. result[cmd] = "noResults"
          BY <1>1, <3>2, ExitCodesType DEF RunFits, ExitFits
      <4>. QED BY <1>3, <3>2, <4>1 DEF Verdict
    <3>. QED BY <1>4, <3>1, <3>2
  <2>2. Len(rows[cmd]) = 0
      BY <2>1
  <2>. QED BY <2>1, <2>2 DEF Printed
<1>. QED BY <1>2, <1>5, <1>6, <1>7 DEF ExitCodeTells

(* The store outlives the tee, and the exit code tells a script what       *)
(* happened to the records, but for the loss that a limit and a failing    *)
(* Flush hide behind a 0 (LostInFlush): for any -n, any handler and any    *)
(* number of records.                                                      *)
THEOREM CliCorrect == CliSpec => [](CliInv /\ ExitCodeTells)
<1>1. InvokeInv => InvokeTypeOK
    BY DEF InvokeInv
<1>2. CliSpec => []InvokeInv
    BY CliRunsInvoke, InvokeCorrect, PTL DEF RunsInvoke
<1>3. CliSpec => []RunFits
    BY <1>1, <1>2, RunFitsInit, RunFitsStep, PTL DEF CliSpec
<1>. QED BY <1>2, <1>3, FitsImplies, PTL

(* The store is open whenever the tee hands it a record, and a record is in *)
(* it only if it was opened for this run.                                   *)
THEOREM CliStoreHolds == CliSpec => []CliInv
BY CliCorrect, PTL
----------------------------------------------------------------------------
(* The text of a renderer. A line is a token with a width; what is written  *)
(* or held back is judged by the options, the records and the lines alone.  *)
Marks == {"row", "head", "[", "comma", "]", "[]", "part"}
Tokens(W) == [t : Marks, n : Nat, width : W]
RowsOf(s) == {i \in DOMAIN s : s[i].t = "row"}
Numbers(s) == {s[i].n : i \in RowsOf(s)}
Rising(s) == \A i, j \in RowsOf(s) : i < j => s[i].n < s[j].n
Heads(o) == o.format = "grid" \/ (o.format = "delim" /\ o.header)
Headed(o, s) == /\ \A i \in DOMAIN s : s[i].t = "head" => i = 1 /\ Heads(o)
                /\ Heads(o) /\ s # <<>> => s[1].t = "head"
LinesOf(s) == {i \in DOMAIN s : s[i].t \in {"row", "head"}}
Aligned(o, s, ks) == \A i \in LinesOf(s) : /\ s[i].n \in 1..Len(ks)
                                           /\ Projected(o, ks[s[i].n], s[i].width)
Steady(o, s, ks) == /\ Rising(s) /\ Headed(o, s) /\ Aligned(o, s, ks)
                    /\ Numbers(s) \subseteq 1..Len(ks)

LEMMA TokenTypes ==
    ASSUME NEW W, NEW w \in W, NEW n \in Nat, 0 \in W
    PROVE  /\ Row(n, w) \in Tokens(W) /\ Row(n, w).t = "row" /\ Row(n, w).n = n
           /\ Row(n, w).width = w
           /\ \A m \in Marks : Mark(m) \in Tokens(W) /\ Mark(m).t = m
<1>1. Row(n, w) \in Tokens(W) /\ Row(n, w).t = "row" /\ Row(n, w).n = n /\ Row(n, w).width = w
    BY DEF Row, Tokens, Marks
<1>2. ASSUME NEW m \in Marks PROVE Mark(m) \in Tokens(W) /\ Mark(m).t = m
    BY DEF Mark, Tokens
<1>. QED BY <1>1, <1>2

LEMMA TextAppends ==
    ASSUME NEW W, NEW s \in Seq(Tokens(W)), NEW e \in Tokens(W)
    PROVE  /\ Append(s, e) \in Seq(Tokens(W))
           /\ Append(s, e) # <<>>
           /\ Len(Append(s, e)) = Len(s) + 1 /\ Len(s) \in Nat
           /\ DOMAIN s = 1..Len(s) /\ DOMAIN Append(s, e) = 1..(Len(s) + 1)
           /\ \A i \in 1..Len(s) : Append(s, e)[i] = s[i]
           /\ Append(s, e)[Len(s) + 1] = e
<1>. DEFINE S == Tokens(W)
<1>. HIDE DEF S
<1>. QED BY AppendProperties DEF S

(* Appending a row takes it to the rows. *)
LEMMA RowAppends ==
    ASSUME NEW W, NEW s \in Seq(Tokens(W)), NEW e \in Tokens(W)
    PROVE  /\ RowsOf(Append(s, e)) = IF e.t = "row" THEN RowsOf(s) \cup {Len(s) + 1} ELSE RowsOf(s)
           /\ LinesOf(Append(s, e)) = IF e.t \in {"row", "head"} THEN LinesOf(s) \cup {Len(s) + 1}
                                      ELSE LinesOf(s)
BY TextAppends DEF RowsOf, LinesOf

LEMMA SteadyStays ==
    ASSUME NEW W, NEW s \in Seq(Tokens(W)), NEW o, NEW ks \in Seq(Kinds), NEW k \in Kinds,
           Steady(o, s, ks)
    PROVE  Steady(o, s, Append(ks, k))
<1>1. Len(Append(ks, k)) = Len(ks) + 1 /\ \A i \in 1..Len(ks) : Append(ks, k)[i] = ks[i]
    OBVIOUS
<1>2. Len(ks) \in Nat
    OBVIOUS
<1>3. Aligned(o, s, Append(ks, k))
    BY <1>1, <1>2 DEF Steady, Aligned
<1>4. Numbers(s) \subseteq 1..Len(Append(ks, k))
    BY <1>1 DEF Steady
<1>. QED BY <1>3, <1>4 DEF Steady

LEMMA SteadyRow ==
    ASSUME NEW W, NEW s \in Seq(Tokens(W)), NEW o, NEW ks, NEW n \in 1..Len(ks), Len(ks) \in Nat,
           NEW w \in W, 0 \in W, Steady(o, s, ks),
           \A x \in Numbers(s) : x < n,
           Heads(o) => s # <<>>, Projected(o, ks[n], w)
    PROVE  LET r == Append(s, Row(n, w))
           IN  /\ r \in Seq(Tokens(W)) /\ Steady(o, r, ks)
               /\ Numbers(r) = Numbers(s) \cup {n}
<1>. DEFINE e == Row(n, w)
            r == Append(s, e)
<1>1. n \in Nat
    OBVIOUS
<1>2. e \in Tokens(W) /\ e.t = "row" /\ e.n = n /\ e.width = w
    BY <1>1, TokenTypes
<1>. HIDE DEF e
<1>3. /\ r \in Seq(Tokens(W)) /\ r # <<>>
      /\ Len(s) \in Nat /\ DOMAIN s = 1..Len(s) /\ DOMAIN r = 1..(Len(s) + 1)
      /\ \A i \in 1..Len(s) : r[i] = s[i]
      /\ r[Len(s) + 1] = e
    BY <1>2, TextAppends
<1>4. /\ RowsOf(r) = RowsOf(s) \cup {Len(s) + 1} /\ RowsOf(s) \subseteq 1..Len(s)
      /\ LinesOf(r) = LinesOf(s) \cup {Len(s) + 1} /\ LinesOf(s) \subseteq 1..Len(s)
    BY <1>2, <1>3, RowAppends DEF RowsOf, LinesOf
<1>. HIDE DEF r
<1>5. \A i \in RowsOf(s) : s[i].n < n /\ r[i] = s[i]
    BY <1>3, <1>4 DEF Numbers
<1>6. Rising(r)
  <2>. SUFFICES ASSUME NEW i \in RowsOf(r), NEW j \in RowsOf(r), i < j PROVE r[i].n < r[j].n
      BY DEF Rising
  <2>1. i \in RowsOf(s)
      BY <1>3, <1>4
  <2>2. CASE j \in RowsOf(s)
      BY <1>5, <2>1, <2>2 DEF Steady, Rising
  <2>3. CASE j = Len(s) + 1
      BY <1>2, <1>3, <1>5, <2>1, <2>3
  <2>. QED BY <1>4, <2>2, <2>3
<1>7. Headed(o, r)
  <2>1. \A i \in DOMAIN r : r[i].t = "head" => i = 1 /\ Heads(o)
      BY <1>2, <1>3 DEF Steady, Headed
  <2>2. Heads(o) => r[1].t = "head"
    <3>1. SUFFICES ASSUME Heads(o) PROVE r[1].t = "head"
        OBVIOUS
    <3>2. s # <<>> /\ s[1].t = "head"
        BY <3>1 DEF Steady, Headed
    <3>3. 1 \in 1..Len(s)
        BY <1>3, <3>2
    <3>. QED BY <1>3, <3>2, <3>3
  <2>. QED BY <2>1, <2>2 DEF Headed
<1>8. Aligned(o, r, ks)
  <2>. SUFFICES ASSUME NEW i \in LinesOf(r)
                PROVE  r[i].n \in 1..Len(ks) /\ Projected(o, ks[r[i].n], r[i].width)
      BY DEF Aligned
  <2>1. CASE i \in LinesOf(s)
      BY <1>3, <1>4, <2>1 DEF Steady, Aligned
  <2>2. CASE i = Len(s) + 1
      BY <1>1, <1>2, <1>3, <2>2
  <2>. QED BY <1>4, <2>1, <2>2
<1>9. Numbers(r) = Numbers(s) \cup {n}
    BY <1>2, <1>3, <1>4, <1>5 DEF Numbers
<1>10. Numbers(r) \subseteq 1..Len(ks)
    BY <1>1, <1>9 DEF Steady
<1>. QED BY <1>3, <1>6, <1>7, <1>8, <1>9, <1>10 DEF Steady, r, e

LEMMA SteadyNext ==
    ASSUME NEW W, NEW s \in Seq(Tokens(W)), NEW o, NEW ks \in Seq(Kinds), NEW k \in Kinds,
           NEW w \in W, 0 \in W, Steady(o, s, ks),
           Heads(o) => s # <<>>, Projected(o, k, w)
    PROVE  LET r == Append(s, Row(Len(ks) + 1, w))
           IN  /\ r \in Seq(Tokens(W)) /\ Steady(o, r, Append(ks, k))
               /\ Numbers(r) = Numbers(s) \cup {Len(ks) + 1}
<1>. DEFINE n == Len(ks) + 1
            all == Append(ks, k)
<1>1. Len(ks) \in Nat /\ Len(all) = n /\ n \in 1..Len(all) /\ Len(all) \in Nat /\ all[n] = k
    OBVIOUS
<1>2. Steady(o, s, all)
    BY SteadyStays
<1>3. \A x \in Numbers(s) : x < n
    BY <1>1 DEF Steady
<1>. HIDE DEF n, all
<1>4. Projected(o, all[n], w)
    BY <1>1
<1>5. LET r == Append(s, Row(n, w))
      IN  /\ r \in Seq(Tokens(W)) /\ Steady(o, r, all)
          /\ Numbers(r) = Numbers(s) \cup {n}
    BY <1>1, <1>2, <1>3, <1>4, SteadyRow
<1>. QED BY <1>5 DEF n, all

LEMMA SteadyMark ==
    ASSUME NEW W, NEW s \in Seq(Tokens(W)), NEW o, NEW ks, NEW e \in Tokens(W),
           Steady(o, s, ks), ~Heads(o), e.t \notin {"row", "head"}
    PROVE  /\ Append(s, e) \in Seq(Tokens(W)) /\ Steady(o, Append(s, e), ks)
           /\ Numbers(Append(s, e)) = Numbers(s)
<1>. DEFINE r == Append(s, e)
<1>1. /\ r \in Seq(Tokens(W))
      /\ Len(s) \in Nat /\ DOMAIN s = 1..Len(s) /\ DOMAIN r = 1..(Len(s) + 1)
      /\ \A i \in 1..Len(s) : r[i] = s[i]
      /\ r[Len(s) + 1] = e
    BY TextAppends
<1>2. /\ RowsOf(r) = RowsOf(s) /\ RowsOf(s) \subseteq 1..Len(s)
      /\ LinesOf(r) = LinesOf(s) /\ LinesOf(s) \subseteq 1..Len(s)
    BY <1>1, RowAppends DEF RowsOf, LinesOf
<1>. HIDE DEF r
<1>3. \A i \in RowsOf(s) \cup LinesOf(s) : r[i] = s[i]
    BY <1>1, <1>2
<1>4. Numbers(r) = Numbers(s)
    BY <1>2, <1>3 DEF Numbers
<1>5. Rising(r) /\ Aligned(o, r, ks)
    BY <1>2, <1>3 DEF Steady, Rising, Aligned
<1>6. Headed(o, r)
    BY <1>1 DEF Steady, Headed
<1>. QED BY <1>1, <1>4, <1>5, <1>6 DEF Steady, r

LEMMA SteadyHead ==
    ASSUME NEW W, NEW o, NEW ks, NEW n \in 1..Len(ks), Len(ks) \in Nat, NEW w \in W, Heads(o),
           Projected(o, ks[n], w)
    PROVE  LET s == <<Header(n, w)>>
           IN  s \in Seq(Tokens(W)) /\ Steady(o, s, ks) /\ Numbers(s) = {}
<1>. DEFINE e == Header(n, w)
<1>1. e \in Tokens(W) /\ e.t = "head" /\ e.n = n /\ e.width = w
    BY DEF Header, Tokens, Marks
<1>. HIDE DEF e
<1>2. RowsOf(<<e>>) = {} /\ LinesOf(<<e>>) = {1} /\ <<e>>[1] = e
    BY <1>1 DEF RowsOf, LinesOf
<1>3. Aligned(o, <<e>>, ks)
    BY <1>1, <1>2 DEF Aligned
<1>4. Headed(o, <<e>>)
    BY <1>1, <1>2 DEF Headed
<1>. QED BY <1>1, <1>2, <1>3, <1>4 DEF Steady, Rising, Numbers, e
----------------------------------------------------------------------------
(* The inductive invariant of the renderer. *)
Widths == {0} \cup {Width(k) : k \in Kinds}
RenderTypes ==
    /\ opt \in [format : Formats, header : BOOLEAN, fields : Projections, shape : Shapes]
    /\ flags \in [headerDone : BOOLEAN, jsonOpen : BOOLEAN, gridSeen : BOOLEAN]
    /\ sticky \in BOOLEAN /\ lost \in BOOLEAN
    /\ out \in Seq(Tokens(Widths)) /\ buffer \in Seq(Tokens(Widths))
    /\ kinds \in Seq(Kinds) /\ Len(kinds) <= MaxRecords
    /\ results \in Seq({"ok", "error", "panic"}) /\ Len(results) = Len(kinds)
    /\ phase \in {"open", "flushed", "panicked"} /\ flushRes \in {"none", "ok", "error"}
    /\ phase = "open" => flushRes = "none"
    /\ opt.format \notin {"grid", "delim"} => buffer = <<>>

(* A JSON array before its end. *)
OpenArray(n) == [i \in 1..(2 * n) |-> IF i = 1 THEN Mark("[")
                                      ELSE IF i % 2 = 0 THEN Row(i \div 2, 0) ELSE Mark("comma")]

(* While the run goes on, the lines written and held back are the accepted  *)
(* rows in order, under their header, as long as the buffer has not failed; *)
(* and the flags tell what has begun.                                       *)
Lines == out \o buffer
Running ==
    /\ Steady(opt, Lines, kinds)
    /\ opt.format \notin {"url", "encoder"} /\ ~sticky => Numbers(Lines) = Accepted
    /\ sticky => opt.format = "delim"
    /\ opt.format = "grid" => out = <<>> /\ (flags.gridSeen <=> buffer # <<>>)
    /\ opt.format = "delim" /\ ~sticky => (flags.headerDone <=> opt.header /\ Lines # <<>>)
    /\ opt.format = "json" => (flags.jsonOpen <=> out # <<>>)
    /\ opt.format = "json" /\ ~lost /\ (\A i \in DOMAIN kinds : Marshals(kinds[i]))
          => out = OpenArray(Len(kinds))

(* What no later step changes: what a run that is over has written. *)
Over == HeaderOnce /\ ProjectionAligns /\ AcceptedIsWritten /\ JsonIsOneArray

RenderIInv == /\ RenderTypes
              /\ phase = "open" => Running
              /\ phase # "open" => Over

LEMMA RenderInit == RendererInit => RenderIInv
<1>. SUFFICES ASSUME RendererInit PROVE RenderIInv
    OBVIOUS
<1>1. RenderTypes
  <2>1. Len(kinds) <= MaxRecords /\ Len(results) = Len(kinds)
      BY RendererAssumption DEF RendererInit
  <2>2. flags \in [headerDone : BOOLEAN, jsonOpen : BOOLEAN, gridSeen : BOOLEAN]
      BY DEF RendererInit
  <2>3. opt \in [format : Formats, header : BOOLEAN, fields : Projections, shape : Shapes]
      BY DEF RendererInit
  <2>4. sticky \in BOOLEAN /\ lost \in BOOLEAN
      BY DEF RendererInit
  <2>5. /\ out \in Seq(Tokens(Widths)) /\ buffer \in Seq(Tokens(Widths))
        /\ kinds \in Seq(Kinds) /\ results \in Seq({"ok", "error", "panic"})
      BY DEF RendererInit
  <2>. QED BY <2>1, <2>2, <2>3, <2>4, <2>5 DEF RendererInit, RenderTypes
<1>2. Lines = <<>> /\ RowsOf(<<>>) = {} /\ LinesOf(<<>>) = {} /\ Numbers(<<>>) = {}
    BY DEF RendererInit, Lines, RowsOf, LinesOf, Numbers
<1>3. Steady(opt, <<>>, kinds)
    BY <1>2 DEF Steady, Rising, Headed, Aligned
<1>4. Accepted = {}
    BY DEF RendererInit, Accepted
<1>5. OpenArray(0) = <<>>
    BY DEF OpenArray
<1>6. Running
    BY <1>2, <1>3, <1>4, <1>5 DEF RendererInit, Running
<1>. QED BY <1>1, <1>6 DEF RendererInit, RenderIInv

(* What a record counts for when Emit returns. *)
LEMMA EmitCounts ==
    ASSUME RenderTypes, NEW k \in Kinds, NEW res \in {"ok", "error", "panic"}, opt' = opt,
           kinds' = Append(kinds, k), results' = Append(results, res)
    PROVE  /\ Len(kinds) \in Nat /\ This = Len(kinds) + 1
           /\ Len(kinds') = This /\ Len(results') = This
           /\ DOMAIN kinds = 1..Len(kinds) /\ DOMAIN kinds' = 1..This
           /\ kinds'[This] = k /\ \A i \in 1..Len(kinds) : kinds'[i] = kinds[i]
           /\ Accepted' = IF res = "ok" /\ (opt.format = "list" => Width(k) # 0)
                          THEN Accepted \cup {This} ELSE Accepted
           /\ kinds' \in Seq(Kinds) /\ results' \in Seq({"ok", "error", "panic"})
<1>. DEFINE n == Len(kinds)
            R == {"ok", "error", "panic"}
<1>1. kinds \in Seq(Kinds) /\ results \in Seq(R) /\ Len(results) = n /\ n \in Nat
    BY DEF RenderTypes
<1>2. /\ Len(kinds') = n + 1 /\ kinds' \in Seq(Kinds) /\ DOMAIN kinds = 1..n
      /\ DOMAIN kinds' = 1..(n + 1)
      /\ kinds'[n + 1] = k /\ \A i \in 1..n : kinds'[i] = kinds[i]
    BY <1>1
<1>3. /\ Len(results') = n + 1 /\ results' \in Seq(R)
      /\ results'[n + 1] = res /\ \A i \in 1..n : results'[i] = results[i]
    BY <1>1
<1>4. Accepted = {i \in 1..n : results[i] = "ok" /\ (opt.format = "list" => Width(kinds[i]) # 0)}
    BY <1>2 DEF Accepted, Shown
<1>6. Accepted' = {i \in 1..(n + 1) : /\ results'[i] = "ok"
                                      /\ opt.format = "list" => Width(kinds'[i]) # 0}
    BY <1>2 DEF Accepted, Shown, Width, Columns
<1>. HIDE DEF n
<1>7. Accepted' = IF res = "ok" /\ (opt.format = "list" => Width(k) # 0)
                  THEN Accepted \cup {n + 1} ELSE Accepted
    BY <1>1, <1>2, <1>3, <1>4, <1>6
<1>. QED BY <1>1, <1>2, <1>3, <1>7 DEF This, n

LEMMA WidthsStay ==
    ASSUME opt' = opt
    PROVE  Widths' = Widths
BY DEF Widths, Width, Columns

LEMMA WidthsType == 0 \in Widths /\ \A k \in Kinds : Width(k) \in Widths
BY DEF Widths

(* --fields gives every record its width. *)
LEMMA ProjectedWidth ==
    ASSUME RenderTypes, NEW k \in Kinds
    PROVE  Projected(opt, k, Width(k))
<1>0. CASE k = "nil"
    BY <1>0 DEF Width, Columns, Projected
<1>. SUFFICES ASSUME opt.fields # <<>>, k # "nil" PROVE Width(k) = Len(opt.fields)
    BY <1>0 DEF Projected
<1>1. opt.fields \in Seq(Keys) /\ opt.fields # <<>> /\ k # "nil"
    BY RendererAssumption DEF RenderTypes
<1>2. CASE k = "explicit"
    BY <1>1, <1>2 DEF Width, Columns
<1>3. CASE k # "explicit"
  <2>. DEFINE cols == Pick(Plan(opt.shape), opt.fields)
  <2>1. cols = [i \in DOMAIN opt.fields |-> ByName(Plan(opt.shape), opt.fields[i])]
      BY <1>1 DEF Pick
  <2>2. Columns(k) = [i \in DOMAIN cols |-> cols[i].name]
      BY <1>1, <1>3 DEF Columns
  <2>3. DOMAIN cols = 1..Len(opt.fields)
      BY <1>1, <2>1
  <2>. HIDE DEF cols
  <2>. QED BY <1>1, <2>2, <2>3 DEF Width
<1>. QED BY <1>2, <1>3

(* The writes of a streaming format. *)
LEMMA WritesOne ==
    ASSUME RenderTypes, NEW e \in Tokens(Widths), NEW m \in {0, 1}, Writes(<<e>>, m)
    PROVE  /\ m = 1 => out' = Append(out, e) /\ lost' = lost
           /\ m = 0 => out' = out /\ lost'
<1>. DEFINE S == Tokens(Widths)
<1>1. out \in Seq(S) /\ lost \in BOOLEAN /\ Len(<<e>>) = 1
    BY DEF RenderTypes
<1>2. SubSeq(<<e>>, 1, 0) = <<>> /\ SubSeq(<<e>>, 1, 1) = <<e>>
  <2>. DEFINE s == <<e>>
  <2>1. s \in Seq(S) /\ Len(s) = 1
      OBVIOUS
  <2>. HIDE DEF s, S
  <2>2. SubSeq(s, 1, 0) = <<>> /\ SubSeq(s, 1, Len(s)) = s
      BY <2>1, SubSeqEmpty, SubSeqFull
  <2>. QED BY <2>1, <2>2 DEF s
<1>3. out' = out \o SubSeq(<<e>>, 1, m) /\ lost' = (lost \/ m < 1)
    BY <1>1 DEF Writes
<1>. HIDE DEF S
<1>4. out \o <<>> = out
    BY <1>1, ConcatEmptySeq
<1>5. e \in S
    BY DEF S
<1>6. out \o <<e>> = Append(out, e)
    BY <1>1, <1>5, AppendIsConcat
<1>7. m = 0 => lost'
  <2>1. m = 0 => m < 1
      OBVIOUS
  <2>. QED BY <1>3, <2>1, Zenon
<1>8. m = 1 => lost' = lost
    BY <1>1, <1>3
<1>. QED BY <1>2, <1>3, <1>4, <1>6, <1>7, <1>8

LEMMA WritesTwo ==
    ASSUME RenderTypes, NEW d \in Tokens(Widths), NEW e \in Tokens(Widths), NEW m \in 0..2,
           Writes(<<d, e>>, m)
    PROVE  /\ m = 2 => out' = Append(Append(out, d), e) /\ lost' = lost
           /\ m = 1 => out' = Append(out, d) /\ lost'
           /\ m = 0 => out' = out /\ lost'
<1>. DEFINE S == Tokens(Widths)
<1>1. out \in Seq(S) /\ lost \in BOOLEAN /\ Len(<<d, e>>) = 2 /\ d \in S /\ e \in S
    BY DEF RenderTypes
<1>2. /\ SubSeq(<<d, e>>, 1, 0) = <<>> /\ SubSeq(<<d, e>>, 1, 1) = <<d>>
      /\ SubSeq(<<d, e>>, 1, 2) = <<d, e>>
  <2>. DEFINE s == <<d, e>>
  <2>1. s \in Seq(S) /\ Len(s) = 2 /\ s[1] = d
      BY <1>1
  <2>. HIDE DEF s, S
  <2>2. SubSeq(s, 1, 0) = <<>> /\ SubSeq(s, 1, Len(s)) = s /\ SubSeq(s, 2, 1) = <<>>
      BY <2>1, SubSeqEmpty, SubSeqFull
  <2>3. SubSeq(s, 1, 1) = <<s[1]>> \o SubSeq(s, 1 + 1, 1)
      BY <2>1, SubSeqRecursiveFirst
  <2>4. SubSeq(s, 1, 1) = <<d>> \o <<>>
      BY <2>1, <2>2, <2>3, 1 + 1 = 2, Zenon
  <2>5. <<d>> \in Seq(S) /\ <<d>> \o <<>> = <<d>>
      BY <1>1, ConcatEmptySeq
  <2>. QED BY <2>1, <2>2, <2>4, <2>5 DEF s
<1>3. out' = out \o SubSeq(<<d, e>>, 1, m) /\ lost' = (lost \/ m < 2)
    BY <1>1 DEF Writes
<1>. HIDE DEF S
<1>4. out \o <<>> = out /\ out \o <<d>> = Append(out, d)
    BY <1>1, ConcatEmptySeq, AppendIsConcat
<1>5. out \o <<d, e>> = Append(Append(out, d), e)
    BY <1>1
<1>6. m < 2 => lost'
    BY <1>3, Zenon
<1>7. m = 2 => lost' = lost
    BY <1>1, <1>3
<1>8. (m = 0 => m < 2) /\ (m = 1 => m < 2)
    OBVIOUS
<1>. QED BY <1>2, <1>3, <1>4, <1>5, <1>6, <1>7, <1>8, Zenon
----------------------------------------------------------------------------
(* Emit, format by format. *)
LEMMA EmitTypes ==
    ASSUME RenderTypes, NEW k \in Kinds, NEW res \in {"ok", "error", "panic"}, Returns(k, res),
           Len(kinds) < MaxRecords,
           out' \in Seq(Tokens(Widths)), buffer' \in Seq(Tokens(Widths)),
           flags' \in [headerDone : BOOLEAN, jsonOpen : BOOLEAN, gridSeen : BOOLEAN],
           sticky' \in BOOLEAN, lost' \in BOOLEAN,
           opt.format \notin {"grid", "delim"} => buffer' = <<>>
    PROVE  RenderTypes'
<1>1. /\ UNCHANGED <<opt, phase, flushRes>>
      /\ kinds' = Append(kinds, k) /\ results' = Append(results, res)
    BY DEF Returns
<1>2. /\ kinds' \in Seq(Kinds) /\ results' \in Seq({"ok", "error", "panic"})
      /\ Len(kinds') = Len(kinds) + 1 /\ Len(results') = Len(kinds')
      /\ Len(kinds) \in Nat
    BY <1>1, EmitCounts
<1>3. Len(kinds') <= MaxRecords
    BY <1>2, RendererAssumption
<1>4. Widths' = Widths
    BY <1>1, WidthsStay
<1>. QED BY <1>1, <1>2, <1>3, <1>4 DEF RenderTypes

LEMMA LinesType ==
    ASSUME RenderTypes
    PROVE  /\ Lines \in Seq(Tokens(Widths))
           /\ buffer = <<>> => Lines = out
           /\ out = <<>> => Lines = buffer
<1>. DEFINE S == Tokens(Widths)
<1>1. out \in Seq(S) /\ buffer \in Seq(S)
    BY DEF RenderTypes
<1>. HIDE DEF S
<1>2. out \o buffer \in Seq(S) /\ out \o <<>> = out /\ <<>> \o buffer = buffer
    BY <1>1, ConcatProperties, ConcatEmptySeq
<1>. QED BY <1>2 DEF Lines, S

(* A record that writes nothing and counts for nothing. *)
LEMMA NothingRuns ==
    ASSUME RenderTypes, Running, NEW k \in Kinds, NEW res \in {"ok", "error", "panic"},
           Returns(k, res), Lines' = Lines, UNCHANGED flags, sticky => sticky',
           opt.format \notin {"url", "encoder"} /\ ~sticky' =>
               res # "ok" \/ (opt.format = "list" /\ Width(k) = 0),
           opt.format = "grid" => UNCHANGED <<out, buffer>>,
           sticky' => opt.format = "delim",
           opt.format = "json" => out' = out /\ (~lost' => ~Marshals(k))
    PROVE  Running'
<1>1. opt' = opt /\ kinds' = Append(kinds, k) /\ results' = Append(results, res)
    BY DEF Returns
<1>2. kinds \in Seq(Kinds)
    BY DEF RenderTypes
<1>3. Steady(opt', Lines', kinds')
    BY <1>1, <1>2, LinesType, SteadyStays DEF Running
<1>4. opt'.format \notin {"url", "encoder"} /\ ~sticky' => Numbers(Lines') = Accepted'
    BY <1>1, EmitCounts DEF Running
<1>5. opt'.format = "json" /\ ~lost' => ~\A i \in DOMAIN kinds' : Marshals(kinds'[i])
    BY <1>1, EmitCounts DEF Marshals
<1>6. opt'.format = "delim" /\ ~sticky' => (flags'.headerDone <=> opt'.header /\ Lines' # <<>>)
    BY <1>1 DEF Running
<1>. QED BY <1>1, <1>3, <1>4, <1>5, <1>6 DEF Running

(* An accepted record puts its row behind the lines that are there. *)
LEMMA RowRuns ==
    ASSUME RenderTypes, Steady(opt, Lines, kinds), NEW k \in Kinds, Returns(k, "ok"),
           NEW w \in Widths, Projected(opt, k, w),
           Heads(opt) => Lines # <<>>,
           Lines' = Append(Lines, Row(This, w)),
           opt.format = "list" => Width(k) # 0
    PROVE  /\ Steady(opt', Lines', kinds')
           /\ Numbers(Lines) = Accepted => Numbers(Lines') = Accepted'
           /\ Lines' # <<>>
<1>. DEFINE s == Lines
            ks == kinds
            W == Widths
            o == opt
<1>1. opt' = o /\ kinds' = Append(ks, k) /\ results' = Append(results, "ok")
    BY DEF Returns
<1>2. This = Len(ks) + 1 /\ Accepted' = Accepted \cup {This} /\ Len(ks) + 1 \in Nat
    BY <1>1, EmitCounts
<1>3. s \in Seq(Tokens(W)) /\ ks \in Seq(Kinds) /\ 0 \in W
    BY LinesType, WidthsType DEF RenderTypes
<1>4. Row(Len(ks) + 1, w) \in Tokens(W)
    BY <1>2, <1>3, TokenTypes
<1>5. Lines' = Append(s, Row(Len(ks) + 1, w))
    BY <1>2
<1>6. /\ Heads(o) => s # <<>>
      /\ Projected(o, k, w)
      /\ Steady(o, s, ks)
    OBVIOUS
<1>. HIDE DEF s, ks, W, o
<1>7. /\ Steady(o, Append(s, Row(Len(ks) + 1, w)), Append(ks, k))
      /\ Numbers(Append(s, Row(Len(ks) + 1, w))) = Numbers(s) \cup {Len(ks) + 1}
    BY <1>3, <1>6, SteadyNext DEF W
<1>8. Append(s, Row(Len(ks) + 1, w)) # <<>>
    BY <1>3, <1>4, TextAppends
<1>. QED BY <1>1, <1>2, <1>5, <1>7, <1>8 DEF s

(* list, jsonl, raw, template, and a url that is there. *)
LEMMA StreamedRuns ==
    ASSUME RenderTypes, Running, NEW k \in Kinds, NEW ok \in BOOLEAN, Streamed(k, ok),
           opt.format \in {"list", "jsonl", "raw", "template", "url"},
           Len(kinds) < MaxRecords,
           opt.format = "list" => Width(k) # 0
    PROVE  RenderTypes' /\ Running'
<1>1. buffer = <<>> /\ buffer' = <<>> /\ ~sticky /\ ~sticky' /\ UNCHANGED flags /\ Lines = out
    BY LinesType DEF RenderTypes, Running, Streamed
<1>6. /\ buffer' \in Seq(Tokens(Widths)) /\ sticky' \in BOOLEAN
      /\ flags' \in [headerDone : BOOLEAN, jsonOpen : BOOLEAN, gridSeen : BOOLEAN]
  <2>1. buffer' = buffer /\ flags' = flags /\ sticky' = sticky
      BY <1>1 DEF Streamed
  <2>2. /\ buffer \in Seq(Tokens(Widths)) /\ sticky \in BOOLEAN
        /\ flags \in [headerDone : BOOLEAN, jsonOpen : BOOLEAN, gridSeen : BOOLEAN]
      BY DEF RenderTypes
  <2>. QED BY <2>1, <2>2, Zenon
<1>2. This \in Nat /\ opt' = opt
    BY EmitCounts DEF Streamed, Returns, This, RenderTypes
<1>3. Row(This, Width(k)) \in Tokens(Widths)
    BY <1>2, TokenTypes, WidthsType
<1>4. CASE ok
  <2>1. Writes(<<Row(This, Width(k))>>, 1) /\ Returns(k, "ok")
      BY <1>4 DEF Streamed
  <2>2. out' = Append(out, Row(This, Width(k))) /\ lost' = lost
      BY <1>3, <2>1, WritesOne
  <2>3. out' \in Seq(Tokens(Widths))
      BY <1>3, <2>2, TextAppends DEF RenderTypes
  <2>8. lost' \in BOOLEAN
      BY <2>2 DEF RenderTypes
  <2>4. RenderTypes'
      BY <1>1, <1>6, <2>1, <2>3, <2>8, EmitTypes
  <2>5. Lines' = out'
    <3>1. Lines' = out' \o <<>>
        BY <1>1 DEF Lines
    <3>2. out' \o <<>> = out'
        BY <2>3, ConcatEmptySeq
    <3>. QED BY <3>1, <3>2
  <2>6. ~Heads(opt) /\ Projected(opt, k, Width(k))
      BY ProjectedWidth DEF Heads
  <2>7. /\ Steady(opt', Lines', kinds')
        /\ Numbers(Lines) = Accepted => Numbers(Lines') = Accepted'
      BY <1>1, <2>1, <2>2, <2>5, <2>6, RowRuns, WidthsType DEF Running
  <2>. QED BY <1>1, <1>2, <2>4, <2>7 DEF Running
<1>5. CASE ~ok
  <2>1. Writes(<<Row(This, Width(k))>>, 0) /\ Returns(k, "error")
      BY <1>5 DEF Streamed
  <2>2. out' = out /\ lost'
      BY <1>3, <2>1, WritesOne
  <2>3. lost' \in BOOLEAN
      BY <2>1 DEF Writes
  <2>7. out' \in Seq(Tokens(Widths))
      BY <2>2 DEF RenderTypes
  <2>4. RenderTypes'
      BY <1>1, <1>6, <2>1, <2>3, <2>7, EmitTypes
  <2>5. Lines' = Lines
      BY <1>1, <2>2 DEF Lines
  <2>6. Running'
      BY <1>1, <2>1, <2>2, <2>5, NothingRuns
  <2>. QED BY <2>4, <2>6
<1>. QED BY <1>4, <1>5

(* A template that fails midway leaves a part and no row. *)
LEMMA TornRuns ==
    ASSUME RenderTypes, Running, NEW k \in Kinds, EmitTemplate(k), Len(kinds) < MaxRecords
    PROVE  RenderTypes' /\ Running'
<1>. DEFINE part == Mark("part")
            row == Row(This, Width(k))
<1>1. /\ opt.format = "template" /\ Writes(<<part, row>>, 1)
      /\ Returns(k, "error") /\ UNCHANGED <<flags, buffer, sticky>>
    BY DEF EmitTemplate, Torn
<1>2. /\ kinds \in Seq(Kinds) /\ out \in Seq(Tokens(Widths)) /\ buffer = <<>> /\ ~sticky
      /\ lost \in BOOLEAN /\ This \in Nat /\ ~Heads(opt)
    BY <1>1 DEF RenderTypes, Running, This, Heads
<1>3. part \in Tokens(Widths) /\ part.t = "part" /\ row \in Tokens(Widths)
    BY <1>2, TokenTypes, WidthsType DEF Marks
<1>4. opt' = opt /\ kinds' = Append(kinds, k) /\ results' = Append(results, "error")
    BY <1>1 DEF Returns
<1>. HIDE DEF part, row
<1>5. lost' \in BOOLEAN
    BY <1>1 DEF Writes
<1>6. out' = Append(out, part)
    BY <1>1, <1>3, WritesTwo
<1>7. Lines = out /\ Steady(opt, out, kinds) /\ Numbers(out) = Accepted
    BY <1>1, <1>2, LinesType DEF Running
<1>8. out' \in Seq(Tokens(Widths)) /\ Steady(opt, out', kinds) /\ Numbers(out') = Accepted
    BY <1>2, <1>3, <1>6, <1>7, SteadyMark
<1>9. /\ buffer' \in Seq(Tokens(Widths)) /\ sticky' \in BOOLEAN /\ ~sticky' /\ buffer' = <<>>
      /\ flags' \in [headerDone : BOOLEAN, jsonOpen : BOOLEAN, gridSeen : BOOLEAN]
  <2>1. buffer' = buffer /\ flags' = flags /\ sticky' = sticky
      BY <1>1
  <2>2. /\ buffer \in Seq(Tokens(Widths)) /\ sticky \in BOOLEAN
        /\ flags \in [headerDone : BOOLEAN, jsonOpen : BOOLEAN, gridSeen : BOOLEAN]
      BY DEF RenderTypes
  <2>. QED BY <1>2, <2>1, <2>2
<1>10. RenderTypes'
    BY <1>1, <1>5, <1>8, <1>9, EmitTypes
<1>11. Lines' = out'
  <2>. DEFINE S == Tokens(Widths)
  <2>1. out' \in Seq(S)
      BY <1>8
  <2>. HIDE DEF S
  <2>2. out' \o <<>> = out'
      BY <2>1, ConcatEmptySeq
  <2>. QED BY <1>9, <2>2 DEF Lines
<1>12. Steady(opt', Lines', kinds')
    BY <1>2, <1>4, <1>8, <1>11, SteadyStays
<1>13. Accepted' = Accepted
    BY <1>4, EmitCounts
<1>. QED BY <1>1, <1>4, <1>8, <1>9, <1>10, <1>11, <1>12, <1>13 DEF Running

LEMMA SilentRuns ==
    ASSUME RenderTypes, Running, NEW k \in Kinds, NEW res \in {"ok", "error"}, Silent(k, res),
           opt.format \in {"list", "jsonl", "raw", "url", "encoder"},
           Len(kinds) < MaxRecords,
           res = "ok" => opt.format \in {"url", "encoder"}
                         \/ (opt.format = "list" /\ Width(k) = 0)
    PROVE  RenderTypes' /\ Running'
<1>1. Returns(k, res) /\ UNCHANGED <<flags, buffer, sticky, out, lost>>
    BY DEF Silent
<1>2. RenderTypes'
    BY <1>1, EmitTypes DEF RenderTypes
<1>3. Lines' = Lines /\ ~sticky
    BY <1>1 DEF Lines, Running
<1>4. Running'
    BY <1>1, <1>3, NothingRuns
<1>. QED BY <1>2, <1>4

(* An array grows by a mark and a row, and ends in a bracket. *)
LEMMA ArrayShape ==
    ASSUME NEW n \in Nat
    PROVE  /\ OpenArray(n) \in Seq(Tokens({0})) /\ Len(OpenArray(n)) = 2 * n
           /\ OpenArray(n) = <<>> <=> n = 0
           /\ \A i \in 1..(2 * n) : OpenArray(n)[i] =
                  IF i = 1 THEN Mark("[") ELSE IF i % 2 = 0 THEN Row(i \div 2, 0) ELSE Mark("comma")
<1>. DEFINE s == OpenArray(n)
<1>1. ASSUME NEW i \in 1..(2 * n)
      PROVE  s[i] = (IF i = 1 THEN Mark("[") ELSE IF i % 2 = 0 THEN Row(i \div 2, 0) ELSE Mark("comma"))
    BY DEF OpenArray
<1>2. DOMAIN s = 1..(2 * n) /\ 2 * n \in Nat
    BY DEF OpenArray
<1>3. ASSUME NEW i \in 1..(2 * n) PROVE s[i] \in Tokens({0})
  <2>1. i \div 2 \in Nat
      OBVIOUS
  <2>2. Row(i \div 2, 0) \in Tokens({0})
      BY <2>1, TokenTypes
  <2>3. Mark("[") \in Tokens({0}) /\ Mark("comma") \in Tokens({0})
      BY TokenTypes DEF Marks
  <2>. QED BY <1>1, <2>2, <2>3
<1>4. s \in [1..(2 * n) -> Tokens({0})]
    BY <1>3 DEF OpenArray
<1>5. s \in Seq(Tokens({0})) /\ Len(s) = 2 * n
    BY <1>2, <1>4
<1>6. n = 0 => s = <<>>
    BY DEF OpenArray
<1>7. n # 0 => s # <<>>
    BY <1>5
<1>. QED BY <1>1, <1>5, <1>6, <1>7

LEMMA ArrayGrows ==
    ASSUME NEW n \in Nat
    PROVE  Append(Append(OpenArray(n), IF n = 0 THEN Mark("[") ELSE Mark("comma")), Row(n + 1, 0))
               = OpenArray(n + 1)
<1>. DEFINE W == {0}
            s == OpenArray(n)
            r == OpenArray(n + 1)
            d == IF n = 0 THEN Mark("[") ELSE Mark("comma")
            e == Row(n + 1, 0)
<1>1. s \in Seq(Tokens(W)) /\ Len(s) = 2 * n /\ r \in Seq(Tokens(W)) /\ Len(r) = 2 * n + 2
    BY ArrayShape
<1>2. d \in Tokens(W) /\ e \in Tokens(W)
    BY TokenTypes DEF Marks
<1>3. \A i \in 1..(2 * n) : r[i] = s[i]
    BY ArrayShape
<1>4. r[2 * n + 1] = d
  <2>1. (2 * n + 1) % 2 = 1 /\ 2 * n + 1 \in 1..(2 * (n + 1)) /\ (2 * n + 1 = 1 <=> n = 0)
      OBVIOUS
  <2>. QED BY <2>1, ArrayShape
<1>5. r[2 * n + 2] = e
  <2>1. (2 * n + 2) % 2 = 0 /\ (2 * n + 2) \div 2 = n + 1 /\ 2 * n + 2 \in 1..(2 * (n + 1))
        /\ 2 * n + 2 # 1
      OBVIOUS
  <2>. QED BY <2>1, ArrayShape
<1>. HIDE DEF W, s, r, d, e
<1>. DEFINE p == Append(s, d)
<1>6. /\ p \in Seq(Tokens(W)) /\ Len(p) = 2 * n + 1
      /\ \A i \in 1..(2 * n) : p[i] = s[i]
      /\ p[2 * n + 1] = d
    BY <1>1, <1>2, TextAppends
<1>. HIDE DEF p
<1>. DEFINE q == Append(p, e)
<1>7. /\ q \in Seq(Tokens(W)) /\ Len(q) = 2 * n + 2
      /\ \A i \in 1..(2 * n + 1) : q[i] = p[i]
      /\ q[2 * n + 2] = e
  <2>1. Len(p) + 1 = 2 * n + 2
      BY <1>6
  <2>. QED BY <1>2, <1>6, <2>1, TextAppends
<1>. HIDE DEF q
<1>8. \A i \in 1..(2 * n + 2) : q[i] = r[i]
  <2>. SUFFICES ASSUME NEW i \in 1..(2 * n + 2) PROVE q[i] = r[i]
      OBVIOUS
  <2>1. CASE i \in 1..(2 * n)
      BY <1>3, <1>6, <1>7, <2>1
  <2>2. CASE i = 2 * n + 1
    <3>1. i \in 1..(2 * n + 1)
        BY <2>2
    <3>. QED BY <1>4, <1>6, <1>7, <2>2, <3>1
  <2>3. CASE i = 2 * n + 2
      BY <1>5, <1>7, <2>3
  <2>. QED BY <2>1, <2>2, <2>3
<1>. DEFINE S == Tokens(W)
<1>9. q \in Seq(S) /\ r \in Seq(S) /\ Len(q) = Len(r) /\ \A i \in 1..Len(q) : q[i] = r[i]
    BY <1>1, <1>7, <1>8
<1>. HIDE DEF S
<1>10. q = r
    BY <1>9, SeqEqual
<1>. QED BY <1>10 DEF q, p, s, r, d, e

LEMMA ArrayCloses ==
    ASSUME NEW n \in Nat, n # 0
    PROVE  Append(OpenArray(n), Mark("]")) = ArrayOf(n)
<1>. DEFINE W == {0}
            s == OpenArray(n)
            e == Mark("]")
            r == ArrayOf(n)
            q == Append(s, e)
<1>1. s \in Seq(Tokens(W)) /\ Len(s) = 2 * n
    BY ArrayShape
<1>2. e \in Tokens(W)
    BY TokenTypes DEF Marks
<1>3. /\ DOMAIN r = 1..(2 * n + 1)
      /\ r = [i \in 1..(2 * n + 1) |-> r[i]]
    BY DEF ArrayOf
<1>4. \A i \in 1..(2 * n) : r[i] = s[i]
  <2>. SUFFICES ASSUME NEW i \in 1..(2 * n) PROVE r[i] = s[i]
      OBVIOUS
  <2>1. i \in 1..(2 * n + 1) /\ i # 2 * n + 1
      OBVIOUS
  <2>2. CASE i = 1
      BY <2>1, <2>2, ArrayShape DEF ArrayOf
  <2>3. CASE i # 1 /\ i % 2 = 0
      BY <2>1, <2>3, ArrayShape DEF ArrayOf
  <2>4. CASE i # 1 /\ i % 2 # 0
      BY <2>1, <2>4, ArrayShape DEF ArrayOf
  <2>. QED BY <2>2, <2>3, <2>4
<1>5. r[2 * n + 1] = e
    BY DEF ArrayOf
<1>. HIDE DEF W, s, e, r
<1>6. /\ q \in Seq(Tokens(W)) /\ Len(q) = 2 * n + 1
      /\ \A i \in 1..(2 * n) : q[i] = s[i]
      /\ q[2 * n + 1] = e
    BY <1>1, <1>2, TextAppends
<1>. HIDE DEF q
<1>7. q = [i \in 1..(2 * n + 1) |-> q[i]]
    BY <1>6
<1>8. \A i \in 1..(2 * n + 1) : q[i] = r[i]
  <2>. SUFFICES ASSUME NEW i \in 1..(2 * n + 1) PROVE q[i] = r[i]
      OBVIOUS
  <2>1. CASE i \in 1..(2 * n)
      BY <1>4, <1>6, <2>1
  <2>2. CASE i = 2 * n + 1
      BY <1>5, <1>6, <2>2
  <2>. QED BY <2>1, <2>2
<1>9. q = r
    BY <1>3, <1>7, <1>8
<1>. QED BY <1>9 DEF q, s, e, r

(* The same for sequences over any set.                                     *)
LEMMA AppendGrows ==
    ASSUME NEW S, NEW p \in Seq(S), NEW b \in S
    PROVE  /\ Append(p, b) \in Seq(S) /\ Len(Append(p, b)) = Len(p) + 1
           /\ \A i \in 1..Len(p) : Append(p, b)[i] = p[i]
           /\ Append(p, b)[Len(p) + 1] = b
BY AppendProperties

LEMMA PairConcat ==
    ASSUME NEW S, NEW a \in S, NEW b \in S
    PROVE  <<a>> \o <<b>> = <<a, b>> /\ Len(<<a, b>>) = 2 /\ Len(<<a>>) = 1
<1>. DEFINE p == <<a>>
            q == Append(p, b)
            r == <<a, b>>
<1>1. p \in Seq(S) /\ Len(p) = 1 /\ p[1] = a
    OBVIOUS
<1>2. r \in Seq(S) /\ Len(r) = 2 /\ r[1] = a /\ r[2] = b
    OBVIOUS
<1>. HIDE DEF p, r
<1>3. q \in Seq(S) /\ Len(q) = 2 /\ q[1] = a /\ q[2] = b
  <2>1. /\ q \in Seq(S) /\ Len(q) = Len(p) + 1
        /\ \A i \in 1..Len(p) : q[i] = p[i]
        /\ q[Len(p) + 1] = b
      BY <1>1, AppendGrows
  <2>. HIDE DEF q
  <2>2. 1 \in 1..Len(p) /\ Len(p) + 1 = 2
      BY <1>1
  <2>. QED BY <1>1, <2>1, <2>2
<1>4. q = p \o <<b>>
    BY <1>1, AppendIsConcat
<1>. HIDE DEF q
<1>5. \A i \in 1..Len(q) : q[i] = r[i]
    BY <1>2, <1>3
<1>6. q = r
    BY <1>2, <1>3, <1>5, SeqEqual
<1>. QED BY <1>1, <1>2, <1>4, <1>6 DEF p, r

(* A JSON array: the mark goes out first and stays, whatever becomes of the *)
(* record.                                                                  *)
LEMMA JsonRuns ==
    ASSUME RenderTypes, Running, NEW k \in Kinds, EmitJSON(k), Len(kinds) < MaxRecords
    PROVE  RenderTypes' /\ Running'
<1>. DEFINE W == Widths
            n == Len(kinds)
            mark == IF flags.jsonOpen THEN Mark("comma") ELSE Mark("[")
            row == Row(n + 1, 0)
            tokens == <<mark>> \o (IF Marshals(k) THEN <<row>> ELSE <<>>)
            M == Append(out, mark)
            R == Append(M, row)
<1>1. /\ opt.format = "json" /\ ~Heads(opt) /\ ~sticky /\ buffer = <<>> /\ Projected(opt, k, 0)
      /\ buffer' = buffer /\ sticky' = sticky
    BY DEF EmitJSON, Running, RenderTypes, Heads, Projected, Tabular
<1>2. n \in Nat /\ This = n + 1 /\ kinds \in Seq(Kinds) /\ out \in Seq(Tokens(W)) /\ 0 \in W
      /\ lost \in BOOLEAN
    BY WidthsType DEF RenderTypes, This
<1>3. mark \in Tokens(W) /\ mark.t \notin {"row", "head"} /\ row \in Tokens(W)
    BY <1>2, TokenTypes DEF Marks
<1>4. Lines = out /\ Steady(opt, out, kinds) /\ Numbers(out) = Accepted
    BY <1>1, LinesType DEF Running
<1>5. M \in Seq(Tokens(W)) /\ M # <<>> /\ Steady(opt, M, kinds) /\ Numbers(M) = Accepted
    BY <1>1, <1>2, <1>3, <1>4, SteadyMark, TextAppends
<1>6. PICK m \in 0..Len(tokens), res \in {"ok", "error"} :
          /\ Writes(tokens, m) /\ Returns(k, res)
          /\ flags' = [flags EXCEPT !.jsonOpen = @ \/ m > 0]
          /\ res = "ok" <=> Marshals(k) /\ m = Len(tokens)
    BY <1>2 DEF EmitJSON
<1>7. opt' = opt /\ kinds' = Append(kinds, k) /\ results' = Append(results, res)
    BY <1>6 DEF Returns
<1>8. /\ flags' \in [headerDone : BOOLEAN, jsonOpen : BOOLEAN, gridSeen : BOOLEAN]
      /\ flags'.jsonOpen <=> flags.jsonOpen \/ m > 0
    BY <1>6 DEF RenderTypes
<1>9. buffer' \in Seq(Tokens(W)) /\ sticky' \in BOOLEAN /\ buffer' = <<>>
    BY <1>1 DEF RenderTypes
<1>10. (flags.jsonOpen <=> out # <<>>)
    BY <1>1 DEF Running
<1>11. /\ Marshals(k) => tokens = <<mark, row>> /\ Len(tokens) = 2
       /\ ~Marshals(k) => tokens = <<mark>> /\ Len(tokens) = 1
  <2>. DEFINE S == Tokens(W)
  <2>1. <<mark>> \in Seq(S) /\ row \in S
      BY <1>3
  <2>. HIDE DEF mark, row, S
  <2>2. <<mark>> \o <<row>> = <<mark, row>> /\ Len(<<mark, row>>) = 2 /\ Len(<<mark>>) = 1
    <3>1. mark \in S
        BY <2>1
    <3>. QED BY <2>1, <3>1, PairConcat
  <2>3. <<mark>> \o <<>> = <<mark>>
      BY <2>1, ConcatEmptySeq
  <2>4. CASE Marshals(k)
      BY <2>2, <2>4
  <2>5. CASE ~Marshals(k)
      BY <2>2, <2>3, <2>5
  <2>. QED BY <2>4, <2>5, Zenon
<1>. HIDE DEF mark, row, tokens, M, R, n, W
<1>12. /\ m = 0 => out' = out /\ lost'
       /\ m = 1 => out' = M /\ (Marshals(k) => lost')
       /\ m = 2 => out' = R /\ lost' = lost /\ Marshals(k)
       /\ m \in {0, 1, 2} /\ lost' \in BOOLEAN
  <2>1. CASE Marshals(k)
    <3>1. Writes(<<mark, row>>, m) /\ m \in 0..2
        BY <1>6, <1>11, <2>1
    <3>2. /\ m = 2 => out' = R /\ lost' = lost
          /\ m = 1 => out' = M /\ lost'
          /\ m = 0 => out' = out /\ lost'
        BY <1>3, <3>1, WritesTwo DEF M, R, W
    <3>3. lost' \in BOOLEAN
        BY <3>1 DEF Writes
    <3>. QED BY <2>1, <3>1, <3>2, <3>3
  <2>2. CASE ~Marshals(k)
    <3>3. tokens = <<mark>> /\ Len(tokens) = 1
        BY <1>11, <2>2
    <3>4. m \in 0..Len(tokens) /\ Writes(tokens, m)
        BY <1>6
    <3>5. m \in 0..1 /\ Writes(<<mark>>, m)
        BY <3>3, <3>4, Zenon
    <3>1. Writes(<<mark>>, m) /\ m \in {0, 1}
        BY <3>5
    <3>2. /\ m = 1 => out' = M
          /\ m = 0 => out' = out /\ lost'
        BY <1>3, <3>1, WritesOne DEF M, W
    <3>6. lost' \in BOOLEAN
        BY <3>1 DEF Writes
    <3>. QED BY <2>2, <3>1, <3>2, <3>6
  <2>. QED BY <2>1, <2>2
<1>13. /\ R \in Seq(Tokens(W)) /\ R # <<>>
       /\ Steady(opt, R, kinds') /\ Numbers(R) = Accepted \cup {This}
  <2>1. /\ R \in Seq(Tokens(W)) /\ Steady(opt, R, Append(kinds, k))
        /\ Numbers(R) = Numbers(M) \cup {n + 1}
    <3>1. ~Heads(opt) /\ Projected(opt, k, 0)
        BY <1>1
    <3>. QED BY <1>2, <1>5, <3>1, SteadyNext DEF R, row, n
  <2>2. R # <<>>
      BY <1>3, <1>5, TextAppends DEF R
  <2>. QED BY <1>2, <1>5, <1>7, <2>1, <2>2
<1>14. out' \in Seq(Tokens(W))
    BY <1>2, <1>5, <1>12, <1>13
<1>15. RenderTypes'
  <2>1. lost' \in BOOLEAN /\ res \in {"ok", "error", "panic"}
      BY <1>12, <1>6
  <2>. QED BY <1>6, <1>8, <1>9, <1>14, <2>1, EmitTypes DEF W
<1>16. Lines' = out'
  <2>. DEFINE S == Tokens(W)
  <2>1. out' \in Seq(S)
      BY <1>14
  <2>. HIDE DEF S
  <2>2. out' \o <<>> = out'
      BY <2>1, ConcatEmptySeq
  <2>. QED BY <1>9, <2>2 DEF Lines
<1>17. Accepted' = IF res = "ok" THEN Accepted \cup {This} ELSE Accepted
    BY <1>1, <1>7, EmitCounts
<1>18. res = "ok" <=> m = 2
    BY <1>6, <1>11, <1>12
<1>19. Steady(opt, out', kinds') /\ Numbers(out') = Accepted'
  <2>1. CASE m = 2
      BY <1>12, <1>13, <1>17, <1>18, <2>1
  <2>2. CASE m # 2
    <3>1. (out' = out \/ out' = M) /\ Accepted' = Accepted
        BY <1>12, <1>17, <1>18, <2>2
    <3>2. Steady(opt, out, kinds') /\ Steady(opt, M, kinds')
        BY <1>2, <1>4, <1>5, <1>7, SteadyStays
    <3>. QED BY <1>4, <1>5, <3>1, <3>2
  <2>. QED BY <2>1, <2>2
<1>20. flags'.jsonOpen <=> out' # <<>>
  <2>1. m = 0 => ~(m > 0)
      OBVIOUS
  <2>2. m \in {1, 2} => m > 0
      OBVIOUS
  <2>. QED BY <1>5, <1>8, <1>10, <1>12, <1>13, <2>1, <2>2
<1>21. ~lost' /\ (\A i \in DOMAIN kinds' : Marshals(kinds'[i])) => out' = OpenArray(Len(kinds'))
  <2>. SUFFICES ASSUME ~lost', \A i \in DOMAIN kinds' : Marshals(kinds'[i])
                PROVE  out' = OpenArray(Len(kinds'))
      OBVIOUS
  <2>1. DOMAIN kinds = 1..n /\ DOMAIN kinds' = 1..(n + 1) /\ Len(kinds') = n + 1
        /\ kinds'[n + 1] = k /\ \A i \in 1..n : kinds'[i] = kinds[i]
      BY <1>2, <1>7, EmitCounts DEF n
  <2>2. Marshals(k) /\ \A i \in DOMAIN kinds : Marshals(kinds[i])
      BY <1>2, <2>1
  <2>3. m = 2 /\ ~lost
      BY <1>12, <2>2
  <2>4. out = OpenArray(n)
      BY <1>1, <2>2, <2>3 DEF Running, n
  <2>5. mark = IF n = 0 THEN Mark("[") ELSE Mark("comma")
      BY <1>2, <1>10, <2>4, ArrayShape DEF mark
  <2>6. R = OpenArray(n + 1)
      BY <1>2, <2>4, <2>5, ArrayGrows DEF R, M, row
  <2>. QED BY <1>12, <2>1, <2>3, <2>6
<1>22. Running'
    BY <1>1, <1>7, <1>16, <1>19, <1>20, <1>21 DEF Running
<1>. QED BY <1>15, <1>22

(* What a buffer pushes out is behind what is out already. *)
LEMMA SpillKeeps ==
    ASSUME NEW S, NEW o \in Seq(S), NEW s \in Seq(S), NEW m \in 0..Len(s)
    PROVE  /\ o \o SubSeq(s, 1, m) \in Seq(S) /\ SubSeq(s, m + 1, Len(s)) \in Seq(S)
           /\ (o \o SubSeq(s, 1, m)) \o SubSeq(s, m + 1, Len(s)) = o \o s
<1>. DEFINE a == SubSeq(s, 1, m)
            b == SubSeq(s, m + 1, Len(s))
<1>1. Len(s) \in Nat /\ m \in Nat /\ m <= Len(s) /\ \A i \in 1..Len(s) : s[i] \in S
    BY ElementOfSeq
<1>2. a \in Seq(S)
  <2>1. \A i \in 1..m : s[i] \in S
      BY <1>1
  <2>. QED BY <1>1, <2>1, SubSeqProperties
<1>3. b \in Seq(S)
  <2>1. \A i \in (m + 1)..Len(s) : s[i] \in S
      BY <1>1
  <2>. QED BY <1>1, <2>1, SubSeqProperties
<1>4. a \o b = SubSeq(s, 1, Len(s))
  <2>1. 1 \in 1..Len(s) + 1 /\ m \in 1 - 1..Len(s) /\ Len(s) \in m..Len(s)
      BY <1>1
  <2>. QED BY <2>1, ConcatAdjacentSubSeq
<1>5. SubSeq(s, 1, Len(s)) = s
    BY SubSeqFull
<1>. HIDE DEF a, b
<1>6. o \o a \in Seq(S) /\ (o \o a) \o b = o \o (a \o b)
    BY <1>2, <1>3, ConcatProperties, ConcatAssociative
<1>. QED BY <1>3, <1>4, <1>5, <1>6 DEF a, b

(* csv.Writer: the row, and the header before the first, join the lines; a  *)
(* buffer that fails keeps them as they are.                                *)
LEMMA DelimRuns ==
    ASSUME RenderTypes, Running, NEW k \in Kinds, EmitDelim(k), Len(kinds) < MaxRecords
    PROVE  RenderTypes' /\ Running'
<1>. DEFINE W == Widths
            S == Tokens(W)
            n == Len(kinds)
            heads == ~flags.headerDone /\ opt.header
            top == Header(n + 1, Width(k))
            all == Append(kinds, k)
            head == IF heads THEN <<top>> ELSE <<>>
            row == Row(n + 1, Width(k))
            body == buffer \o head
            held == Append(body, row)
            H == Lines \o head
            R == Append(H, row)
            Spills(s) == \E m \in 0..Len(s) : /\ out' = out \o SubSeq(s, 1, m)
                                               /\ buffer' = SubSeq(s, m + 1, Len(s))
<1>1. /\ n \in Nat /\ This = n + 1 /\ kinds \in Seq(Kinds) /\ 0 \in W /\ Width(k) \in W
      /\ out \in Seq(S) /\ buffer \in Seq(S) /\ Lines \in Seq(S)
      /\ sticky \in BOOLEAN /\ lost \in BOOLEAN
      /\ flags \in [headerDone : BOOLEAN, jsonOpen : BOOLEAN, gridSeen : BOOLEAN]
      /\ opt.format = "delim"
    BY WidthsType, LinesType DEF RenderTypes, This, EmitDelim
<1>2. row \in S /\ top \in S
  <2>1. row \in S
      BY <1>1, TokenTypes
  <2>2. top \in S
      BY <1>1 DEF Header, Tokens, Marks
  <2>. QED BY <2>1, <2>2
<1>20. /\ Len(all) = n + 1 /\ n + 1 \in 1..Len(all) /\ Len(all) \in Nat /\ all[n + 1] = k
       /\ Projected(opt, k, Width(k))
    BY <1>1, ProjectedWidth
<1>3. head \in Seq(S)
  <2>. HIDE DEF top, S
  <2>1. <<top>> \in Seq(S) /\ <<>> \in Seq(S)
      BY <1>2
  <2>. QED BY <2>1
<1>4. opt' = opt
    BY DEF EmitDelim, Returns
<1>5. ASSUME NEW s \in Seq(S), Spills(s)
      PROVE  out' \in Seq(S) /\ buffer' \in Seq(S) /\ Lines' = out \o s
  <2>1. PICK m \in 0..Len(s) : out' = out \o SubSeq(s, 1, m) /\ buffer' = SubSeq(s, m + 1, Len(s))
      BY <1>5
  <2>4. s \in Seq(S) /\ m \in 0..Len(s)
      OBVIOUS
  <2>. HIDE DEF S
  <2>5. out \in Seq(S)
      BY <1>1
  <2>3. /\ out \o SubSeq(s, 1, m) \in Seq(S) /\ SubSeq(s, m + 1, Len(s)) \in Seq(S)
        /\ (out \o SubSeq(s, 1, m)) \o SubSeq(s, m + 1, Len(s)) = out \o s
      BY <2>5, <2>4, SpillKeeps
  <2>2. /\ out' \in Seq(S) /\ buffer' \in Seq(S)
        /\ out' \o buffer' = out \o s
      BY <2>1, <2>3, Zenon
  <2>. QED BY <2>2 DEF Lines
<1>6. \/ /\ ~sticky /\ Spills(held)
         /\ flags' = [flags EXCEPT !.headerDone = @ \/ heads]
         /\ Returns(k, "ok")
         /\ UNCHANGED <<sticky, lost>>
      \/ /\ IF sticky THEN UNCHANGED <<out, buffer>> ELSE Spills(buffer)
         /\ sticky' = TRUE /\ lost' = TRUE
         /\ Returns(k, "error")
         /\ UNCHANGED flags
    BY <1>1, Zenon DEF EmitDelim
<1>7. ASSUME ~sticky, Spills(held),
             flags' = [flags EXCEPT !.headerDone = @ \/ heads],
             Returns(k, "ok"),
             UNCHANGED <<sticky, lost>>
      PROVE  RenderTypes' /\ Running'
  <2>. HIDE DEF S, Spills, top, row, n, all
  <2>1. body \in Seq(S) /\ held \in Seq(S) /\ out \o body \in Seq(S)
      BY <1>1, <1>2, <1>3, ConcatProperties, AppendProperties
  <2>2. H = out \o body
    <3>. HIDE DEF head
    <3>1. (out \o buffer) \o head = out \o (buffer \o head)
        BY <1>1, <1>3, ConcatAssociative
    <3>. QED BY <3>1 DEF Lines
  <2>3. out \o held = Append(out \o body, row)
    <3>4. <<row>> \in Seq(S)
        BY <1>2
    <3>. DEFINE last == <<row>>
    <3>. HIDE DEF body, last
    <3>1. held = body \o <<row>>
        BY <1>2, <2>1, AppendIsConcat
    <3>2. out \o (body \o <<row>>) = (out \o body) \o <<row>>
      <4>1. last \in Seq(S)
          BY <3>4 DEF last
      <4>3. out \in Seq(S) /\ body \in Seq(S)
          BY <1>1, <2>1
      <4>2. (out \o body) \o last = out \o (body \o last)
          BY <4>1, <4>3, ConcatAssociative
      <4>. QED BY <4>2 DEF last
    <3>3. Append(out \o body, row) = (out \o body) \o <<row>>
        BY <1>2, <2>1, AppendIsConcat
    <3>. QED BY <3>1, <3>2, <3>3
  <2>4. out' \in Seq(S) /\ buffer' \in Seq(S) /\ Lines' = R
      BY <1>5, <1>7, <2>1, <2>2, <2>3
  <2>5. /\ flags' \in [headerDone : BOOLEAN, jsonOpen : BOOLEAN, gridSeen : BOOLEAN]
        /\ flags'.headerDone <=> flags.headerDone \/ heads
      BY <1>1, <1>7
  <2>6. sticky' \in BOOLEAN /\ lost' \in BOOLEAN /\ ~sticky'
      BY <1>1, <1>7
  <2>7. RenderTypes'
      BY <1>1, <1>7, <2>4, <2>5, <2>6, EmitTypes DEF S, W
  <2>8. /\ Steady(opt, Lines, kinds) /\ Numbers(Lines) = Accepted
        /\ flags.headerDone <=> opt.header /\ Lines # <<>>
      BY <1>1, <1>7 DEF Running
  <2>15. Steady(opt, Lines, all)
      BY <1>1, <2>8, SteadyStays DEF S, all
  <2>9. /\ H \in Seq(S) /\ Steady(opt, H, all) /\ Numbers(H) = Accepted
        /\ Heads(opt) => H # <<>>
    <3>1. CASE heads
      <4>1. Lines = <<>> /\ head = <<top>> /\ Heads(opt)
          BY <1>1, <2>8, <3>1 DEF Heads
      <4>2. H = <<top>>
        <5>1. <<>> \o head = head
            BY <1>3, ConcatEmptySeq
        <5>. QED BY <4>1, <5>1
      <4>7. Projected(opt, all[n + 1], Width(k))
          BY <1>20
      <4>3. <<top>> \in Seq(S) /\ Steady(opt, <<top>>, all) /\ Numbers(<<top>>) = {}
          BY <1>1, <1>20, <4>1, <4>7, SteadyHead DEF S, top
      <4>4. Accepted = {}
          BY <2>8, <4>1 DEF Numbers, RowsOf
      <4>5. <<top>> # <<>>
          OBVIOUS
      <4>6. <<top>> \in Seq(S) /\ Steady(opt, <<top>>, all) /\ Numbers(<<top>>) = Accepted /\ <<top>> # <<>>
          BY <4>3, <4>4, <4>5
      <4>. HIDE DEF H
      <4>. QED BY <4>2, <4>6
    <3>2. CASE ~heads
      <4>1. H = Lines
          BY <1>1, <3>2, ConcatEmptySeq
      <4>2. Heads(opt) => Lines # <<>>
          BY <1>1, <2>8, <3>2 DEF Heads
      <4>. QED BY <1>1, <2>8, <2>15, <4>1, <4>2
    <3>. QED BY <3>1, <3>2
  <2>. HIDE DEF H, head, heads, held, body
  <2>10. Projected(opt, all[n + 1], Width(k)) /\ \A x \in Numbers(H) : x < n + 1
    <3>1. Accepted \subseteq 1..n
        BY <2>8 DEF Steady, n
    <3>2. \A x \in 1..n : x < n + 1
        BY <1>1
    <3>3. Numbers(H) \subseteq 1..n
        BY <2>9, <3>1
    <3>4. \A x \in Numbers(H) : x < n + 1
        BY <3>2, <3>3, Zenon
    <3>. QED BY <1>20, <3>4, Zenon
  <2>11. R \in Seq(S) /\ R # <<>>
      BY <1>2, <2>9, AppendProperties
  <2>12. /\ Steady(opt, R, all)
         /\ Numbers(R) = Numbers(H) \cup {n + 1}
      BY <1>1, <1>20, <2>9, <2>10, SteadyRow DEF S, row
  <2>13. Accepted' = Accepted \cup {n + 1} /\ kinds' = all
      BY <1>1, <1>4, <1>7, EmitCounts DEF Returns, all
  <2>14. flags'.headerDone <=> opt.header
      BY <2>5, <2>8 DEF heads
  <2>. QED BY <1>1, <1>4, <2>4, <2>6, <2>7, <2>9, <2>11, <2>12, <2>13, <2>14 DEF Running
<1>8. ASSUME IF sticky THEN UNCHANGED <<out, buffer>> ELSE Spills(buffer),
             sticky' = TRUE, lost' = TRUE, Returns(k, "error"), UNCHANGED flags
      PROVE  RenderTypes' /\ Running'
  <2>1. out' \in Seq(S) /\ buffer' \in Seq(S) /\ Lines' = Lines
    <3>1. CASE sticky
        BY <1>1, <1>8, <3>1 DEF Lines
    <3>2. CASE ~sticky
      <4>1. Spills(buffer)
          BY <1>8, <3>2
      <4>. HIDE DEF Spills
      <4>2. out' \in Seq(S) /\ buffer' \in Seq(S) /\ Lines' = out \o buffer
          BY <1>1, <1>5, <4>1
      <4>. QED BY <4>2 DEF Lines
    <3>. QED BY <3>1, <3>2
  <2>2. flags' \in [headerDone : BOOLEAN, jsonOpen : BOOLEAN, gridSeen : BOOLEAN]
      BY <1>1, <1>8
  <2>3. sticky' \in BOOLEAN /\ lost' \in BOOLEAN /\ sticky'
      BY <1>8
  <2>4. RenderTypes'
      BY <1>1, <1>8, <2>1, <2>2, <2>3, EmitTypes
  <2>5. Running'
      BY <1>1, <1>8, <2>1, <2>3, NothingRuns
  <2>. QED BY <2>4, <2>5
<1>. QED BY <1>6, <1>7, <1>8

(* A grid holds its rows back. *)
LEMMA GridRuns ==
    ASSUME RenderTypes, Running, NEW k \in Kinds, EmitGrid(k), Len(kinds) < MaxRecords
    PROVE  RenderTypes' /\ Running'
<1>. DEFINE W == Widths
            S == Tokens(W)
            n == Len(kinds)
            top == Header(n + 1, Width(k))
            all == Append(kinds, k)
            row == Row(n + 1, Width(k))
            H == IF flags.gridSeen THEN buffer ELSE <<top>>
            R == Append(H, row)
<1>1. /\ n \in Nat /\ This = n + 1 /\ kinds \in Seq(Kinds) /\ 0 \in W /\ Width(k) \in W
      /\ out \in Seq(S) /\ buffer \in Seq(S)
      /\ sticky \in BOOLEAN /\ lost \in BOOLEAN
      /\ flags \in [headerDone : BOOLEAN, jsonOpen : BOOLEAN, gridSeen : BOOLEAN]
      /\ opt.format = "grid" /\ Heads(opt)
    BY WidthsType DEF RenderTypes, This, EmitGrid, Heads
<1>2. /\ Lines = buffer /\ out = <<>> /\ ~sticky /\ Steady(opt, Lines, kinds)
      /\ Numbers(Lines) = Accepted /\ (flags.gridSeen <=> buffer # <<>>)
    BY <1>1, LinesType DEF Running
<1>3. row \in S /\ top \in S
  <2>1. row \in S
      BY <1>1, TokenTypes
  <2>2. top \in S
      BY <1>1 DEF Header, Tokens, Marks
  <2>. QED BY <2>1, <2>2
<1>20. /\ Len(all) = n + 1 /\ n + 1 \in 1..Len(all) /\ Len(all) \in Nat /\ all[n + 1] = k
       /\ Projected(opt, k, Width(k))
    BY <1>1, ProjectedWidth
<1>21. Steady(opt, Lines, all)
    BY <1>1, <1>2, SteadyStays DEF S
<1>4. /\ Returns(k, "ok") /\ flags' = [flags EXCEPT !.gridSeen = TRUE]
      /\ UNCHANGED <<sticky, out, lost>>
    BY DEF EmitGrid
<1>5. buffer' = R
  <2>1. Append(<<top>>, row) = <<top, row>>
    <3>. HIDE DEF S, top, row
    <3>1. <<top>> \o <<row>> = <<top, row>> /\ <<top>> \in Seq(S)
        BY <1>3, PairConcat
    <3>2. Append(<<top>>, row) = <<top>> \o <<row>>
        BY <1>3, <3>1, AppendIsConcat
    <3>. QED BY <3>1, <3>2
  <2>2. buffer' = IF flags.gridSeen THEN Append(buffer, row) ELSE <<top, row>>
      BY <1>1 DEF EmitGrid
  <2>. HIDE DEF top, row
  <2>. QED BY <2>1, <2>2
<1>6. /\ H \in Seq(S) /\ H # <<>> /\ Steady(opt, H, all) /\ Numbers(H) = Accepted
  <2>. HIDE DEF all
  <2>1. CASE flags.gridSeen
      BY <1>1, <1>2, <1>21, <2>1
  <2>2. CASE ~flags.gridSeen
    <3>. HIDE DEF top, S
    <3>4. Projected(opt, all[n + 1], Width(k))
        BY <1>20
    <3>1. <<top>> \in Seq(S) /\ Steady(opt, <<top>>, all) /\ Numbers(<<top>>) = {}
        BY <1>1, <1>20, <3>4, SteadyHead DEF S, top
    <3>2. Accepted = {}
        BY <1>2, <2>2 DEF Numbers, RowsOf
    <3>3. H = <<top>> /\ <<top>> # <<>>
        BY <2>2
    <3>. QED BY <3>1, <3>2, <3>3
  <2>. QED BY <2>1, <2>2
<1>. HIDE DEF S, top, row, H, n, all
<1>7. R \in Seq(S) /\ R # <<>>
    BY <1>3, <1>6, AppendProperties
<1>8. flags' \in [headerDone : BOOLEAN, jsonOpen : BOOLEAN, gridSeen : BOOLEAN] /\ flags'.gridSeen
    BY <1>1, <1>4
<1>9. out' \in Seq(S) /\ sticky' \in BOOLEAN /\ lost' \in BOOLEAN /\ ~sticky' /\ out' = <<>>
    BY <1>1, <1>2, <1>4
<1>10. buffer' \in Seq(S)
    BY <1>5, <1>7
<1>11. RenderTypes'
    BY <1>1, <1>4, <1>8, <1>9, <1>10, EmitTypes DEF S
<1>12. Lines' = R
  <2>1. <<>> \o R = R
      BY <1>7, ConcatEmptySeq
  <2>. QED BY <1>5, <1>9, <2>1 DEF Lines
<1>13. Projected(opt, all[n + 1], Width(k)) /\ \A x \in Numbers(H) : x < n + 1
  <2>1. Accepted \subseteq 1..n
      BY <1>2 DEF Steady, n
  <2>2. \A x \in 1..n : x < n + 1
      BY <1>1
  <2>3. Numbers(H) \subseteq 1..n
      BY <1>6, <2>1
  <2>4. \A x \in Numbers(H) : x < n + 1
      BY <2>2, <2>3, Zenon
  <2>. QED BY <1>20, <2>4, Zenon
<1>14. Steady(opt, R, all) /\ Numbers(R) = Numbers(H) \cup {n + 1}
    BY <1>1, <1>6, <1>13, <1>20, SteadyRow DEF S, row
<1>15. Accepted' = Accepted \cup {n + 1} /\ kinds' = all /\ opt' = opt
    BY <1>1, <1>4, EmitCounts DEF Returns, all
<1>16. Steady(opt', Lines', kinds') /\ Numbers(Lines') = Accepted'
    BY <1>6, <1>12, <1>14, <1>15
<1>17. buffer' # <<>>
    BY <1>5, <1>7
<1>. QED BY <1>1, <1>8, <1>9, <1>11, <1>15, <1>16, <1>17 DEF Running

(* Both parts of a text keep its shape. *)
LEMMA SteadyParts ==
    ASSUME NEW W, NEW s \in Seq(Tokens(W)), NEW r \in Seq(Tokens(W)), NEW o, NEW ks,
           Steady(o, s \o r, ks)
    PROVE  Steady(o, s, ks) /\ Aligned(o, r, ks)
<1>. DEFINE S == Tokens(W)
            all == s \o r
<1>1. s \in Seq(S) /\ r \in Seq(S)
    OBVIOUS
<1>. HIDE DEF S
<1>2. /\ all \in Seq(S) /\ Len(all) = Len(s) + Len(r)
      /\ \A i \in 1..Len(s) + Len(r) : all[i] = IF i <= Len(s) THEN s[i] ELSE r[i - Len(s)]
    BY <1>1, ConcatProperties
<1>3. /\ Len(s) \in Nat /\ Len(r) \in Nat /\ DOMAIN s = 1..Len(s) /\ DOMAIN r = 1..Len(r)
      /\ DOMAIN all = 1..(Len(s) + Len(r))
    BY <1>1, <1>2
<1>. HIDE DEF all
<1>4. \A i \in DOMAIN s : i \in DOMAIN all /\ all[i] = s[i]
    BY <1>2, <1>3
<1>5. \A i \in DOMAIN r : Len(s) + i \in DOMAIN all /\ all[Len(s) + i] = r[i]
    BY <1>2, <1>3
<1>6. Steady(o, all, ks)
    BY DEF all
<1>7. /\ RowsOf(s) \subseteq RowsOf(all) /\ LinesOf(s) \subseteq LinesOf(all)
      /\ \A i \in RowsOf(s) \cup LinesOf(s) : all[i] = s[i]
    BY <1>4 DEF RowsOf, LinesOf
<1>8. Rising(s) /\ Aligned(o, s, ks) /\ Numbers(s) \subseteq Numbers(all)
    BY <1>6, <1>7 DEF Steady, Rising, Aligned, Numbers
<1>9. Headed(o, s)
  <2>1. \A i \in DOMAIN s : s[i].t = "head" => i = 1 /\ Heads(o)
      BY <1>4, <1>6 DEF Steady, Headed
  <2>2. s # <<>> => 1 \in DOMAIN s /\ all # <<>>
      BY <1>1, <1>3, <1>4
  <2>3. Heads(o) /\ s # <<>> => s[1].t = "head"
      BY <1>4, <1>6, <2>2 DEF Steady, Headed
  <2>. QED BY <2>1, <2>3 DEF Headed
<1>10. Aligned(o, r, ks)
  <2>. SUFFICES ASSUME NEW i \in LinesOf(r)
                PROVE  r[i].n \in 1..Len(ks) /\ Projected(o, ks[r[i].n], r[i].width)
      BY DEF Aligned
  <2>1. Len(s) + i \in LinesOf(all) /\ all[Len(s) + i] = r[i]
      BY <1>5 DEF LinesOf
  <2>. QED BY <1>6, <2>1 DEF Steady, Aligned
<1>. QED BY <1>6, <1>8, <1>9, <1>10 DEF Steady

(* What reaches the output, without the header of a grid under --no-header. *)
Neat(o, s, ks) == /\ Rising(s) /\ Aligned(o, s, ks)
                  /\ \A i \in DOMAIN s : s[i].t = "head" => i = 1 /\ o.header
                  /\ o.format \in {"delim", "grid"} /\ o.header /\ s # <<>> => s[1].t = "head"

LEMMA SteadyNeat ==
    ASSUME NEW W, NEW s \in Seq(Tokens(W)), NEW o, NEW ks, Steady(o, s, ks),
           o.format = "grid" /\ ~o.header => s = <<>>
    PROVE  Neat(o, s, ks)
<1>1. CASE s = <<>>
  <2>1. DOMAIN <<>> = {}
      OBVIOUS
  <2>. QED BY <1>1, <2>1 DEF Steady, Neat
<1>2. CASE s # <<>>
    BY <1>2 DEF Steady, Neat, Headed, Heads
<1>. QED BY <1>1, <1>2

LEMMA NeatPrefix ==
    ASSUME NEW W, NEW s \in Seq(Tokens(W)), NEW o, NEW ks, NEW m \in 0..Len(s), Neat(o, s, ks)
    PROVE  SubSeq(s, 1, m) \in Seq(Tokens(W)) /\ Neat(o, SubSeq(s, 1, m), ks)
<1>. DEFINE S == Tokens(W)
            p == SubSeq(s, 1, m)
<1>1. p \in Seq(S) /\ Len(p) = m /\ \A i \in 1..m : p[i] = s[i]
  <2>1. s \in Seq(S)
      OBVIOUS
  <2>. HIDE DEF S
  <2>2. \A i \in 1..m : s[i] \in S
      BY <2>1
  <2>. QED BY <2>2, SubSeqProperties
<1>2. DOMAIN p = 1..m /\ 1..m \subseteq DOMAIN s /\ m \in Nat
    BY <1>1
<1>. HIDE DEF p, S
<1>3. /\ RowsOf(p) \subseteq RowsOf(s) /\ LinesOf(p) \subseteq LinesOf(s)
      /\ \A i \in RowsOf(p) \cup LinesOf(p) : p[i] = s[i]
    BY <1>1, <1>2 DEF RowsOf, LinesOf
<1>4. Rising(p) /\ Aligned(o, p, ks)
    BY <1>3 DEF Neat, Rising, Aligned
<1>5. p # <<>> => s # <<>> /\ 1 \in DOMAIN p
    BY <1>1, <1>2
<1>. QED BY <1>1, <1>2, <1>4, <1>5 DEF Neat, p, S

(* A grid without its header: the rows, and nothing else. *)
LEMMA NeatTail ==
    ASSUME NEW W, NEW s \in Seq(Tokens(W)), NEW o, NEW ks, Steady(o, s, ks), s # <<>>,
           o.format = "grid", ~o.header
    PROVE  /\ Tail(s) \in Seq(Tokens(W)) /\ Neat(o, Tail(s), ks)
           /\ Numbers(Tail(s)) = Numbers(s)
<1>. DEFINE S == Tokens(W)
            r == Tail(s)
<1>1. s \in Seq(S)
    OBVIOUS
<1>. HIDE DEF S
<1>2. r \in Seq(S) /\ Len(r) = Len(s) - 1 /\ (\A i \in 1..Len(r) : r[i] = s[i + 1])
    BY <1>1, HeadTailProperties
<1>3. Len(s) \in Nat \ {0} /\ DOMAIN s = 1..Len(s) /\ DOMAIN r = 1..(Len(s) - 1)
    BY <1>1, <1>2
<1>. HIDE DEF r
<1>4. s[1].t = "head" /\ \A i \in DOMAIN s : s[i].t = "head" => i = 1
    BY DEF Steady, Headed, Heads
<1>5. \A i \in DOMAIN r : i + 1 \in DOMAIN s /\ i + 1 # 1 /\ r[i] = s[i + 1]
    BY <1>2, <1>3
<1>6. \A i \in DOMAIN r : r[i].t # "head"
    BY <1>4, <1>5
<1>7. \A i \in RowsOf(r) : i + 1 \in RowsOf(s) /\ r[i] = s[i + 1] /\ i \in Int
    BY <1>3, <1>5 DEF RowsOf
<1>8. \A j \in RowsOf(s) : j - 1 \in RowsOf(r) /\ r[j - 1] = s[j]
  <2>. SUFFICES ASSUME NEW j \in RowsOf(s) PROVE j - 1 \in RowsOf(r) /\ r[j - 1] = s[j]
      OBVIOUS
  <2>1. j \in 1..Len(s) /\ s[j].t = "row"
      BY <1>3 DEF RowsOf
  <2>2. j # 1
      BY <1>4, <2>1
  <2>3. j - 1 \in DOMAIN r /\ (j - 1) + 1 = j
      BY <1>3, <2>1, <2>2
  <2>. QED BY <1>5, <2>1, <2>3 DEF RowsOf
<1>9. Rising(r)
  <2>. SUFFICES ASSUME NEW i \in RowsOf(r), NEW j \in RowsOf(r), i < j PROVE r[i].n < r[j].n
      BY DEF Rising
  <2>1. i + 1 < j + 1
      BY <1>7
  <2>. QED BY <1>7, <2>1 DEF Steady, Rising
<1>10. Aligned(o, r, ks)
  <2>1. \A i \in LinesOf(r) : i + 1 \in LinesOf(s) /\ r[i] = s[i + 1]
      BY <1>5 DEF LinesOf
  <2>. QED BY <2>1 DEF Steady, Aligned
<1>11. Numbers(r) = Numbers(s)
    BY <1>7, <1>8 DEF Numbers
<1>12. Neat(o, r, ks)
    BY <1>6, <1>9, <1>10 DEF Neat
<1>. QED BY <1>2, <1>11, <1>12 DEF r, S

LEMMA NeatShape ==
    ASSUME NEW W, NEW s \in Seq(Tokens(W)), NEW r \in Seq(Tokens(W)), NEW o, NEW ks,
           Neat(o, s, ks), Aligned(o, r, ks)
    PROVE  /\ \A i \in DOMAIN s : s[i].t = "head" => i = 1 /\ o.header
           /\ o.format \in {"delim", "grid"} /\ o.header /\ {i \in DOMAIN s : s[i].t = "row"} # {}
                 => s[1].t = "head"
           /\ \A e \in Range(s) \union Range(r) :
                 e.t \in {"row", "head"} => e.n \in 1..Len(ks) /\ Projected(o, ks[e.n], e.width)
<1>1. \A i \in DOMAIN s : s[i].t = "head" => i = 1 /\ o.header
    BY DEF Neat
<1>2. {i \in DOMAIN s : s[i].t = "row"} # {} => s # <<>>
    OBVIOUS
<1>3. ASSUME NEW e \in Range(s) \union Range(r), e.t \in {"row", "head"}
      PROVE  e.n \in 1..Len(ks) /\ Projected(o, ks[e.n], e.width)
  <2>1. CASE e \in Range(s)
    <3>1. PICK i \in DOMAIN s : s[i] = e
        BY <2>1 DEF Range
    <3>. QED BY <1>3, <3>1 DEF Neat, Aligned, LinesOf
  <2>2. CASE e \in Range(r)
    <3>1. PICK i \in DOMAIN r : r[i] = e
        BY <2>2 DEF Range
    <3>. QED BY <1>3, <3>1 DEF Aligned, LinesOf
  <2>. QED BY <2>1, <2>2
<1>. QED BY <1>1, <1>2, <1>3 DEF Neat

(* A run that goes on is neat, too. *)
LEMMA RunningNeat ==
    ASSUME RenderTypes, Running
    PROVE  Neat(opt, out, kinds) /\ Aligned(opt, buffer, kinds) /\ Steady(opt, out, kinds)
<1>1. out \in Seq(Tokens(Widths)) /\ buffer \in Seq(Tokens(Widths))
    BY DEF RenderTypes
<1>2. Steady(opt, out, kinds) /\ Aligned(opt, buffer, kinds)
    BY <1>1, SteadyParts DEF Running, Lines
<1>3. opt.format = "grid" => out = <<>>
    BY DEF Running
<1>. QED BY <1>1, <1>2, <1>3, SteadyNeat

LEMMA RunningShape ==
    ASSUME RenderTypes, Running
    PROVE  HeaderOnce /\ ProjectionAligns
<1>1. out \in Seq(Tokens(Widths)) /\ buffer \in Seq(Tokens(Widths))
    BY DEF RenderTypes
<1>2. Neat(opt, out, kinds) /\ Aligned(opt, buffer, kinds)
    BY RunningNeat
<1>. DEFINE W == Widths
<1>3. out \in Seq(Tokens(W)) /\ buffer \in Seq(Tokens(W))
    BY <1>1
<1>. HIDE DEF W
<1>4. HeaderOnce
    BY <1>2, <1>3, NeatShape DEF HeaderOnce, Rows
<1>5. ProjectionAligns
  <2>1. DOMAIN kinds = 1..Len(kinds)
      BY DEF RenderTypes
  <2>. QED BY <1>2, <1>3, <2>1, NeatShape DEF ProjectionAligns
<1>. QED BY <1>4, <1>5

LEMMA NeatEnds ==
    ASSUME NEW W, out' \in Seq(Tokens(W)), buffer' \in Seq(Tokens(W)), kinds' \in Seq(Kinds),
           Neat(opt', out', kinds'), Aligned(opt', buffer', kinds')
    PROVE  HeaderOnce' /\ ProjectionAligns'
<1>1. HeaderOnce'
    BY NeatShape DEF HeaderOnce, Rows
<1>2. ProjectionAligns'
  <2>1. DOMAIN kinds' = 1..Len(kinds')
      OBVIOUS
  <2>. QED BY <2>1, NeatShape DEF ProjectionAligns
<1>. QED BY <1>1, <1>2

LEMMA RunningOver ==
    ASSUME RenderTypes, Running, phase = "open"
    PROVE  Over
<1>1. HeaderOnce /\ ProjectionAligns
    BY RunningShape
<1>2. JsonIsOneArray
    BY DEF JsonIsOneArray
<1>3. flushRes = "none"
    BY DEF RenderTypes
<1>4. ASSUME opt.format \in {"list", "jsonl", "json", "raw", "template"}
      PROVE  Written(Accepted)
  <2>1. buffer = <<>> /\ ~sticky
      BY <1>4 DEF RenderTypes, Running
  <2>2. Lines = out
      BY <2>1, LinesType
  <2>3. Numbers(out) = Accepted /\ Rising(out)
      BY <1>4, <2>1, <2>2 DEF Running, Steady
  <2>. QED BY <2>3 DEF Written, Rows, Numbers, Rising, RowsOf
<1>5. opt.format = "grid" => out = <<>>
    BY DEF Running
<1>6. AcceptedIsWritten
    BY <1>3, <1>4, <1>5 DEF AcceptedIsWritten
<1>. QED BY <1>1, <1>2, <1>6 DEF Over

(* A nil record breaks the url format, and leaves what was written. *)
LEMMA PanicOver ==
    ASSUME RenderTypes, Running, phase = "open", NEW k \in Kinds, Panics(k), opt.format = "url",
           Len(kinds) < MaxRecords
    PROVE  RenderTypes' /\ phase' # "open" /\ Over'
<1>1. /\ UNCHANGED <<opt, flags, buffer, sticky, out, flushRes, lost>> /\ phase' = "panicked"
      /\ kinds' = Append(kinds, k) /\ results' = Append(results, "panic")
    BY DEF Panics
<1>2. /\ kinds' \in Seq(Kinds) /\ results' \in Seq({"ok", "error", "panic"})
      /\ Len(kinds') = Len(kinds) + 1 /\ Len(results') = Len(kinds') /\ Len(kinds) \in Nat
    BY <1>1, EmitCounts
<1>3. Len(kinds') <= MaxRecords
    BY <1>2, RendererAssumption
<1>4. Widths' = Widths
    BY <1>1, WidthsStay
<1>5. RenderTypes'
    BY <1>1, <1>2, <1>3, <1>4 DEF RenderTypes
<1>6. /\ out \in Seq(Tokens(Widths)) /\ buffer \in Seq(Tokens(Widths)) /\ kinds \in Seq(Kinds)
      /\ buffer = <<>>
    BY DEF RenderTypes
<1>7. Steady(opt, out, kinds')
    BY <1>1, <1>6, RunningNeat, SteadyStays
<1>8. Neat(opt', out', kinds')
    BY <1>1, <1>6, <1>7, SteadyNeat
<1>9. Aligned(opt', buffer', kinds')
  <2>1. LinesOf(<<>>) = {}
      BY DEF LinesOf
  <2>. QED BY <1>1, <1>6, <2>1 DEF Aligned
<1>. DEFINE W == Widths
<1>10. out' \in Seq(Tokens(W)) /\ buffer' \in Seq(Tokens(W))
    BY <1>1, <1>6
<1>. HIDE DEF W
<1>11. HeaderOnce' /\ ProjectionAligns'
    BY <1>2, <1>8, <1>9, <1>10, NeatEnds
<1>13. AcceptedIsWritten' /\ JsonIsOneArray'
    BY <1>1 DEF AcceptedIsWritten, JsonIsOneArray
<1>. QED BY <1>1, <1>5, <1>11, <1>13 DEF Over

LEMMA EmitRuns ==
    ASSUME RenderIInv, NEW k \in Kinds, EmitRecord(k)
    PROVE  RenderIInv'
<1>1. RenderTypes /\ Running /\ phase = "open" /\ Len(kinds) < MaxRecords
    BY DEF RenderIInv, EmitRecord
<1>2. ASSUME RenderTypes', Running', UNCHANGED phase PROVE RenderIInv'
    BY <1>1, <1>2 DEF RenderIInv
<1>3. CASE EmitPlain(k)
  <2>1. /\ opt.format \in {"jsonl", "raw", "template"}
        /\ (\E ok \in BOOLEAN : Streamed(k, ok)) \/ (opt.format # "template" /\ Silent(k, "error"))
      BY <1>3 DEF EmitPlain
  <2>2. RenderTypes' /\ Running'
      BY <1>1, <2>1, StreamedRuns, SilentRuns
  <2>. QED BY <1>2, <2>1, <2>2 DEF Streamed, Silent, Returns
<1>10. CASE EmitTemplate(k)
    BY <1>1, <1>2, <1>10, TornRuns DEF EmitTemplate, Torn, Returns
<1>4. CASE EmitList(k)
  <2>1. /\ opt.format = "list"
        /\ \/ Width(k) # 0 /\ \E ok \in BOOLEAN : Streamed(k, ok)
           \/ Width(k) = 0 /\ Silent(k, "ok")
      BY <1>4 DEF EmitList
  <2>2. RenderTypes' /\ Running'
      BY <1>1, <2>1, StreamedRuns, SilentRuns
  <2>. QED BY <1>2, <2>1, <2>2 DEF Streamed, Silent, Returns
<1>5. CASE EmitURL(k)
  <2>1. /\ opt.format = "url"
        /\ Silent(k, "ok") \/ Panics(k) \/ \E ok \in BOOLEAN : Streamed(k, ok)
      BY <1>5 DEF EmitURL
  <2>2. CASE Panics(k)
      BY <1>1, <2>1, <2>2, PanicOver DEF RenderIInv
  <2>3. CASE Silent(k, "ok") \/ \E ok \in BOOLEAN : Streamed(k, ok)
    <3>1. RenderTypes' /\ Running'
        BY <1>1, <2>1, <2>3, StreamedRuns, SilentRuns
    <3>. QED BY <1>2, <2>3, <3>1 DEF Streamed, Silent, Returns
  <2>. QED BY <2>1, <2>2, <2>3
<1>6. CASE EmitJSON(k)
    BY <1>1, <1>2, <1>6, JsonRuns DEF EmitJSON, Returns
<1>7. CASE EmitDelim(k)
    BY <1>1, <1>2, <1>7, DelimRuns DEF EmitDelim, Returns
<1>8. CASE EmitGrid(k)
    BY <1>1, <1>2, <1>8, GridRuns DEF EmitGrid, Returns
<1>9. CASE EmitEncoded(k)
  <2>1. PICK res \in {"ok", "error"} : Silent(k, res)
      BY <1>9 DEF EmitEncoded
  <2>2. opt.format = "encoder"
      BY <1>9 DEF EmitEncoded
  <2>3. RenderTypes' /\ Running'
      BY <1>1, <2>1, <2>2, SilentRuns
  <2>. QED BY <1>2, <2>1, <2>3 DEF Silent, Returns
<1>. QED BY <1>3, <1>4, <1>5, <1>6, <1>7, <1>8, <1>9, <1>10 DEF EmitRecord
----------------------------------------------------------------------------
(* Flush, format by format. *)
LEMMA FlushEnds ==
    ASSUME RenderTypes, phase' = "flushed", buffer' = <<>>,
           UNCHANGED <<opt, flags, sticky, results, kinds>>,
           out' \in Seq(Tokens(Widths)), Neat(opt, out', kinds), lost' \in BOOLEAN,
           flushRes' \in {"ok", "error"},
           opt.format \in {"list", "jsonl", "json", "raw", "template"}
              \/ (opt.format \in {"grid", "delim"} /\ flushRes' = "ok") => Numbers(out') = Accepted,
           opt.format = "json" /\ ~lost' /\ (\A i \in DOMAIN kinds : Marshals(kinds[i]))
              => out' = ArrayOf(Len(kinds))
    PROVE  RenderTypes' /\ phase' # "open" /\ Over'
<1>. DEFINE W == Widths
<1>1. opt' = opt /\ kinds' = kinds /\ results' = results /\ flags' = flags /\ sticky' = sticky
    OBVIOUS
<1>2. Widths' = Widths
    BY <1>1, WidthsStay
<1>3. out' \in Seq(Tokens(W)) /\ buffer' \in Seq(Tokens(W))
    OBVIOUS
<1>4. RenderTypes'
    BY <1>1, <1>2, <1>3 DEF RenderTypes
<1>5. Neat(opt', out', kinds')
    BY <1>1
<1>6. Aligned(opt', buffer', kinds')
  <2>1. LinesOf(<<>>) = {}
      BY DEF LinesOf
  <2>. QED BY <2>1 DEF Aligned
<1>. HIDE DEF W
<1>20. kinds' \in Seq(Kinds)
    BY <1>1 DEF RenderTypes
<1>7. HeaderOnce' /\ ProjectionAligns'
    BY <1>3, <1>5, <1>6, <1>20, NeatEnds
<1>9. Accepted' = Accepted
    BY <1>1 DEF Accepted, Shown, Width, Columns
<1>10. Numbers(out') = Accepted => Written(Accepted)'
    BY <1>5, <1>9 DEF Neat, Written, Rows, Numbers, Rising, RowsOf
<1>11. AcceptedIsWritten'
    BY <1>1, <1>10 DEF AcceptedIsWritten
<1>12. JsonIsOneArray'
    BY <1>1 DEF JsonIsOneArray, Marshals, ArrayOf
<1>. QED BY <1>4, <1>7, <1>11, <1>12 DEF Over

LEMMA FlushGrid ==
    ASSUME RenderTypes, Running, FlushRun, opt.format = "grid"
    PROVE  RenderTypes' /\ phase' # "open" /\ Over'
<1>. DEFINE S == Tokens(Widths)
<1>1. /\ phase' = "flushed" /\ buffer' = <<>> /\ UNCHANGED <<opt, flags, sticky, results, kinds>>
      /\ FlushWrites(Drawn)
    BY DEF FlushRun
<1>2. /\ buffer \in Seq(S) /\ out = <<>> /\ Steady(opt, buffer, kinds)
      /\ Numbers(buffer) = Accepted
    BY LinesType DEF RenderTypes, Running
<1>3. Drawn \in Seq(S) /\ Neat(opt, Drawn, kinds) /\ Numbers(Drawn) = Accepted
  <2>1. CASE opt.header \/ buffer = <<>>
    <3>1. Drawn = buffer
        BY <2>1 DEF Drawn
    <3>. QED BY <1>2, <2>1, <3>1, SteadyNeat
  <2>2. CASE ~opt.header /\ buffer # <<>>
    <3>1. Drawn = Tail(buffer)
        BY <2>2 DEF Drawn
    <3>2. /\ Tail(buffer) \in Seq(S) /\ Neat(opt, Tail(buffer), kinds)
          /\ Numbers(Tail(buffer)) = Numbers(buffer)
        BY <1>2, <2>2, NeatTail
    <3>. QED BY <1>2, <3>1, <3>2
  <2>. QED BY <2>1, <2>2
<1>4. PICK m \in 0..Len(Drawn) :
          Writes(Drawn, m) /\ flushRes' = IF m = Len(Drawn) THEN "ok" ELSE "error"
    BY <1>1 DEF FlushWrites
<1>5. SubSeq(Drawn, 1, m) \in Seq(S) /\ Neat(opt, SubSeq(Drawn, 1, m), kinds)
    BY <1>3, NeatPrefix
<1>6. m = Len(Drawn) => SubSeq(Drawn, 1, m) = Drawn
  <2>1. Drawn \in Seq(S)
      BY <1>3
  <2>. HIDE DEF S
  <2>. QED BY <2>1, SubSeqFull
<1>7. out' = SubSeq(Drawn, 1, m) /\ lost' \in BOOLEAN
  <2>1. out' = out \o SubSeq(Drawn, 1, m) /\ lost' \in BOOLEAN
      BY <1>4 DEF Writes
  <2>2. SubSeq(Drawn, 1, m) \in Seq(S)
      BY <1>5
  <2>. HIDE DEF S
  <2>3. <<>> \o SubSeq(Drawn, 1, m) = SubSeq(Drawn, 1, m)
      BY <2>2, ConcatEmptySeq
  <2>. QED BY <1>2, <2>1, <2>3
<1>8. flushRes' \in {"ok", "error"} /\ (flushRes' = "ok" => Numbers(out') = Accepted)
    BY <1>3, <1>4, <1>6, <1>7
<1>9. out' \in Seq(Tokens(Widths)) /\ Neat(opt, out', kinds)
    BY <1>5, <1>7
<1>. QED BY <1>1, <1>7, <1>8, <1>9, FlushEnds

LEMMA FlushDelim ==
    ASSUME RenderTypes, Running, FlushRun, opt.format = "delim"
    PROVE  RenderTypes' /\ phase' # "open" /\ Over'
<1>. DEFINE S == Tokens(Widths)
<1>1. /\ phase' = "flushed" /\ buffer' = <<>> /\ UNCHANGED <<opt, flags, sticky, results, kinds>>
      /\ \/ ~sticky /\ FlushWrites(buffer)
         \/ sticky /\ flushRes' = "error" /\ UNCHANGED <<out, lost>>
    BY DEF FlushRun
<1>2. out \in Seq(S) /\ buffer \in Seq(S) /\ lost \in BOOLEAN /\ Neat(opt, out, kinds)
    BY RunningNeat DEF RenderTypes
<1>3. CASE sticky
  <2>1. flushRes' = "error" /\ out' = out /\ lost' = lost
      BY <1>1, <1>3
  <2>2. out' \in Seq(Tokens(Widths)) /\ lost' \in BOOLEAN /\ Neat(opt, out', kinds)
      BY <1>2, <2>1
  <2>. QED BY <1>1, <2>1, <2>2, FlushEnds
<1>4. CASE ~sticky
  <2>1. PICK m \in 0..Len(buffer) :
            Writes(buffer, m) /\ flushRes' = IF m = Len(buffer) THEN "ok" ELSE "error"
      BY <1>1, <1>4 DEF FlushWrites
  <2>. DEFINE a == SubSeq(buffer, 1, m)
              b == SubSeq(buffer, m + 1, Len(buffer))
  <2>2. out' = out \o a /\ lost' \in BOOLEAN
      BY <2>1 DEF Writes
  <2>3. out \o a \in Seq(S) /\ b \in Seq(S) /\ (out \o a) \o b = out \o buffer
    <3>1. out \in Seq(S) /\ buffer \in Seq(S)
        BY <1>2
    <3>. HIDE DEF S
    <3>. QED BY <3>1, SpillKeeps
  <2>4. m = Len(buffer) => a = buffer
    <3>1. buffer \in Seq(S)
        BY <1>2
    <3>. HIDE DEF S
    <3>. QED BY <3>1, SubSeqFull
  <2>. HIDE DEF a, b
  <2>5. Steady(opt, out', kinds)
    <3>1. Steady(opt, (out \o a) \o b, kinds)
        BY <2>3 DEF Running, Lines
    <3>. DEFINE p == out \o a
    <3>2. p \in Seq(S) /\ b \in Seq(S) /\ Steady(opt, p \o b, kinds)
        BY <2>3, <3>1
    <3>. HIDE DEF p
    <3>3. Steady(opt, p, kinds)
        BY <3>2, SteadyParts
    <3>. QED BY <2>2, <3>3 DEF p
  <2>6. out' \in Seq(Tokens(Widths)) /\ Neat(opt, out', kinds)
      BY <2>2, <2>3, <2>5, SteadyNeat
  <2>7. flushRes' \in {"ok", "error"} /\ (flushRes' = "ok" => Numbers(out') = Accepted)
    <3>1. flushRes' = "ok" => out' = Lines
        BY <2>1, <2>2, <2>4 DEF Lines
    <3>. QED BY <1>4, <2>1, <3>1 DEF Running
  <2>. QED BY <1>1, <2>2, <2>6, <2>7, FlushEnds
<1>. QED BY <1>3, <1>4

LEMMA FlushJson ==
    ASSUME RenderTypes, Running, FlushRun, opt.format = "json"
    PROVE  RenderTypes' /\ phase' # "open" /\ Over'
<1>. DEFINE S == Tokens(Widths)
            n == Len(kinds)
            e == IF flags.jsonOpen THEN Mark("]") ELSE Mark("[]")
<1>1. /\ phase' = "flushed" /\ buffer' = <<>> /\ UNCHANGED <<opt, flags, sticky, results, kinds>>
      /\ FlushWrites(<<e>>)
    BY DEF FlushRun
<1>2. /\ out \in Seq(S) /\ Lines = out /\ ~Heads(opt) /\ ~sticky /\ n \in Nat
      /\ Steady(opt, out, kinds) /\ Numbers(out) = Accepted
      /\ flags.jsonOpen <=> out # <<>>
    BY LinesType DEF RenderTypes, Running, Heads
<1>3. e \in S /\ e.t \notin {"row", "head"}
    BY WidthsType, TokenTypes DEF Marks
<1>4. Len(<<e>>) = 1
    OBVIOUS
<1>5. PICK m \in 0..Len(<<e>>) :
          Writes(<<e>>, m) /\ flushRes' = IF m = Len(<<e>>) THEN "ok" ELSE "error"
    BY <1>1 DEF FlushWrites
<1>6. m \in {0, 1} /\ Writes(<<e>>, m) /\ flushRes' \in {"ok", "error"} /\ lost' \in BOOLEAN
  <2>1. m \in {0, 1}
      BY <1>4, <1>5
  <2>2. lost' \in BOOLEAN
      BY <1>5 DEF Writes
  <2>. QED BY <1>5, <2>1, <2>2
<1>. HIDE DEF e
<1>7. /\ m = 1 => out' = Append(out, e) /\ lost' = lost
      /\ m = 0 => out' = out /\ lost'
    BY <1>3, <1>6, WritesOne
<1>8. /\ Append(out, e) \in Seq(S) /\ Steady(opt, Append(out, e), kinds)
      /\ Numbers(Append(out, e)) = Numbers(out)
    BY <1>2, <1>3, SteadyMark
<1>9. out' \in Seq(S) /\ Steady(opt, out', kinds) /\ Numbers(out') = Accepted
    BY <1>2, <1>6, <1>7, <1>8
<1>10. Neat(opt, out', kinds)
    BY <1>9, SteadyNeat
<1>11. ASSUME ~lost', \A i \in DOMAIN kinds : Marshals(kinds[i]) PROVE out' = ArrayOf(n)
  <2>1. out' = Append(out, e) /\ ~lost
      BY <1>6, <1>7, <1>11
  <2>2. out = OpenArray(n)
      BY <1>11, <2>1 DEF Running
  <2>3. CASE n = 0
    <3>1. out = <<>> /\ e = Mark("[]")
        BY <1>2, <2>2, <2>3, ArrayShape DEF e
    <3>2. Append(<<>>, Mark("[]")) = <<Mark("[]")>>
        OBVIOUS
    <3>. QED BY <2>1, <2>3, <3>1, <3>2 DEF ArrayOf
  <2>4. CASE n # 0
    <3>1. e = Mark("]")
        BY <1>2, <2>2, <2>4, ArrayShape DEF e
    <3>. QED BY <1>2, <2>1, <2>2, <2>4, <3>1, ArrayCloses
  <2>. QED BY <2>3, <2>4
<1>. QED BY <1>1, <1>6, <1>9, <1>10, <1>11, FlushEnds

LEMMA FlushOver ==
    ASSUME RenderIInv, FlushRun
    PROVE  RenderIInv'
<1>1. RenderTypes /\ Running /\ phase = "open"
    BY DEF RenderIInv, FlushRun
<1>2. RenderTypes' /\ phase' # "open" /\ Over'
  <2>1. CASE opt.format \notin {"grid", "delim", "json"}
    <3>1. /\ phase' = "flushed" /\ buffer' = <<>> /\ out' = out /\ lost' = lost
          /\ UNCHANGED <<opt, flags, sticky, results, kinds>> /\ flushRes' \in {"ok", "error"}
        BY <2>1 DEF FlushRun
    <3>2. out' \in Seq(Tokens(Widths)) /\ lost' \in BOOLEAN /\ Neat(opt, out', kinds)
        BY <1>1, <3>1, RunningNeat DEF RenderTypes
    <3>3. opt.format \in {"list", "jsonl", "raw", "template"} => Numbers(out') = Accepted
      <4>1. Lines = out /\ ~sticky
          BY <1>1, <2>1, LinesType DEF RenderTypes, Running
      <4>. QED BY <1>1, <3>1, <4>1 DEF Running
    <3>. QED BY <1>1, <2>1, <3>1, <3>2, <3>3, FlushEnds
  <2>. QED BY <1>1, <2>1, FlushGrid, FlushDelim, FlushJson
<1>. QED BY <1>2 DEF RenderIInv
----------------------------------------------------------------------------
(* The inductive invariant: while the run goes on, the lines written and   *)
(* held back are the accepted records in order under one header, and a     *)
(* JSON array is as long as the records; when it is over, what is out      *)
(* stays as it is (kit/render/render.go:183-511).                          *)
THEOREM RenderStays == RendererSpec => []RenderIInv
<1>1. RendererInit => RenderIInv
    BY RenderInit
<1>2. RenderIInv /\ [RendererNext]_renderVars => RenderIInv'
  <2>. SUFFICES ASSUME RenderIInv, [RendererNext]_renderVars PROVE RenderIInv'
      OBVIOUS
  <2>1. CASE FlushRun
      BY <2>1, FlushOver
  <2>2. ASSUME NEW k \in Kinds, EmitRecord(k) PROVE RenderIInv'
      BY <2>2, EmitRuns
  <2>3. CASE UNCHANGED renderVars
    <3>1. UNCHANGED <<opt, flags, buffer, sticky, out, results, kinds, phase, flushRes, lost>>
        BY <2>3 DEF renderVars
    <3>2. Widths' = Widths /\ Lines' = Lines /\ Accepted' = Accepted
        BY <3>1 DEF Widths, Lines, Accepted, Shown, Width, Columns
    <3>3. RenderTypes' <=> RenderTypes
        BY <3>1, <3>2 DEF RenderTypes
    <3>4. Running' <=> Running
        BY <3>1, <3>2 DEF Running, Marshals
    <3>5. Over' <=> Over
        BY <3>1, <3>2 DEF Over, HeaderOnce, ProjectionAligns, AcceptedIsWritten, JsonIsOneArray,
                          Written, Rows, Marshals
    <3>. QED BY <3>1, <3>3, <3>4, <3>5 DEF RenderIInv
  <2>. QED BY <2>1, <2>2, <2>3 DEF RendererNext
<1>. QED BY <1>1, <1>2, PTL DEF RendererSpec

(* Every output has its header at most once and first, and --fields gives  *)
(* rows and header one cell a name, those of nil records excepted          *)
(* (kit/render/render.go:233-511).                                         *)
THEOREM RendererCorrect == RendererSpec => []RendererInv
<1>1. RenderIInv => RendererInv
  <2>. SUFFICES ASSUME RenderIInv PROVE RendererInv
      OBVIOUS
  <2>1. RenderTypes /\ (phase = "open" => Running) /\ (phase # "open" => Over)
      BY DEF RenderIInv
  <2>2. HeaderOnce /\ ProjectionAligns
      BY <2>1, RunningShape DEF Over
  <2>3. RendererTypeOK
      BY <2>1 DEF RenderTypes, RendererTypeOK
  <2>. QED BY <2>2, <2>3 DEF RendererInv
<1>. QED BY <1>1, RenderStays, PTL

(* What Emit accepts is written: at once where the format streams, when    *)
(* Flush says ok where it is buffered (kit/render/render.go:183-511).      *)
THEOREM AcceptedWritten == RendererSpec => []AcceptedIsWritten
<1>1. RenderIInv => AcceptedIsWritten
    BY RunningOver DEF RenderIInv, Over
<1>. QED BY <1>1, RenderStays, PTL

(* -o json leaves one array of the records, however many they are, if all  *)
(* can be marshalled and no write fails (kit/render/render.go:436-456).    *)
THEOREM JsonArray == RendererSpec => []JsonIsOneArray
<1>1. RenderIInv => JsonIsOneArray
    BY RunningOver DEF RenderIInv, Over
<1>. QED BY <1>1, RenderStays, PTL

(* ---- The columns of a record type ---------------------------------------- *)

Column == [name : Keys, at : Seq(Nat), hide : BOOLEAN, url : BOOLEAN]
Slot == [name : Keys, at : Seq(Nat)]
SlotOf(c) == [name |-> c.name, at |-> c.at]

(* A field becomes one column or none. *)
LEMMA ColumnFits ==
    ASSUME NEW f, f.key \in Keys, f.exported \in BOOLEAN, f.gone \in BOOLEAN,
           f.hidden \in BOOLEAN, f.isUrl \in BOOLEAN, NEW at \in Seq(Nat), NEW hide \in BOOLEAN
    PROVE  ColumnOf(f, at, hide) \in Seq(Column)
<1>1. [name |-> f.key, at |-> at, hide |-> hide \/ f.hidden, url |-> f.isUrl] \in Column
    BY DEF Column
<1>. QED BY <1>1 DEF ColumnOf

(* What the renderer collects of one field, and of a type. *)
LEMMA CollectedFits ==
    ASSUME NEW f \in Field, NEW i \in Nat
    PROVE  Collected(f, i) \in Seq(Column)
<1>. DEFINE parts == [j \in DOMAIN f.sub |-> ColumnOf(f.sub[j], <<i, j>>, f.hidden)]
<1>1. <<i>> \in Seq(Nat) /\ f.sub \in Seq(Plain) /\ f.hidden \in BOOLEAN
    BY DEF Field
<1>2. ColumnOf(f, <<i>>, FALSE) \in Seq(Column)
    BY <1>1, ColumnFits DEF Field
<1>3. parts \in Seq(Seq(Column))
  <2>. DEFINE Q == Seq(Column)
  <2>1. ASSUME NEW j \in DOMAIN f.sub PROVE ColumnOf(f.sub[j], <<i, j>>, f.hidden) \in Q
    <3>1. f.sub[j] \in Plain /\ <<i, j>> \in Seq(Nat)
        BY <1>1
    <3>. QED BY <1>1, <3>1, ColumnFits DEF Plain
  <2>2. DOMAIN f.sub = 1..Len(f.sub) /\ Len(f.sub) \in Nat
      BY <1>1
  <2>. HIDE DEF Q
  <2>3. parts \in [1..Len(f.sub) -> Q]
      BY <2>1, <2>2
  <2>4. parts \in Seq(Q)
      BY <2>2, <2>3
  <2>. QED BY <2>4 DEF Q
<1>. HIDE DEF parts
<1>4. FlattenSeq(parts) \in Seq(Column)
    BY <1>3, FlattenType
<1>5. Collected(f, i) = IF ~Spreads(f) THEN ColumnOf(f, <<i>>, FALSE)
                        ELSE IF f.gone THEN <<>> ELSE FlattenSeq(parts)
    BY DEF Collected, parts
<1>6. <<>> \in Seq(Column)
    OBVIOUS
<1>. DEFINE one == ColumnOf(f, <<i>>, FALSE)
            all == FlattenSeq(parts)
<1>. HIDE DEF one, all
<1>7. Collected(f, i) \in {one, <<>>, all}
    BY <1>5 DEF one, all
<1>. QED BY <1>2, <1>4, <1>6, <1>7 DEF one, all

(* The columns of a type are those of its fields, in order. *)
LEMMA CollectFits ==
    ASSUME NEW t \in Seq(Field)
    PROVE  /\ Collect(t) \in Seq(Column)
           /\ Range(Collect(t)) = UNION {Range(Collected(t[i], i)) : i \in 1..Len(t)}
           /\ /\ \A i, j \in 1..Len(t) : i # j => Range(Collected(t[i], i)) \cap Range(Collected(t[j], j)) = {}
              /\ \A i \in 1..Len(t) : Once(Collected(t[i], i))
              => Once(Collect(t))
<1>. DEFINE parts == [i \in DOMAIN t |-> Collected(t[i], i)]
            Q == Seq(Column)
            F == FlattenSeq(parts)
<1>1. DOMAIN t = 1..Len(t) /\ Len(t) \in Nat /\ \A i \in 1..Len(t) : t[i] \in Field /\ i \in Nat
    OBVIOUS
<1>2. \A i \in 1..Len(t) : Collected(t[i], i) \in Q
    BY <1>1, CollectedFits
<1>. HIDE DEF Q
<1>3. parts \in [1..Len(t) -> Q]
    BY <1>1, <1>2
<1>4. parts \in Seq(Q) /\ Len(parts) = Len(t) /\ \A i \in 1..Len(t) : parts[i] = Collected(t[i], i)
    BY <1>1, <1>3
<1>5. Collect(t) = F
    BY DEF Collect
<1>. HIDE DEF parts, F
<1>6. F = FlattenSeq(parts) /\ parts \in Seq(Seq(Column))
    BY <1>4 DEF F, Q
<1>7. /\ F \in Seq(Column) /\ Range(F) = UNION {Range(parts[i]) : i \in 1..Len(parts)}
      /\ NoneShared(parts) /\ (\A i \in 1..Len(parts) : Once(parts[i])) => Once(F)
    BY <1>6, FlattenHolds
<1>8. UNION {Range(parts[i]) : i \in 1..Len(parts)} = UNION {Range(Collected(t[i], i)) : i \in 1..Len(t)}
    BY <1>4
<1>9. ASSUME \A i, j \in 1..Len(t) : i # j => Range(Collected(t[i], i)) \cap Range(Collected(t[j], j)) = {},
             \A i \in 1..Len(t) : Once(Collected(t[i], i))
      PROVE  Once(F)
  <2>1. \A i \in 1..Len(parts) : Once(parts[i])
      BY <1>4, <1>9
  <2>2. NoneShared(parts)
      BY <1>4, <1>9 DEF NoneShared
  <2>. QED BY <1>7, <2>1, <2>2
<1>. QED BY <1>5, <1>7, <1>8, <1>9

(* What the plan shows and what it keeps aside. *)
SlotsOf(K) == {SlotOf(c) : c \in K}
ShownOf(A) == SlotsOf({d \in Range(A) : ~d.hide})
AsideOf(A) == SlotsOf({d \in Range(A) : d.hide})
AtTells(A) == \A c, d \in Range(A) : c.at = d.at => c = d

(* One half of a plan. *)
Slims(F, s) == F = [i \in DOMAIN s |-> [name |-> s[i].name, at |-> s[i].at]]
LEMMA Slimmed ==
    ASSUME NEW A \in Seq(Column), NEW s \in Seq(Column), NEW K \in SUBSET Range(A), Range(s) = K,
           Once(A) => Once(s), NEW F, Slims(F, s)
    PROVE  /\ F \in Seq(Slot) /\ Range(F) = SlotsOf(K)
           /\ Once(A) /\ AtTells(A) => Once(F)
<1>1. DOMAIN s = 1..Len(s) /\ Len(s) \in Nat /\ DOMAIN F = DOMAIN s
      /\ \A i \in DOMAIN s : s[i] \in Column /\ F[i] = SlotOf(s[i])
    BY DEF SlotOf, Slims
<1>2. \A i \in DOMAIN s : F[i] \in Slot
    BY <1>1 DEF SlotOf, Column, Slot
<1>3. F \in Seq(Slot)
  <2>1. F \in [1..Len(s) -> Slot]
      BY <1>1, <1>2 DEF Slims
  <2>. QED BY <1>1, <2>1
<1>4. Range(F) = SlotsOf(K)
    BY <1>1 DEF Range, SlotsOf
<1>5. ASSUME Once(A), AtTells(A) PROVE Once(F)
  <2>. SUFFICES ASSUME NEW i \in DOMAIN s, NEW j \in DOMAIN s, F[i] = F[j] PROVE i = j
      BY <1>1 DEF Once
  <2>1. s[i] \in Range(A) /\ s[j] \in Range(A)
      BY DEF Range
  <2>2. s[i].at = s[j].at
      BY <1>1 DEF SlotOf
  <2>3. s[i] = s[j]
      BY <1>5, <2>1, <2>2 DEF AtTells
  <2>. QED BY <1>5, <2>3 DEF Once
<1>. QED BY <1>3, <1>4, <1>5

(* The plan of a type is its columns, divided. *)
LEMMA Planned ==
    ASSUME NEW t \in Seq(Field), NEW A, A = Collect(t), NEW p, p = Plan(t)
    PROVE  /\ p.cols \in Seq(Slot) /\ p.hidden \in Seq(Slot)
           /\ Range(p.cols) = ShownOf(A) /\ Range(p.hidden) = AsideOf(A)
           /\ Once(A) /\ AtTells(A) => Once(p.cols) /\ Once(p.hidden)
<1>. DEFINE open == Those(A, LAMBDA c : ~c.hide)
            shut == Those(A, LAMBDA c : c.hide)
            openParts == [i \in DOMAIN A |-> IF ~A[i].hide THEN <<A[i]>> ELSE <<>>]
            shutParts == [i \in DOMAIN A |-> IF A[i].hide THEN <<A[i]>> ELSE <<>>]
            H1 == {d \in Range(A) : ~d.hide}
            H2 == {d \in Range(A) : d.hide}
<1>1. A \in Seq(Column)
    BY CollectFits
<1>2. open = FlattenSeq(openParts) /\ shut = FlattenSeq(shutParts)
    BY DEF Those
<1>3. Slims(p.cols, open) /\ Slims(p.hidden, shut)
    BY DEF Plan, Slims
<1>4. Sifts(A, openParts) /\ \A i \in DOMAIN A : openParts[i] # <<>> <=> ~A[i].hide
    BY DEF Sifts
<1>5. Sifts(A, shutParts) /\ \A i \in DOMAIN A : shutParts[i] # <<>> <=> A[i].hide
    BY DEF Sifts
<1>. HIDE DEF open, shut, openParts, shutParts
<1>6. H1 = Kept(A, openParts)
    BY <1>4 DEF Range, Kept
<1>7. H2 = Kept(A, shutParts)
    BY <1>5 DEF Range, Kept
<1>8. open \in Seq(Column) /\ Range(open) = Kept(A, openParts) /\ (Once(A) => Once(open))
    BY <1>1, <1>2, <1>4, Sifted
<1>9. shut \in Seq(Column) /\ Range(shut) = Kept(A, shutParts) /\ (Once(A) => Once(shut))
    BY <1>1, <1>2, <1>5, Sifted
<1>10. H1 \in SUBSET Range(A) /\ H2 \in SUBSET Range(A)
    OBVIOUS
<1>. HIDE DEF H1, H2
<1>11. /\ p.cols \in Seq(Slot) /\ Range(p.cols) = SlotsOf(H1)
       /\ Once(A) /\ AtTells(A) => Once(p.cols)
    BY <1>1, <1>3, <1>6, <1>8, <1>10, Slimmed
<1>12. /\ p.hidden \in Seq(Slot) /\ Range(p.hidden) = SlotsOf(H2)
       /\ Once(A) /\ AtTells(A) => Once(p.hidden)
    BY <1>1, <1>3, <1>7, <1>9, <1>10, Slimmed
<1>. QED BY <1>11, <1>12 DEF ShownOf, AsideOf, H1, H2

(* The entries of a plan that have one name. *)
LEMMA NamedAre ==
    ASSUME NEW s \in Seq(Slot), NEW n, NEW F,
           F = FlattenSeq([i \in DOMAIN s |-> IF s[i].name = n THEN <<s[i]>> ELSE <<>>])
    PROVE  F \in Seq(Slot) /\ Range(F) = {c \in Range(s) : c.name = n}
<1>. DEFINE parts == [i \in DOMAIN s |-> IF s[i].name = n THEN <<s[i]>> ELSE <<>>]
<1>1. F = FlattenSeq(parts)
    OBVIOUS
<1>2. Sifts(s, parts) /\ \A i \in DOMAIN s : parts[i] # <<>> <=> s[i].name = n
    BY DEF Sifts
<1>. HIDE DEF parts
<1>3. {c \in Range(s) : c.name = n} = Kept(s, parts)
    BY <1>2 DEF Range, Kept
<1>4. F \in Seq(Slot) /\ Range(F) = Kept(s, parts)
    BY <1>1, <1>2, Sifted
<1>. QED BY <1>3, <1>4

(* Two sequences joined end with the second, unless it is empty. *)
LEMMA LastOfJoin ==
    ASSUME NEW S, NEW a \in Seq(S), NEW b \in Seq(S), NEW w, w = a \o b
    PROVE  /\ Range(a) # {} \/ Range(b) # {} => w # <<>> /\ Last(w) \in Range(a) \cup Range(b)
           /\ Range(b) # {} => Last(w) \in Range(b)
<1>1. w \in Seq(S) /\ Unites(w, a, b) /\ Splice(w, a, b)
    BY JoinedHolds, Spliced
<1>2. Range(w) = Range(a) \cup Range(b) /\ Len(w) = Len(a) + Len(b) /\ Len(a) \in Nat /\ Len(b) \in Nat
      /\ \A i \in 1..Len(b) : w[Len(a) + i] = b[i]
    BY <1>1 DEF Unites, Splice
<1>3. DOMAIN w = 1..Len(w) /\ DOMAIN a = 1..Len(a) /\ DOMAIN b = 1..Len(b)
    BY <1>1
<1>4. Last(w) = w[Len(w)]
    BY DEF Last
<1>5. ASSUME Range(w) # {} PROVE w # <<>> /\ Last(w) \in Range(w)
  <2>1. Len(w) # 0 /\ Len(w) \in Nat
      BY <1>2, <1>3, <1>5 DEF Range
  <2>2. Len(w) \in 1..Len(w)
      BY <2>1
  <2>. QED BY <1>3, <1>4, <2>1, <2>2 DEF Range
<1>6. ASSUME Range(b) # {} PROVE Last(w) \in Range(b)
  <2>1. Len(b) # 0
      BY <1>2, <1>3, <1>6 DEF Range
  <2>2. Len(b) \in 1..Len(b)
      BY <1>2, <2>1
  <2>3. Last(w) = b[Len(b)]
      BY <1>2, <1>4, <2>2
  <2>. QED BY <1>3, <2>2, <2>3 DEF Range
<1>. QED BY <1>2, <1>5, <1>6

(* What `pick` finds under a name: a column of that name, a shown one first. *)
LEMMA Picked ==
    ASSUME NEW t \in Seq(Field), NEW p, p = Plan(t), NEW n
    PROVE  /\ n \in {c.name : c \in Range(p.cols)} => ByName(p, n) \in Range(p.cols)
           /\ n \in {c.name : c \in Range(p.cols) \cup Range(p.hidden)} =>
                  ByName(p, n) \in Range(p.cols) \cup Range(p.hidden) /\ ByName(p, n).name = n
<1>. DEFINE a == Those(p.hidden, LAMBDA c : c.name = n)
            b == Those(p.cols, LAMBDA c : c.name = n)
            w == a \o b
<1>1. p.cols \in Seq(Slot) /\ p.hidden \in Seq(Slot)
    BY Planned
<1>2. ByName(p, n) = IF w = <<>> THEN [name |-> n, at |-> <<>>] ELSE Last(w)
    BY DEF ByName
<1>. DEFINE P == p.hidden
            Q == p.cols
<1>. HIDE DEF P, Q
<1>3. a \in Seq(Slot) /\ Range(a) = {c \in Range(P) : c.name = n}
  <2>1. /\ a = FlattenSeq([i \in DOMAIN P |-> IF P[i].name = n THEN <<P[i]>> ELSE <<>>])
        /\ P \in Seq(Slot)
      BY <1>1 DEF P, Those
  <2>. HIDE DEF a
  <2>. QED BY <2>1, NamedAre
<1>4. b \in Seq(Slot) /\ Range(b) = {c \in Range(Q) : c.name = n}
  <2>1. /\ b = FlattenSeq([i \in DOMAIN Q |-> IF Q[i].name = n THEN <<Q[i]>> ELSE <<>>])
        /\ Q \in Seq(Slot)
      BY <1>1 DEF Q, Those
  <2>. HIDE DEF b
  <2>. QED BY <2>1, NamedAre
<1>. HIDE DEF a, b
<1>5. w = a \o b
    OBVIOUS
<1>. HIDE DEF w
<1>6. /\ Range(a) # {} \/ Range(b) # {} => w # <<>> /\ Last(w) \in Range(a) \cup Range(b)
      /\ Range(b) # {} => Last(w) \in Range(b)
    BY <1>3, <1>4, <1>5, LastOfJoin
<1>7. n \in {c.name : c \in Range(Q)} => Range(b) # {} /\ ByName(p, n) \in Range(Q)
    BY <1>2, <1>4, <1>6
<1>8. n \in {c.name : c \in Range(Q) \cup Range(P)} =>
          ByName(p, n) \in Range(Q) \cup Range(P) /\ ByName(p, n).name = n
    BY <1>2, <1>3, <1>4, <1>6
<1>. QED BY <1>7, <1>8 DEF P, Q

(* A column that is shown is what its name finds, hidden ones of that name or not. *)
LEMMA ShownNamed ==
    ASSUME opt.shape \in Shapes
    PROVE  ShownNameIsShown
BY ShapeAssumption, Picked DEF ShownNameIsShown

(* ---- The two walks of a type that embeds plainly ------------------------- *)

(* A field of which both walks can make the same. *)
Even(f) == f.embed = "no" \/ (f.embed = "value" /\ ~f.named /\ ~f.gone)

(* What a field declares or promotes, and the column of such an entry. *)
Under(f, i) == IF f.embed = "no" THEN {[f |-> f, at |-> <<i>>]}
               ELSE {[f |-> f.sub[j], at |-> <<i, j>>] : j \in DOMAIN f.sub}
Hides(f, e) == (f.embed # "no" /\ f.hidden) \/ e.f.hidden
ColumnFor(f, e) == [name |-> e.f.key, at |-> e.at, hide |-> Hides(f, e), url |-> e.f.isUrl]
Visible(E) == {e \in E : e.f.exported /\ ~e.f.gone}
ColumnsUnder(f, i) == {ColumnFor(f, e) : e \in Visible(Under(f, i))}

(* The renderer's walk of one field reaches what the other walk has under it. *)
LEMMA CollectedIs ==
    ASSUME NEW f \in Field, Even(f), NEW i \in Nat
    PROVE  Range(Collected(f, i)) = ColumnsUnder(f, i) /\ Once(Collected(f, i))
<1>1. CASE f.embed = "no"
  <2>1. Collected(f, i) = ColumnOf(f, <<i>>, FALSE)
      BY <1>1 DEF Collected, Spreads
  <2>. DEFINE e == [f |-> f, at |-> <<i>>]
              c == [name |-> f.key, at |-> <<i>>, hide |-> FALSE \/ f.hidden, url |-> f.isUrl]
  <2>2. Under(f, i) = {e}
      BY <1>1 DEF Under
  <2>3. ColumnFor(f, e) = c
      BY <1>1 DEF ColumnFor, Hides, Field
  <2>4. ColumnOf(f, <<i>>, FALSE) = IF ~f.exported \/ f.gone THEN <<>> ELSE <<c>>
      BY DEF ColumnOf
  <2>5. e.f = f
      OBVIOUS
  <2>. HIDE DEF e, c
  <2>6. Range(<<>>) = {} /\ Range(<<c>>) = {c} /\ Once(<<>>) /\ Once(<<c>>)
      BY DEF Range, Once
  <2>7. ColumnsUnder(f, i) = IF ~f.exported \/ f.gone THEN {} ELSE {c}
      BY <2>2, <2>3, <2>5 DEF ColumnsUnder, Visible
  <2>8. CASE ~f.exported \/ f.gone
      BY <2>1, <2>4, <2>6, <2>7, <2>8
  <2>9. CASE ~(~f.exported \/ f.gone)
      BY <2>1, <2>4, <2>6, <2>7, <2>9
  <2>. QED BY <2>8, <2>9
<1>2. CASE f.embed = "value" /\ ~f.named /\ ~f.gone
  <2>. DEFINE g(j) == f.sub[j]
              e(j) == [f |-> g(j), at |-> <<i, j>>]
              c(j) == ColumnFor(f, e(j))
              J == DOMAIN f.sub
              V == {j \in J : g(j).exported /\ ~g(j).gone}
              parts == [j \in J |-> ColumnOf(g(j), <<i, j>>, f.hidden)]
              F == FlattenSeq(parts)
  <2>1. Collected(f, i) = F
      BY <1>2 DEF Collected, Spreads
  <2>2. J = 1..Len(f.sub) /\ Len(f.sub) \in Nat /\ \A j \in J : g(j) \in Plain
      BY DEF Field
  <2>3. \A j \in J : parts[j] = IF j \in V THEN <<c(j)>> ELSE <<>>
    <3>. SUFFICES ASSUME NEW j \in J PROVE parts[j] = IF j \in V THEN <<c(j)>> ELSE <<>>
        OBVIOUS
    <3>. DEFINE d == [name |-> g(j).key, at |-> <<i, j>>, hide |-> f.hidden \/ g(j).hidden, url |-> g(j).isUrl]
    <3>1. c(j) = d
        BY <1>2 DEF ColumnFor, Hides
    <3>2. parts[j] = IF ~g(j).exported \/ g(j).gone THEN <<>> ELSE <<d>>
        BY DEF ColumnOf
    <3>. HIDE DEF d, c, parts
    <3>3. j \in V <=> ~(~g(j).exported \/ g(j).gone)
        OBVIOUS
    <3>. QED BY <3>1, <3>2, <3>3
  <2>4. \A j \in J : c(j).at = <<i, j>>
      BY DEF ColumnFor
  <2>5. \A j, k \in J : c(j) = c(k) => j = k
      BY <2>2, <2>4
  <2>6. Under(f, i) = {e(j) : j \in J}
      BY <1>2 DEF Under
  <2>7. \A j : e(j).f = g(j)
      OBVIOUS
  <2>. HIDE DEF e, c, g
  <2>8. ColumnsUnder(f, i) = {c(j) : j \in V}
      BY <2>6, <2>7 DEF ColumnsUnder, Visible, c
  <2>9. V \subseteq J /\ DOMAIN parts = J
      OBVIOUS
  <2>. DEFINE T == {c(j) : j \in J}
              Q == Seq(T)
  <2>10. \A j \in J : <<c(j)>> \in Q /\ <<>> \in Q
      OBVIOUS
  <2>. HIDE DEF V, J, Q
  <2>11. \A j \in J : parts[j] \in Q
      BY <2>3, <2>10
  <2>12. parts \in [1..Len(f.sub) -> Q]
      BY <2>2, <2>9, <2>11
  <2>. HIDE DEF parts, T
  <2>13. parts \in Seq(Q) /\ Len(parts) = Len(f.sub)
      BY <2>2, <2>12
  <2>14. parts \in Seq(Seq(T)) /\ Len(parts) = Len(f.sub)
      BY <2>13 DEF Q
  <2>. HIDE DEF F
  <2>15. F = FlattenSeq(parts)
      BY DEF F
  <2>16. /\ Range(F) = UNION {Range(parts[j]) : j \in 1..Len(parts)}
         /\ NoneShared(parts) /\ (\A j \in 1..Len(parts) : Once(parts[j])) => Once(F)
      BY <2>14, <2>15, FlattenHolds
  <2>17. Range(<<>>) = {} /\ \A x : Range(<<x>>) = {x} /\ Once(<<>>) /\ Once(<<x>>)
      BY DEF Range, Once
  <2>18. \A j \in J : Once(parts[j]) /\ Range(parts[j]) = IF j \in V THEN {c(j)} ELSE {}
      BY <2>3, <2>17
  <2>19. Range(F) = {c(j) : j \in V}
    <3>1. ASSUME NEW x PROVE x \in Range(F) <=> \E j \in V : x = c(j)
      <4>1. x \in Range(F) <=> \E j \in J : x \in Range(parts[j])
          BY <2>2, <2>14, <2>16
      <4>. QED BY <2>9, <2>18, <4>1
    <3>. QED BY <3>1
  <2>20. NoneShared(parts)
    <3>. SUFFICES ASSUME NEW j \in J, NEW k \in J, j # k PROVE Range(parts[j]) \cap Range(parts[k]) = {}
        BY <2>2, <2>14 DEF NoneShared
    <3>1. c(j) # c(k)
        BY <2>5
    <3>2. Range(parts[j]) \subseteq {c(j)} /\ Range(parts[k]) \subseteq {c(k)}
        BY <2>18
    <3>. QED BY <3>1, <3>2
  <2>21. Once(F)
      BY <2>2, <2>14, <2>16, <2>18, <2>20
  <2>. QED BY <2>1, <2>8, <2>19, <2>21
<1>. QED BY <1>1, <1>2 DEF Even

(* Where an entry or a column stands tells the field, and which of its own. *)
LEMMA UnderAt ==
    ASSUME NEW f \in Field, NEW i \in Nat
    PROVE  /\ \A e \in Under(f, i) : e.at[1] = i
           /\ \A e, d \in Under(f, i) : e.at = d.at => e = d
           /\ \A c \in ColumnsUnder(f, i) : \E e \in Visible(Under(f, i)) : c = ColumnFor(f, e) /\ c.at = e.at
<1>1. \A e \in Under(f, i) : e.at[1] = i
    BY DEF Under
<1>2. \A e, d \in Under(f, i) : e.at = d.at => e = d
    BY DEF Under
<1>3. \A e : ColumnFor(f, e).at = e.at
    BY DEF ColumnFor
<1>. QED BY <1>1, <1>2, <1>3 DEF ColumnsUnder

(* All of a type's entries. *)
Entries(t) == UNION {Under(t[i], i) : i \in 1..Len(t)}
SlotFor(e) == [name |-> e.f.key, at |-> e.at]

(* The renderer's walk of a type: every visible entry once. *)
LEMMA EvenCollects ==
    ASSUME NEW t \in Seq(Field), \A i \in 1..Len(t) : Even(t[i]), NEW A, A = Collect(t)
    PROVE  /\ Once(A) /\ AtTells(A)
           /\ SlotsOf(Range(A)) = {SlotFor(e) : e \in Visible(Entries(t))}
<1>. DEFINE C(i) == ColumnsUnder(t[i], i)
            U(i) == Under(t[i], i)
            R(i) == Range(Collected(t[i], i))
            N == Len(t)
<1>1. \A i \in 1..N : t[i] \in Field /\ i \in Nat
    OBVIOUS
<1>2. \A i \in 1..N : R(i) = C(i) /\ Once(Collected(t[i], i))
    BY <1>1, CollectedIs
<1>3. \A i \in 1..N : \A c \in C(i) : \E e \in Visible(U(i)) : c = ColumnFor(t[i], e) /\ c.at = e.at
    BY <1>1, UnderAt
<1>4. \A i \in 1..N : \A e \in U(i) : e.at[1] = i
    BY <1>1, UnderAt
<1>5. \A i \in 1..N : \A e, d \in U(i) : e.at = d.at => e = d
    BY <1>1, UnderAt
<1>6. \A i \in 1..N : Visible(U(i)) \subseteq U(i)
    BY DEF Visible
<1>7. \A i \in 1..N : \A e \in Visible(U(i)) : ColumnFor(t[i], e) \in C(i)
    BY DEF ColumnsUnder
<1>8. /\ Range(A) = UNION {R(i) : i \in 1..N}
      /\ /\ \A i, j \in 1..N : i # j => R(i) \cap R(j) = {}
         /\ \A i \in 1..N : Once(Collected(t[i], i))
         => Once(A)
    BY CollectFits
<1>. HIDE DEF C, U, R, N
<1>9. \A c : c \in Range(A) <=> \E i \in 1..N : c \in C(i)
    BY <1>2, <1>8
<1>10. \A i \in 1..N : \A c \in C(i) : c.at[1] = i
    BY <1>3, <1>4, <1>6
<1>11. Once(A)
  <2>1. \A i, j \in 1..N : i # j => R(i) \cap R(j) = {}
      BY <1>2, <1>10
  <2>. QED BY <1>2, <1>8, <2>1
<1>12. AtTells(A)
  <2>. SUFFICES ASSUME NEW c \in Range(A), NEW d \in Range(A), c.at = d.at PROVE c = d
      BY DEF AtTells
  <2>1. PICK i \in 1..N : c \in C(i)
      BY <1>9
  <2>2. PICK j \in 1..N : d \in C(j)
      BY <1>9
  <2>3. i = j
      BY <1>10, <2>1, <2>2
  <2>4. PICK e \in Visible(U(i)) : c = ColumnFor(t[i], e) /\ c.at = e.at
      BY <1>3, <2>1
  <2>5. PICK x \in Visible(U(i)) : d = ColumnFor(t[i], x) /\ d.at = x.at
      BY <1>3, <2>2, <2>3
  <2>6. e = x
      BY <1>5, <1>6, <2>4, <2>5
  <2>. QED BY <2>4, <2>5, <2>6
<1>13. \A f, e : SlotOf(ColumnFor(f, e)) = SlotFor(e)
    BY DEF SlotOf, ColumnFor, SlotFor
<1>14. \A e : e \in Visible(Entries(t)) <=> \E i \in 1..N : e \in Visible(U(i))
    BY DEF Visible, Entries, U, N
<1>15. ASSUME NEW x PROVE (\E c \in Range(A) : x = SlotOf(c)) <=> (\E e \in Visible(Entries(t)) : x = SlotFor(e))
  <2>1. ASSUME NEW c \in Range(A), x = SlotOf(c) PROVE \E e \in Visible(Entries(t)) : x = SlotFor(e)
    <3>1. PICK i \in 1..N : c \in C(i)
        BY <1>9
    <3>2. PICK e \in Visible(U(i)) : c = ColumnFor(t[i], e)
        BY <1>3, <3>1
    <3>3. x = SlotFor(e)
        BY <1>13, <2>1, <3>2
    <3>4. e \in Visible(Entries(t))
        BY <1>14, <3>2
    <3>. QED BY <3>3, <3>4
  <2>2. ASSUME NEW e \in Visible(Entries(t)), x = SlotFor(e) PROVE \E c \in Range(A) : x = SlotOf(c)
    <3>1. PICK i \in 1..N : e \in Visible(U(i))
        BY <1>14
    <3>2. ColumnFor(t[i], e) \in Range(A)
        BY <1>7, <1>9, <3>1
    <3>3. x = SlotOf(ColumnFor(t[i], e))
        BY <1>13, <2>2
    <3>. QED BY <3>2, <3>3
  <2>. QED BY <2>1, <2>2
<1>16. SlotsOf(Range(A)) = {SlotFor(e) : e \in Visible(Entries(t))}
  <2>1. \A x : x \in SlotsOf(Range(A)) <=> \E c \in Range(A) : x = SlotOf(c)
      BY DEF SlotsOf
  <2>2. \A x : x \in {SlotFor(e) : e \in Visible(Entries(t))} <=> \E e \in Visible(Entries(t)) : x = SlotFor(e)
      OBVIOUS
  <2>. QED BY <1>15, <2>1, <2>2
<1>. QED BY <1>11, <1>12, <1>16

(* What reflectx declares and promotes, of a type both walks can agree on. *)
LEMMA DeclaredAre ==
    ASSUME NEW t \in Seq(Field), \A i \in 1..Len(t) : Even(t[i])
    PROVE  /\ Declared(t) \in Seq(Entries(t)) /\ Promoted(t) \in Seq(Entries(t))
           /\ Range(Declared(t)) \cup Range(Promoted(t)) = Entries(t)
           /\ \A e \in Range(Declared(t)) : Len(e.at) = 1
           /\ \A e \in Range(Promoted(t)) : Len(e.at) = 2
<1>. DEFINE N == Len(t)
            E == Entries(t)
            own(i) == [f |-> t[i], at |-> <<i>>]
            d == [i \in DOMAIN t |-> own(i)]
            dParts == [i \in DOMAIN d |-> IF d[i].f.embed # "value" THEN <<d[i]>> ELSE <<>>]
            sub(i) == [j \in DOMAIN t[i].sub |-> [f |-> t[i].sub[j], at |-> <<i, j>>]]
            pParts == [i \in DOMAIN t |-> IF t[i].embed = "value" THEN sub(i) ELSE <<>>]
            Plainly(i) == t[i].embed # "value"
            D == Declared(t)
            M == Promoted(t)
            Own == {own(i) : i \in 1..N}
<1>1. DOMAIN t = 1..N /\ N \in Nat /\ (\A i \in 1..N : t[i] \in Field /\ (Plainly(i) <=> t[i].embed = "no"))
    BY DEF Even
<1>2. D = FlattenSeq(dParts)
    BY DEF Declared, Those
<1>3. M = FlattenSeq(pParts)
    BY DEF Promoted
<1>4. \A i \in 1..N : Under(t[i], i) = IF Plainly(i) THEN {own(i)} ELSE Range(sub(i))
    BY <1>1 DEF Under, Range
<1>5. \A i \in 1..N : t[i].sub \in Seq(Plain)
    BY <1>1 DEF Field
<1>6. \A i \in 1..N : sub(i) \in Seq(Range(sub(i)))
  <2>. SUFFICES ASSUME NEW i \in 1..N PROVE sub(i) \in Seq(Range(sub(i)))
      OBVIOUS
  <2>1. DOMAIN t[i].sub = 1..Len(t[i].sub) /\ Len(t[i].sub) \in Nat
      BY <1>5
  <2>2. sub(i) \in [1..Len(t[i].sub) -> Range(sub(i))]
      BY <2>1 DEF Range
  <2>. QED BY <2>1, <2>2
<1>7. d \in Seq(Own) /\ DOMAIN d = 1..N /\ \A i \in 1..N : d[i] = own(i)
  <2>1. DOMAIN d = 1..N /\ \A i \in 1..N : d[i] = own(i)
      BY <1>1
  <2>2. d \in [1..N -> Own]
      BY <1>1
  <2>. QED BY <1>1, <2>1, <2>2
<1>8. \A i : own(i).f = t[i]
    OBVIOUS
<1>9. Sifts(d, dParts) /\ \A i \in 1..N : dParts[i] # <<>> <=> Plainly(i)
  <2>1. \A i \in 1..N : dParts[i] = IF Plainly(i) THEN <<d[i]>> ELSE <<>>
    <3>. HIDE DEF own, d
    <3>. QED BY <1>7, <1>8
  <2>. HIDE DEF d, own
  <2>2. Sifts(d, dParts)
      BY DEF Sifts
  <2>. HIDE DEF dParts
  <2>3. ASSUME NEW i \in 1..N PROVE dParts[i] # <<>> <=> Plainly(i)
    <3>1. <<d[i]>> # <<>>
        OBVIOUS
    <3>2. CASE Plainly(i)
        BY <2>1, <3>1, <3>2
    <3>3. CASE ~Plainly(i)
        BY <2>1, <3>3
    <3>. QED BY <3>2, <3>3
  <2>. QED BY <2>2, <2>3
<1>10. \A i \in 1..N : pParts[i] = IF Plainly(i) THEN <<>> ELSE sub(i)
    BY <1>1
<1>24. \A i \in 1..N : Len(own(i).at) = 1 /\ \A e \in Range(sub(i)) : Len(e.at) = 2
  <2>1. \A i : Len(own(i).at) = 1
      OBVIOUS
  <2>2. \A i : \A j \in DOMAIN sub(i) : sub(i)[j].at = <<i, j>>
      OBVIOUS
  <2>. HIDE DEF sub, own
  <2>3. ASSUME NEW i \in 1..N, NEW e \in Range(sub(i)) PROVE Len(e.at) = 2
    <3>1. PICK j \in DOMAIN sub(i) : e = sub(i)[j]
        BY <2>3 DEF Range
    <3>2. e.at = <<i, j>>
        BY <2>2, <3>1
    <3>3. Len(<<i, j>>) = 2
        OBVIOUS
    <3>. QED BY <3>2, <3>3
  <2>. QED BY <2>1, <2>3
<1>11. DOMAIN pParts = 1..N
    BY <1>1
<1>12. pParts = [i \in 1..N |-> pParts[i]]
    BY <1>1
<1>. HIDE DEF D, M, d, dParts, pParts, Plainly, own, sub, Own
<1>13. D \in Seq(Own) /\ Range(D) = Kept(d, dParts)
    BY <1>2, <1>7, <1>9, Sifted
<1>14. \A x : x \in Range(D) <=> \E i \in 1..N : Plainly(i) /\ x = own(i)
    BY <1>7, <1>9, <1>13 DEF Kept
<1>15. \A x : x \in E <=> \E i \in 1..N : x \in IF Plainly(i) THEN {own(i)} ELSE Range(sub(i))
    BY <1>4 DEF Entries
<1>16. \A i \in 1..N : Plainly(i) \/ Range(sub(i)) \subseteq E
    BY <1>15
<1>17. pParts \in Seq(Seq(E))
  <2>. DEFINE Q == Seq(E)
  <2>1. ASSUME NEW i \in 1..N PROVE pParts[i] \in Q
    <3>1. CASE Plainly(i)
      <4>1. <<>> \in Seq(E)
        <5>. HIDE DEF E
        <5>. QED OBVIOUS
      <4>. QED BY <1>10, <3>1, <4>1
    <3>2. CASE ~Plainly(i)
      <4>1. sub(i) \in Seq(Range(sub(i))) /\ Range(sub(i)) \subseteq E
          BY <1>6, <1>16, <3>2
      <4>2. sub(i) \in Seq(E)
          BY <4>1
      <4>. QED BY <1>10, <3>2, <4>2
    <3>. QED BY <3>1, <3>2
  <2>. HIDE DEF Q
  <2>2. pParts \in [1..N -> Q]
      BY <1>12, <2>1
  <2>3. pParts \in Seq(Q)
      BY <1>1, <2>2
  <2>. QED BY <2>3 DEF Q
<1>18. Len(pParts) = N
    BY <1>1, <1>11, <1>17
<1>19. M \in Seq(E) /\ Range(M) = UNION {Range(pParts[i]) : i \in 1..Len(pParts)}
    BY <1>3, <1>17, FlattenHolds
<1>20. Range(<<>>) = {}
    BY DEF Range
<1>21. \A x : x \in Range(M) <=> \E i \in 1..N : ~Plainly(i) /\ x \in Range(sub(i))
    BY <1>10, <1>18, <1>19, <1>20
<1>22. Range(D) \cup Range(M) = E
    BY <1>14, <1>15, <1>21
<1>23. D \in Seq(E)
  <2>1. Range(D) \subseteq E
      BY <1>22
  <2>2. DOMAIN D = 1..Len(D) /\ Len(D) \in Nat /\ D = [i \in 1..Len(D) |-> D[i]]
      BY <1>13
  <2>3. \A i \in 1..Len(D) : D[i] \in E
      BY <2>1, <2>2 DEF Range
  <2>4. D \in [1..Len(D) -> E]
      BY <2>2, <2>3
  <2>. QED BY <2>2, <2>4
<1>25. (\A e \in Range(D) : Len(e.at) = 1) /\ (\A e \in Range(M) : Len(e.at) = 2)
    BY <1>14, <1>21, <1>24
<1>. QED BY <1>19, <1>22, <1>23, <1>25 DEF D, M, E


(* Where an entry stands tells it. *)
LEMMA EntryAt ==
    ASSUME NEW t \in Seq(Field), NEW e \in Entries(t), NEW d \in Entries(t), e.at = d.at
    PROVE  e = d
<1>1. PICK i \in 1..Len(t) : e \in Under(t[i], i)
    BY DEF Entries
<1>2. PICK j \in 1..Len(t) : d \in Under(t[j], j)
    BY DEF Entries
<1>3. t[i] \in Field /\ t[j] \in Field /\ i \in Nat /\ j \in Nat
    OBVIOUS
<1>4. e.at[1] = i /\ d.at[1] = j
    BY <1>1, <1>2, <1>3, UnderAt
<1>5. i = j
    BY <1>4
<1>. QED BY <1>1, <1>2, <1>3, <1>5, UnderAt

(* An entry that e keeps out of the walk by levels: its name is met first. *)
Shades(e, x) == e.f.key = x.f.key /\ Len(e.at) <= Len(x.at)

(* The walk by levels takes entries only, and for each of them one of its  *)
(* name that is no deeper.                                                 *)
LEMMA FieldsFind ==
    ASSUME NEW t \in Seq(Field), \A i \in 1..Len(t) : Even(t[i])
    PROVE  /\ Range(Fields(t)) \subseteq Entries(t)
           /\ \A x \in Entries(t) : \E e \in Range(Fields(t)) : Shades(e, x)
<1>. DEFINE E == Entries(t)
            a == Declared(t)
            b == Promoted(t)
            all == a \o b
            First(k) == \A m \in 1..(k - 1) : all[m].f.key # all[k].f.key
            ks == [k \in DOMAIN all |-> k]
            parts == [i \in DOMAIN ks |-> IF First(ks[i]) THEN <<ks[i]>> ELSE <<>>]
            idx == FlattenSeq(parts)
<1>1. /\ a \in Seq(E) /\ b \in Seq(E) /\ Range(a) \cup Range(b) = E
      /\ (\A e \in Range(a) : Len(e.at) = 1) /\ (\A e \in Range(b) : Len(e.at) = 2)
    BY DeclaredAre
<1>2. Fields(t) = [k \in DOMAIN idx |-> all[idx[k]]]
    BY DEF Fields, Those
<1>3. Sifts(ks, parts) /\ \A i \in DOMAIN ks : parts[i] # <<>> <=> First(ks[i])
  <2>. HIDE DEF ks, First
  <2>. QED BY DEF Sifts
<1>4. DOMAIN ks = DOMAIN all /\ \A k \in DOMAIN all : ks[k] = k
    OBVIOUS
<1>. HIDE DEF E, a, b
<1>5. all \in Seq(E) /\ Range(all) = E
  <2>1. all \in Seq(E) /\ Unites(all, a, b)
    <3>. DEFINE w == all
    <3>1. w = a \o b
        OBVIOUS
    <3>. HIDE DEF w
    <3>2. w \in Seq(E) /\ Unites(w, a, b)
        BY <1>1, <3>1, JoinedHolds
    <3>. QED BY <3>2 DEF w
  <2>. QED BY <1>1, <2>1 DEF Unites
<1>12. \A m, k \in DOMAIN all : m <= k => Len(all[m].at) <= Len(all[k].at)
  <2>1. DOMAIN a = 1..Len(a) /\ DOMAIN b = 1..Len(b) /\ Len(a) \in Nat /\ Len(b) \in Nat
      BY <1>1
  <2>2. /\ DOMAIN all = 1..(Len(a) + Len(b))
        /\ \A k \in 1..(Len(a) + Len(b)) : all[k] = IF k <= Len(a) THEN a[k] ELSE b[k - Len(a)]
      BY <1>1
  <2>. HIDE DEF all
  <2>3. \A k \in 1..Len(a) : Len(a[k].at) = 1
      BY <1>1, <2>1 DEF Range
  <2>4. \A k \in 1..Len(b) : Len(b[k].at) = 2
      BY <1>1, <2>1 DEF Range
  <2>5. \A k \in DOMAIN all : Len(all[k].at) = IF k <= Len(a) THEN 1 ELSE 2
    <3>. SUFFICES ASSUME NEW k \in 1..(Len(a) + Len(b))
                  PROVE  Len(all[k].at) = IF k <= Len(a) THEN 1 ELSE 2
        BY <2>2
    <3>1. CASE k <= Len(a)
        BY <2>1, <2>2, <2>3, <3>1
    <3>2. CASE ~(k <= Len(a))
      <4>1. k - Len(a) \in 1..Len(b)
          BY <2>1, <3>2
      <4>. QED BY <2>2, <2>4, <3>2, <4>1
    <3>. QED BY <3>1, <3>2
  <2>6. \A m, k \in DOMAIN all : m <= k => (k <= Len(a) => m <= Len(a))
      BY <2>1, <2>2
  <2>. QED BY <2>5, <2>6
<1>. HIDE DEF all
<1>6. DOMAIN all = 1..Len(all) /\ Len(all) \in Nat /\ \A k \in DOMAIN all : k \in Nat
    BY <1>5
<1>7. ks \in Seq(Nat)
    BY <1>6
<1>. HIDE DEF ks, First, parts
<1>8. idx \in Seq(Nat) /\ Range(idx) = Kept(ks, parts)
  <2>. DEFINE w == idx
  <2>1. w = FlattenSeq(parts)
      OBVIOUS
  <2>. HIDE DEF w
  <2>2. w \in Seq(Nat) /\ Range(w) = Kept(ks, parts)
      BY <1>3, <1>7, <2>1, Sifted
  <2>. QED BY <2>2 DEF w
<1>. HIDE DEF idx
<1>9. \A x : x \in Range(idx) <=> x \in DOMAIN all /\ First(x)
    BY <1>3, <1>4, <1>8 DEF Kept
<1>10. ASSUME NEW x \in E PROVE \E e \in Range(Fields(t)) : Shades(e, x)
  <2>. DEFINE T == {k \in DOMAIN all : all[k].f.key = x.f.key}
  <2>1. PICK n \in T : all[n] = x
      BY <1>5, <1>10 DEF Range
  <2>2. T \in SUBSET Nat
      BY <1>6
  <2>3. PICK m \in T : \A k \in T : m <= k
    <3>. HIDE DEF T
    <3>. QED BY <2>1, <2>2, LeastOf
  <2>4. m \in DOMAIN all /\ all[m].f.key = x.f.key /\ m \in Nat
      BY <2>2
  <2>5. First(m)
    <3>. SUFFICES ASSUME NEW k \in 1..(m - 1), all[k].f.key = all[m].f.key PROVE FALSE
        BY DEF First
    <3>1. k \in DOMAIN all /\ ~(m <= k)
        BY <1>6, <2>4
    <3>. QED BY <2>3, <2>4, <3>1
  <2>6. Shades(all[m], x)
    <3>1. n \in DOMAIN all /\ m <= n
        BY <2>1, <2>3
    <3>2. Len(all[m].at) <= Len(all[n].at)
        BY <1>12, <2>4, <3>1
    <3>. QED BY <2>1, <2>4, <3>2 DEF Shades
  <2>7. m \in Range(idx)
      BY <1>9, <2>4, <2>5
  <2>8. PICK k \in DOMAIN idx : idx[k] = m
      BY <2>7 DEF Range
  <2>9. Fields(t)[k] = all[m] /\ k \in DOMAIN Fields(t)
      BY <1>2, <2>8
  <2>10. all[m] \in Range(Fields(t))
      BY <2>9 DEF Range
  <2>. QED BY <2>6, <2>10
<1>11. ASSUME NEW x \in Range(Fields(t)) PROVE x \in E
  <2>1. PICK k \in DOMAIN Fields(t) : Fields(t)[k] = x
      BY <1>11 DEF Range
  <2>2. k \in DOMAIN idx /\ x = all[idx[k]]
      BY <1>2, <2>1
  <2>3. idx[k] \in DOMAIN all
      BY <1>9, <2>2 DEF Range
  <2>. QED BY <1>5, <2>2, <2>3 DEF Range
<1>. QED BY <1>10, <1>11 DEF E

(* Where a key names one entry, none is shadowed. *)
KeysTell(E) == \A a, b \in E : a.f.key = b.f.key => a = b

(* Then the walk by levels reaches them all. *)
LEMMA FieldsAre ==
    ASSUME NEW t \in Seq(Field), \A i \in 1..Len(t) : Even(t[i]), KeysTell(Entries(t))
    PROVE  Range(Fields(t)) = Entries(t)
<1>1. Range(Fields(t)) \subseteq Entries(t)
    BY FieldsFind
<1>2. ASSUME NEW x \in Entries(t) PROVE x \in Range(Fields(t))
  <2>1. PICK e \in Range(Fields(t)) : Shades(e, x)
      BY FieldsFind
  <2>2. e \in Entries(t) /\ e.f.key = x.f.key
      BY <1>1, <2>1 DEF Shades
  <2>. QED BY <2>1, <2>2 DEF KeysTell
<1>. QED BY <1>1, <1>2

(* Both walks show the same fields of a type, but for the shadowed; and each *)
(* once, where none is.                                                      *)
LEMMA WalksMeet ==
    ASSUME opt.shape \in Shapes
    PROVE  WalksAgree
<1>. SUFFICES ASSUME PlainlyEmbeds(opt.shape)
              PROVE  LET p == Plan(opt.shape)
                         cols == Range(p.cols) \union Range(p.hidden)
                         read == Range(Fields(opt.shape))
                         seen == {e \in read : e.f.exported /\ ~e.f.gone}
                     IN  /\ \A e \in seen : [name |-> e.f.key, at |-> e.at] \in cols
                         /\ \A c \in cols :
                                \/ \E e \in seen : c = [name |-> e.f.key, at |-> e.at]
                                \/ \E e \in read : /\ e.f.key = c.name /\ e.at # c.at
                                                    /\ Len(e.at) <= Len(c.at)
                         /\ NamesTell(opt.shape) =>
                                /\ Len(p.cols) + Len(p.hidden) = Cardinality(seen)
                                /\ \A e \in seen : e.f.key = IdKey /\ e.at = IdAt(opt.shape) =>
                                       ByName(p, IdKey).at = e.at
    BY DEF WalksAgree
<1>. DEFINE t == opt.shape
            p == Plan(t)
            read == Range(Fields(t))
            seen == {e \in read : e.f.exported /\ ~e.f.gone}
            A == Collect(t)
            E == Entries(t)
            L == p.cols
            H == p.hidden
            V == Visible(E)
<1>1. t \in Seq(Field) /\ \A i \in 1..Len(t) : Even(t[i])
  <2>1. t \in Seq(Field)
      BY ShapeAssumption
  <2>2. \A i \in DOMAIN t : Even(t[i])
      BY DEF PlainlyEmbeds, Even
  <2>. QED BY <2>1, <2>2
<1>2. Range(Declared(t)) \cup Range(Promoted(t)) = E
    BY <1>1, DeclaredAre
<1>3. NamesTell(t) => KeysTell(E)
    BY <1>2 DEF NamesTell, KeysTell
<1>4. NamesTell(t) => seen = V
  <2>1. NamesTell(t) => Range(Fields(t)) = E
      BY <1>1, <1>3, FieldsAre
  <2>. QED BY <2>1 DEF Visible
<1>15. seen = Visible(read)
    BY DEF Visible
<1>16. read \subseteq E /\ \A x \in E : \E e \in read : Shades(e, x)
    BY <1>1, FieldsFind
<1>17. \A e, d \in E : e.at = d.at => e = d
    BY <1>1, EntryAt
<1>5. Once(A) /\ AtTells(A) /\ SlotsOf(Range(A)) = {SlotFor(e) : e \in V}
    BY <1>1, EvenCollects
<1>6. /\ L \in Seq(Slot) /\ H \in Seq(Slot)
      /\ Range(L) = ShownOf(A) /\ Range(H) = AsideOf(A)
      /\ Once(A) /\ AtTells(A) => Once(L) /\ Once(H)
    BY <1>1, Planned
<1>7. \A c \in Range(A) : c.hide \in BOOLEAN
  <2>1. A \in Seq(Column)
      BY <1>1, CollectFits
  <2>. HIDE DEF A
  <2>2. \A i \in DOMAIN A : A[i] \in Column
      BY <2>1
  <2>. QED BY <2>2 DEF Column, Range
<1>8. \A n : n \in {c.name : c \in Range(L) \cup Range(H)} =>
          ByName(p, n) \in Range(L) \cup Range(H) /\ ByName(p, n).name = n
    BY <1>1, Picked
<1>. HIDE DEF p, read, seen, A, E, L, H, V, t
<1>9. Range(L) \cup Range(H) = {SlotFor(e) : e \in V}
  <2>1. SlotsOf(Range(A)) = ShownOf(A) \cup AsideOf(A)
      BY <1>7 DEF SlotsOf, ShownOf, AsideOf
  <2>. QED BY <1>5, <1>6, <2>1
<1>10. Range(L) \cap Range(H) = {}
  <2>. SUFFICES ASSUME NEW x \in ShownOf(A), x \in AsideOf(A) PROVE FALSE
      BY <1>6
  <2>1. PICK c \in Range(A) : ~c.hide /\ x = SlotOf(c)
      BY DEF ShownOf, SlotsOf
  <2>2. PICK d \in Range(A) : d.hide /\ x = SlotOf(d)
      BY DEF AsideOf, SlotsOf
  <2>3. c.at = d.at
      BY <2>1, <2>2 DEF SlotOf
  <2>. QED BY <1>5, <2>1, <2>2, <2>3 DEF AtTells
<1>11. /\ \A e \in seen : SlotFor(e) \in Range(L) \cup Range(H)
       /\ \A c \in Range(L) \cup Range(H) :
              \/ \E e \in seen : c = SlotFor(e)
              \/ \E e \in read : e.f.key = c.name /\ e.at # c.at /\ Len(e.at) <= Len(c.at)
  <2>1. seen \subseteq V
      BY <1>15, <1>16 DEF Visible, V
  <2>2. ASSUME NEW x \in V
        PROVE  \/ x \in seen
               \/ \E e \in read : /\ e.f.key = SlotFor(x).name /\ e.at # SlotFor(x).at
                                  /\ Len(e.at) <= Len(SlotFor(x).at)
    <3>1. x \in E /\ (x \in read => x \in seen)
        BY <1>15 DEF Visible, V
    <3>2. PICK e \in read : Shades(e, x)
        BY <1>16, <3>1
    <3>3. e.at = x.at => e = x
        BY <1>16, <1>17, <3>1, <3>2
    <3>4. SlotFor(x).name = x.f.key /\ SlotFor(x).at = x.at
        BY DEF SlotFor
    <3>5. e.f.key = x.f.key /\ Len(e.at) <= Len(x.at)
        BY <3>2 DEF Shades
    <3>. QED BY <3>1, <3>2, <3>3, <3>4, <3>5
  <2>3. \A c \in Range(L) \cup Range(H) : \E x \in V : c = SlotFor(x)
      BY <1>9
  <2>. QED BY <1>9, <2>1, <2>2, <2>3
<1>12. V \subseteq E
    BY DEF V, Visible
<1>13. ASSUME NamesTell(t) PROVE Len(L) + Len(H) = Cardinality(V)
  <2>1. /\ IsFiniteSet(Range(L)) /\ Cardinality(Range(L)) = Len(L)
        /\ IsFiniteSet(Range(H)) /\ Cardinality(Range(H)) = Len(H)
      BY <1>5, <1>6, OnceCounts
  <2>. DEFINE X == Range(L) \cup Range(H)
              f == [e \in V |-> SlotFor(e)]
  <2>2. IsFiniteSet(X) /\ Cardinality(X) = Cardinality(Range(L)) + Cardinality(Range(H))
    <3>. DEFINE a == Range(L)
                b == Range(H)
    <3>1. IsFiniteSet(a) /\ IsFiniteSet(b) /\ a \cap b = {}
        BY <1>10, <2>1
    <3>. HIDE DEF a, b
    <3>2. /\ IsFiniteSet(a \cup b)
          /\ Cardinality(a \cup b) = Cardinality(a) + Cardinality(b) - Cardinality(a \cap b)
        BY <3>1, FS_Union
    <3>3. Cardinality(a \cap b) = 0 /\ Cardinality(a) \in Nat /\ Cardinality(b) \in Nat
        BY <3>1, FS_EmptySet, FS_CardinalityType
    <3>. QED BY <3>2, <3>3 DEF a, b
  <2>3. f \in Bijection(V, X)
    <3>1. f \in [V -> X]
        BY <1>9
    <3>2. \A e, d \in V : SlotFor(e) = SlotFor(d) => e = d
        BY <1>3, <1>12, <1>13 DEF SlotFor, KeysTell
    <3>3. IsInjective(f)
        BY <3>2 DEF IsInjective
    <3>4. \A x \in X : \E e \in V : f[e] = x
        BY <1>9
    <3>. QED BY <3>1, <3>3, <3>4 DEF Bijection, Injection, Surjection
  <2>. HIDE DEF X, f
  <2>4. ExistsBijection(X, V)
      BY <2>3, Fun_ExistsBijSymmetric DEF ExistsBijection
  <2>5. Cardinality(X) = Cardinality(V)
      BY <2>2, <2>4, FS_Bijection
  <2>. QED BY <2>1, <2>2, <2>5
<1>14. ASSUME NamesTell(t), NEW e \in V, e.f.key = IdKey PROVE ByName(p, IdKey).at = e.at
  <2>1. SlotFor(e) \in Range(L) \cup Range(H) /\ SlotFor(e).name = IdKey
      BY <1>9, <1>14 DEF SlotFor
  <2>2. ByName(p, IdKey) \in Range(L) \cup Range(H) /\ ByName(p, IdKey).name = IdKey
      BY <1>8, <2>1
  <2>3. PICK d \in V : ByName(p, IdKey) = SlotFor(d)
      BY <1>9, <2>2
  <2>4. d.f.key = IdKey /\ ByName(p, IdKey).at = d.at
      BY <2>2, <2>3 DEF SlotFor
  <2>5. d = e
      BY <1>3, <1>12, <1>14, <2>4 DEF KeysTell
  <2>. QED BY <2>4, <2>5
<1>18. NamesTell(t) => /\ Len(L) + Len(H) = Cardinality(seen)
                       /\ \A e \in seen : e.f.key = IdKey => ByName(p, IdKey).at = e.at
    BY <1>4, <1>13, <1>14
<1>. QED BY <1>11, <1>18 DEF p, t, read, seen, L, H, SlotFor

(* For any record types that embed plainly, the fields that the rest of kit  *)
(* goes by are columns of the renderer's, and a column that they are not is  *)
(* one shadowed by a field no deeper; and for any types at all, a name that  *)
(* --fields is given finds a column the table shows under it                 *)
(* (kit/render/render.go:529-676, kit/reflectx.go:34-76).                    *)
THEOREM ColumnsMeet == RendererSpec => []ColumnsAgree
<1>1. RenderIInv => opt.shape \in Shapes
    BY DEF RenderIInv, RenderTypes
<1>2. RenderIInv => ColumnsAgree
    BY <1>1, ShownNamed, WalksMeet DEF ColumnsAgree
<1>. QED BY <1>2, RenderStays, PTL
============================================================================
