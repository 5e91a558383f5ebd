---------------------------- MODULE InvokeProofs ----------------------------
(* Theorems about Invoke, for any set of invocations, any bound on the      *)
(* records and any set of limits.                                           *)
EXTENDS Invoke, TLAPS

(* InvokeInv holds at the start. *)
LEMMA InitInv == InvokeInit => InvokeInv
<1> SUFFICES ASSUME InvokeInit PROVE InvokeInv
    OBVIOUS
<1>1. InvokeTypeOK
    BY InvokeAssumption DEF InvokeInit, InvokeTypeOK, Phases, EmitResults,
       HandlerResults, OwnResults, InvokeResults, InEmit
<1>2. ASSUME NEW c \in Calls
      PROVE  /\ Disciplined(c) => CountsFit(c) /\ ReturnFits(c)
             /\ ResultFits(c)
    BY DEF InvokeInit, CountsFit, ReturnFits, ResultFits, InEmit, AtLimit, Unbound
<1>3. StoreMissesOnlyFailures
    BY DEF InvokeInit, StoreMissesOnlyFailures, Offered, Unbound
<1>. QED BY <1>1, <1>2, <1>3 DEF InvokeInv

(* Verdict is one of the results Invoke may return, never "usage". *)
LEMMA VerdictType ==
    ASSUME NEW c \in Calls, NEW ok \in BOOLEAN, InvokeTypeOK
    PROVE  Verdict(c, ok) \in InvokeResults \ {"usage"}
BY DEF InvokeTypeOK, Verdict, InvokeResults, HandlerResults, OwnResults, EmitResults

(* The fields of a RunContext, also of the one no invocation has bound. *)
LEMMA RunType ==
    ASSUME InvokeTypeOK, NEW c \in Calls
    PROVE  /\ run[c].limit \in Int
           /\ run[c].single \in BOOLEAN
           /\ run[c].style \in {"return", "wrap", "ignore"}
<1>1. run[c] \in RunContexts \/ run[c] = Unbound
    BY DEF InvokeTypeOK
<1>2. CASE run[c] \in RunContexts
    BY <1>2, InvokeAssumption DEF RunContexts
<1>3. CASE run[c] = Unbound
    BY <1>3 DEF Unbound
<1>. QED BY <1>1, <1>2, <1>3

(* Every step preserves the type invariant. *)
LEMMA StepType ==
    ASSUME InvokeTypeOK, NEW c \in Calls, InvokeStep(c)
    PROVE  InvokeTypeOK'
<1> USE InvokeAssumption DEF InvokeTypeOK, Phases, InEmit
<1>1. CASE BindFails(c)
    BY <1>1 DEF BindFails, InvokeResults
<1>2. ASSUME NEW rt \in RunContexts, Bind(c, rt) PROVE InvokeTypeOK'
    BY <1>2 DEF Bind
<1>3. CASE Emit(c)
    BY <1>3 DEF Emit
<1>4. ASSUME NEW kept \in BOOLEAN, Tee(c, kept) PROVE InvokeTypeOK'
  <2>1. /\ (stored[c] \union {produced[c]}) \in SUBSET (1..MaxEmits)
        /\ (missed[c] \union {produced[c]}) \in SUBSET (1..MaxEmits)
    BY <1>4 DEF Tee
  <2>. QED BY <1>4, <2>1 DEF Tee
<1>5. CASE Accept(c)
  <2>1. Append(rows[c], produced[c]) \in Seq(1..MaxEmits)
    BY <1>5 DEF Accept
  <2>. QED BY <1>5, <2>1 DEF Accept, EmitResults
<1>6. CASE Refuse(c)
    BY <1>6 DEF Refuse, EmitResults
<1>7. CASE Return(c)
    BY <1>7 DEF Return, Outcomes, Wrapped, HandlerResults, OwnResults, EmitResults
<1>8. ASSUME NEW ok \in BOOLEAN, Flush(c, ok) PROVE InvokeTypeOK'
    BY <1>8, VerdictType DEF Flush
<1>. QED BY <1>1, <1>2, <1>3, <1>4, <1>5, <1>6, <1>7, <1>8 DEF InvokeStep

----------------------------------------------------------------------------
(* What the invariant says of one invocation. *)
CallInv(c) == /\ Disciplined(c) => CountsFit(c) /\ ReturnFits(c)
              /\ ResultFits(c)

(* A step of one invocation leaves the others alone. *)
LEMMA StepFrame ==
    ASSUME InvokeInv, NEW c \in Calls, InvokeStep(c), NEW d \in Calls, d # c
    PROVE  CallInv(d)'
<1>1. /\ pc'[d] = pc[d] /\ run'[d] = run[d] /\ produced'[d] = produced[d]
      /\ stored'[d] = stored[d] /\ missed'[d] = missed[d] /\ rows'[d] = rows[d] /\ emitRes'[d] = emitRes[d]
      /\ hErr'[d] = hErr[d] /\ flushed'[d] = flushed[d] /\ result'[d] = result[d]
    BY DEF InvokeInv, InvokeTypeOK, InvokeStep, BindFails, Bind, Emit, Tee, Accept,
       Refuse, Return, Flush
<1>. QED BY <1>1 DEF InvokeInv, CallInv, Disciplined, CountsFit, ReturnFits,
         ResultFits, InEmit, AtLimit, Verdict

(* A step of an invocation preserves the invariant of that invocation. *)
LEMMA StepSelf ==
    ASSUME InvokeInv, NEW c \in Calls, InvokeStep(c)
    PROVE  CallInv(c)'
<1>0. InvokeTypeOK /\ CallInv(c)
    BY DEF InvokeInv, CallInv
<1> USE <1>0, InvokeAssumption DEF InvokeTypeOK, CallInv, Disciplined, CountsFit,
        ReturnFits, ResultFits, InEmit, AtLimit, Phases
<1>1. CASE BindFails(c)
    BY <1>1 DEF BindFails
<1>2. ASSUME NEW rt \in RunContexts, Bind(c, rt) PROVE CallInv(c)'
  <2>1. /\ pc[c] = "idle" /\ pc'[c] = "handler" /\ run'[c] = rt
        /\ UNCHANGED <<produced, stored, missed, rows, emitRes, hErr, result>>
    BY <1>2 DEF Bind
  <2>2. rows[c] = <<>> /\ emitRes[c] = "nil" /\ result[c] = "nil" /\ run[c] = Unbound
    BY <2>1
  <2>3. produced[c] = 0 /\ stored[c] \subseteq 1..0
    BY <2>1, <2>2 DEF Unbound
  <2>4. rt.limit \in Int
    BY DEF RunContexts
  <2>. QED BY <2>1, <2>2, <2>3, <2>4
<1>3. CASE Emit(c)
    BY <1>3 DEF Emit, GoesOn, Halted
<1>4. ASSUME NEW kept \in BOOLEAN, Tee(c, kept) PROVE CallInv(c)'
  <2>1. pc[c] = "tee" /\ pc'[c] = "sink" /\ UNCHANGED <<run, produced, rows, emitRes, hErr, result>>
    BY <1>4 DEF Tee
  <2>2. Disciplined(c) => stored'[c] \subseteq 1..produced[c]
    BY <1>4 DEF Tee
  <2>. QED BY <2>1, <2>2
<1>5. CASE Accept(c)
  <2> DEFINE n == Len(rows[c])
  <2>1. /\ pc[c] = "sink" /\ pc'[c] = "handler"
        /\ UNCHANGED <<run, produced, stored, missed, hErr, result>>
        /\ rows'[c] = Append(rows[c], produced[c])
        /\ emitRes'[c] = IF AtLimit(c, n + 1) THEN "stop" ELSE "nil"
    BY <1>5 DEF Accept
  <2>2. /\ Len(rows'[c]) = n + 1
        /\ \A k \in 1..n : rows'[c][k] = rows[c][k]
        /\ rows'[c][n + 1] = produced[c]
        /\ n \in Nat
    BY <2>1
  <2>3. ASSUME Disciplined(c) PROVE CountsFit(c)'
    <3>1. emitRes[c] = "nil" /\ produced[c] = n + 1
      BY <2>1, <2>3
    <3>2. \A k \in 1..Len(rows'[c]) : rows'[c][k] = k
      <4> SUFFICES ASSUME NEW k \in 1..(n + 1) PROVE rows'[c][k] = k
        BY <2>2
      <4>1. CASE k \in 1..n
        BY <2>2, <2>3, <4>1
      <4>2. CASE k = n + 1
        BY <2>2, <3>1, <4>2
      <4>. QED BY <4>1, <4>2, <2>2
    <3>3. run[c].limit \in Int
      BY RunType
    <3>4. run[c].limit > 0 => n < run[c].limit
      BY <2>3, <3>1, <3>3, <2>2
    <3>. QED BY <2>1, <2>2, <2>3, <3>1, <3>2, <3>3, <3>4
  <2>. QED BY <2>1, <2>3
<1>6. CASE Refuse(c)
    BY <1>6 DEF Refuse
<1>7. CASE Return(c)
  <2>1. /\ pc[c] = "handler" /\ pc'[c] = "flush"
        /\ UNCHANGED <<run, produced, stored, missed, rows, emitRes, result>>
        /\ hErr'[c] \in Outcomes(c)
    BY <1>7 DEF Return, Outcomes
  <2>2. Disciplined(c) => CountsFit(c)' /\ ResultFits(c)'
    BY <2>1
  <2>3. run[c].style \in {"return", "wrap", "ignore"}
    BY RunType
  <2>4. Disciplined(c) => ReturnFits(c)'
    BY <2>1, <2>3 DEF Outcomes, GoesOn, Halted
  <2>. QED BY <2>1, <2>2, <2>4
<1>8. ASSUME NEW ok \in BOOLEAN, Flush(c, ok) PROVE CallInv(c)'
  <2>1. /\ pc[c] = "flush" /\ pc'[c] = "done" /\ flushed'[c] = ok
        /\ UNCHANGED <<run, produced, stored, missed, rows, emitRes, hErr>>
        /\ result'[c] = Verdict(c, ok)
    BY <1>8 DEF Flush
  <2>2. result'[c] # "usage" /\ result[c] = "nil"
    BY <2>1, VerdictType
  <2>3. Verdict(c, flushed[c])' = result'[c]
    BY <2>1 DEF Verdict
  <2>4. ResultFits(c)'
    BY <2>1, <2>2, <2>3
  <2>5. Disciplined(c) => CountsFit(c)' /\ ReturnFits(c)'
    BY <2>1, <2>2
  <2>. QED BY <2>1, <2>4, <2>5
<1>. QED BY <1>1, <1>2, <1>3, <1>4, <1>5, <1>6, <1>7, <1>8 DEF InvokeStep

(* The ledger of one call's store. *)
LedgerFits(c) ==
    /\ stored[c] \union missed[c] = IF run[c].teed THEN Offered(c) ELSE {}
    /\ stored[c] \intersect missed[c] = {}

(* Every step keeps every ledger. *)
LEMMA StepLedger ==
    ASSUME InvokeInv, NEW c \in Calls, InvokeStep(c)
    PROVE  StoreMissesOnlyFailures'
<1> SUFFICES ASSUME NEW d \in Calls PROVE LedgerFits(d)'
    BY DEF StoreMissesOnlyFailures, LedgerFits, Offered
<1>0. InvokeTypeOK /\ LedgerFits(c) /\ LedgerFits(d) /\ ResultFits(c) /\ produced[c] \in Nat
    BY DEF InvokeInv, InvokeTypeOK, StoreMissesOnlyFailures, LedgerFits
<1>1. CASE d # c
  <2>1. /\ pc'[d] = pc[d] /\ run'[d] = run[d] /\ produced'[d] = produced[d]
        /\ stored'[d] = stored[d] /\ missed'[d] = missed[d]
    BY <1>0, <1>1 DEF InvokeTypeOK, InvokeStep, BindFails, Bind, Emit, Tee, Accept,
       Refuse, Return, Flush
  <2>. QED BY <1>0, <2>1 DEF LedgerFits, Offered
<1>2. CASE d = c
  <2> USE <1>0, <1>2 DEF LedgerFits, Offered
  <2>1. CASE BindFails(c)
    BY <2>1 DEF BindFails, InvokeTypeOK
  <2>2. ASSUME NEW rt \in RunContexts, Bind(c, rt) PROVE LedgerFits(c)'
    <3>1. /\ pc'[c] = "handler" /\ run'[c] = rt /\ produced[c] = 0 /\ run[c] = Unbound
          /\ UNCHANGED <<produced, stored, missed>>
      BY <2>2 DEF Bind, InvokeTypeOK, ResultFits
    <3>2. stored[c] = {} /\ missed[c] = {}
      BY <3>1 DEF Unbound
    <3>. QED BY <3>1, <3>2
  <2>3. CASE Emit(c)
    <3>1. /\ pc[c] = "handler" /\ produced'[c] = produced[c] + 1
          /\ pc'[c] = IF run[c].teed THEN "tee" ELSE "sink"
          /\ UNCHANGED <<run, stored, missed>>
      BY <2>3 DEF Emit, InvokeTypeOK
    <3>. QED BY <3>1
  <2>4. ASSUME NEW kept \in BOOLEAN, Tee(c, kept) PROVE LedgerFits(c)'
    <3>1. /\ pc[c] = "tee" /\ pc'[c] = "sink" /\ UNCHANGED <<run, produced>>
          /\ stored'[c] = (IF kept THEN stored[c] \union {produced[c]} ELSE stored[c])
          /\ missed'[c] = (IF kept THEN missed[c] ELSE missed[c] \union {produced[c]})
          /\ produced[c] > 0 /\ run[c].teed
      BY <2>4 DEF Tee, InvokeTypeOK, InEmit, ResultFits
    <3>2. 1..produced[c] = (1..(produced[c] - 1)) \union {produced[c]}
      BY <3>1
    <3>3. stored'[c] \union missed'[c] = 1..produced[c]
      BY <3>1, <3>2
    <3>4. stored'[c] \intersect missed'[c] = {}
      BY <3>1
    <3>. QED BY <3>1, <3>3, <3>4
  <2>5. CASE Accept(c) \/ Refuse(c) \/ Return(c)
    <3>1. /\ pc[c] # "tee" /\ pc'[c] # "tee" /\ UNCHANGED <<run, produced, stored, missed>>
      BY <2>5 DEF Accept, Refuse, Return, InvokeTypeOK
    <3>. QED BY <3>1
  <2>6. ASSUME NEW ok \in BOOLEAN, Flush(c, ok) PROVE LedgerFits(c)'
    <3>1. /\ pc[c] # "tee" /\ pc'[c] # "tee" /\ UNCHANGED <<run, produced, stored, missed>>
      BY <2>6 DEF Flush, InvokeTypeOK
    <3>. QED BY <3>1
  <2>. QED BY <2>1, <2>2, <2>3, <2>4, <2>5, <2>6 DEF InvokeStep
<1>. QED BY <1>1, <1>2

(* InvokeInv is an invariant of every behaviour. *)
THEOREM InvokeCorrect == InvokeSpec => []InvokeInv
<1>1. InvokeInv /\ [InvokeNext]_invokeVars => InvokeInv'
  <2> SUFFICES ASSUME InvokeInv, [InvokeNext]_invokeVars PROVE InvokeInv'
    OBVIOUS
  <2>1. CASE UNCHANGED invokeVars
    BY <2>1 DEF invokeVars, InvokeInv, InvokeTypeOK, Disciplined, CountsFit, ReturnFits,
       ResultFits, InEmit, AtLimit, Verdict, StoreMissesOnlyFailures, Offered
  <2>2. ASSUME NEW c \in Calls, InvokeStep(c) PROVE InvokeInv'
    <3>1. InvokeTypeOK'
      BY <2>2, StepType DEF InvokeInv
    <3>2. \A d \in Calls : CallInv(d)'
      BY <2>2, StepFrame, StepSelf
    <3>3. StoreMissesOnlyFailures'
      BY <2>2, StepLedger
    <3>. QED BY <3>1, <3>2, <3>3 DEF InvokeInv, CallInv
  <2>. QED BY <2>1, <2>2 DEF InvokeNext
<1>. QED BY InitInv, <1>1, PTL DEF InvokeSpec
----------------------------------------------------------------------------
(* The invariant implies each safety property the runs check. *)
LEMMA InvImplies ==
    ASSUME InvokeInv
    PROVE  LimitCap /\ RowsArePrefix /\ StoreLeadsByOne /\ SuccessIsComplete /\ LimitIsSuccess
<1> USE DEF InvokeInv, InvokeTypeOK
<1>1. LimitCap
    BY DEF LimitCap, CountsFit
<1>0. ASSUME NEW c \in Calls, Disciplined(c)
      PROVE  produced[c] = Len(rows[c]) \/ produced[c] = Len(rows[c]) + 1
    BY <1>0 DEF CountsFit
<1>. \A c \in Calls : Len(rows[c]) \in Nat
    OBVIOUS
<1>2. RowsArePrefix
    BY <1>0 DEF RowsArePrefix, CountsFit
<1>3. StoreLeadsByOne
  <2> SUFFICES ASSUME NEW c \in Calls, Disciplined(c)
               PROVE  /\ stored[c] \subseteq 1..produced[c]
                      /\ \A k \in stored[c] : k <= Len(rows[c]) + 1
      BY DEF StoreLeadsByOne
  <2>1. stored[c] \subseteq 1..produced[c]
      BY DEF CountsFit
  <2>. QED BY <2>1, <1>0
<1>4. SuccessIsComplete
  <2> SUFFICES ASSUME NEW c \in Calls, pc[c] = "done", result[c] = "nil", Disciplined(c)
               PROVE  /\ produced[c] = Len(rows[c])
                      /\ flushed[c] \/ AtLimit(c, Len(rows[c]))
                      /\ run[c].single \/ rows[c] # <<>>
      BY DEF SuccessIsComplete
  <2>1. result[c] = Verdict(c, flushed[c])
      BY DEF ResultFits
  <2>2. /\ hErr[c] \in {"nil", "stop"}
        /\ flushed[c] \/ hErr[c] = "stop"
        /\ run[c].single \/ rows[c] # <<>>
      BY <2>1 DEF Verdict
  <2>3. emitRes[c] = hErr[c]
    <3>1. ReturnFits(c) /\ emitRes[c] \in EmitResults
      OBVIOUS
    <3>2. Wrapped(emitRes[c]) \in {"stopWrapped", "sinkWrapped"} \/ emitRes[c] = "nil"
      BY <3>1 DEF Wrapped, EmitResults
    <3>. QED BY <2>2, <3>1, <3>2 DEF ReturnFits, OwnResults
  <2>. QED BY <2>2, <2>3 DEF CountsFit, InEmit
<1>5. LimitIsSuccess
  <2> SUFFICES ASSUME NEW c \in Calls, pc[c] = "done", run[c].style = "return",
                      AtLimit(c, Len(rows[c]))
               PROVE  result[c] = "nil"
      BY DEF LimitIsSuccess
  <2>1. rows[c] # <<>> /\ result[c] # "usage"
      BY RunType DEF AtLimit, ResultFits, Unbound
  <2>2. hErr[c] = "stop"
      BY <2>1 DEF Disciplined, CountsFit, ReturnFits
  <2>. QED BY <2>1, <2>2 DEF ResultFits, Verdict
<1>. QED BY <1>1, <1>2, <1>3, <1>4, <1>5

(* A handler that heeds emit never exceeds a positive row limit. *)
THEOREM LimitHolds == InvokeSpec => []LimitCap
BY InvokeCorrect, InvImplies, PTL

(* Its rows are the first records it produced, in order and without gaps. *)
THEOREM PrefixHolds == InvokeSpec => []RowsArePrefix
BY InvokeCorrect, InvImplies, PTL

(* The store is at most one record ahead of the output. *)
THEOREM StoreLeadHolds == InvokeSpec => []StoreLeadsByOne
BY InvokeCorrect, InvImplies, PTL

(* What it lacks of the records before is what its own tee failed on.      *)
THEOREM StoreLedgerHolds == InvokeSpec => []StoreMissesOnlyFailures
BY InvokeCorrect, PTL DEF InvokeInv

(* A successful invocation has lost nothing its handler produced. *)
THEOREM SuccessHolds == InvokeSpec => []SuccessIsComplete
BY InvokeCorrect, InvImplies, PTL

(* Being cut by the limit is a success for a handler that returns errors. *)
THEOREM LimitSuccessHolds == InvokeSpec => []LimitIsSuccess
BY InvokeCorrect, InvImplies, PTL

(* Every record a handler emitted is accounted for, in the output and in   *)
(* the store.                                                              *)
THEOREM DeliveryHolds == InvokeSpec => []DeliveryIsAccounted
BY LimitHolds, PrefixHolds, StoreLeadHolds, StoreLedgerHolds, PTL DEF DeliveryIsAccounted

(* And its error says whether that was all of it.                          *)
THEOREM VerdictHolds == InvokeSpec => []VerdictIsRight
BY SuccessHolds, LimitSuccessHolds, PTL DEF VerdictIsRight
----------------------------------------------------------------------------
(* With handlers that heed emit, Invoke implements RecordStream: its state  *)
(* maps step by step onto what a reader of the sink sees.                   *)
LEMMA StreamInit == InvokeInit => Stream!Init
BY DEF InvokeInit, Stream!Init, streamPhase, streamWant, streamVerdict, Unbound,
   Stream!Nothing

LEMMA StreamStep ==
    ASSUME "ignore" \notin HandlerStyles, InvokeInv, InvokeNext
    PROVE  [Stream!Next]_(Stream!streamVars)
<1>1. PICK c \in Calls : InvokeStep(c)
    BY DEF InvokeNext
<1> USE <1>1 DEF InvokeInv, InvokeTypeOK
<1>2. Disciplined(c) /\ CountsFit(c)
    BY InvokeAssumption DEF Disciplined, RunContexts, Unbound
<1>3. CASE BindFails(c)
  <2>1. /\ streamPhase[c] = "none" /\ UNCHANGED <<streamWant, rows>>
        /\ streamPhase' = [streamPhase EXCEPT ![c] = "ended"]
        /\ streamVerdict' = [streamVerdict EXCEPT ![c] = "error"]
    BY <1>3 DEF BindFails, streamPhase, streamWant, streamVerdict
  <2>. QED BY <2>1 DEF Stream!Next, Stream!Reject
<1>4. ASSUME NEW rt \in RunContexts, Bind(c, rt) PROVE Stream!Next
  <2> DEFINE w == [limit |-> rt.limit, single |-> rt.single]
  <2>1. w \in Stream!Wants
    BY DEF RunContexts, Stream!Wants
  <2>2. /\ streamPhase[c] = "none" /\ UNCHANGED <<streamVerdict, rows>>
        /\ streamPhase' = [streamPhase EXCEPT ![c] = "open"]
        /\ streamWant' = [streamWant EXCEPT ![c] = w]
    BY <1>4 DEF Bind, streamPhase, streamWant, streamVerdict
  <2>. QED BY <2>1, <2>2 DEF Stream!Next, Stream!Open
<1>5. CASE Emit(c)
    BY <1>5 DEF Emit, streamPhase, streamWant, streamVerdict, Stream!streamVars
<1>6. ASSUME NEW kept \in BOOLEAN, Tee(c, kept) PROVE UNCHANGED Stream!streamVars
    BY <1>6 DEF Tee, streamPhase, streamWant, streamVerdict, Stream!streamVars
<1>7. CASE Accept(c)
  <2>1. /\ streamPhase[c] = "open" /\ UNCHANGED <<streamPhase, streamWant, streamVerdict>>
        /\ streamWant[c].limit = run[c].limit
        /\ rows' = [rows EXCEPT ![c] = Append(@, produced[c])]
        /\ pc[c] = "sink"
    BY <1>7 DEF Accept, streamPhase, streamWant, streamVerdict
  <2>2. produced[c] = Len(rows[c]) + 1 /\ emitRes[c] = "nil"
    BY <1>2, <2>1 DEF CountsFit, InEmit
  <2>3. run[c].limit > 0 => Len(rows[c]) < run[c].limit
    BY <1>2, <2>2, RunType DEF CountsFit, AtLimit
  <2>. QED BY <2>1, <2>2, <2>3 DEF Stream!Next, Stream!Deliver
<1>8. CASE Refuse(c)
    BY <1>8 DEF Refuse, streamPhase, streamWant, streamVerdict, Stream!streamVars
<1>9. CASE Return(c)
    BY <1>9 DEF Return, streamPhase, streamWant, streamVerdict, Stream!streamVars
<1>10. ASSUME NEW ok \in BOOLEAN, Flush(c, ok) PROVE Stream!Next
  <2> DEFINE v == IF Verdict(c, ok) = "nil" THEN "complete"
                  ELSE IF Verdict(c, ok) = "noResults" /\ rows[c] = <<>> THEN "empty"
                  ELSE "error"
  <2>1. /\ streamPhase[c] = "open" /\ UNCHANGED <<streamWant, rows>>
        /\ streamPhase' = [streamPhase EXCEPT ![c] = "ended"]
        /\ streamVerdict' = [streamVerdict EXCEPT ![c] = v]
    BY <1>10 DEF Flush, streamPhase, streamWant, streamVerdict
  <2>2. v = "complete" => streamWant[c].single \/ rows[c] # <<>>
    BY DEF Verdict, streamWant
  <2>3. Stream!Fits(c, v)
    BY <2>2 DEF Stream!Fits
  <2>. QED BY <2>1, <2>3 DEF Stream!Next, Stream!End
<1>. QED BY <1>1, <1>3, <1>4, <1>5, <1>6, <1>7, <1>8, <1>9, <1>10 DEF InvokeStep

(* A reader of the sink sees what RecordStream promises, if the handlers    *)
(* heed emit: every state of Invoke maps to one of RecordStream, and every  *)
(* step to one of its steps or to a stutter.                                *)
THEOREM StreamRefinement ==
    ASSUME "ignore" \notin HandlerStyles
    PROVE  InvokeSpec => IsRecordStream
<1>1. InvokeInv /\ [InvokeNext]_invokeVars => [Stream!Next]_(Stream!streamVars)
  <2>1. CASE UNCHANGED invokeVars
    BY <2>1 DEF invokeVars, Stream!streamVars, streamPhase, streamWant, streamVerdict
  <2>. QED BY <2>1, StreamStep
<1>. QED BY <1>1, StreamInit, InvokeCorrect, PTL DEF InvokeSpec, IsRecordStream, Stream!Spec
=============================================================================
