------------------------------- MODULE Invoke -------------------------------
(***************************************************************************)
(* op.Invoke (kit/op.go), the one path every surface runs an operation     *)
(* through: bind the input, run the domain's handler with an emit callback *)
(* that tees each record into the store, hands it to the surface's sink    *)
(* and stops the handler at the row limit, then flush the sink and turn    *)
(* what happened into one error.                                           *)
(*                                                                         *)
(* The k-th record a handler produces is the number k.  The handler is     *)
(* domain code, so it is modelled by what it may do with the error emit    *)
(* returns: "return" it (the convention of the scaffolded domains), "wrap" *)
(* it, or "ignore" it and go on.                                           *)
(*                                                                         *)
(* The surfaces EXTEND this module and say when a record is kept by the    *)
(* store and accepted by the sink.                                         *)
(***************************************************************************)
EXTENDS Integers, Sequences, FiniteSets

CONSTANTS Calls,          \* the invocations
          MaxEmits,       \* bound: the records a handler produces at most
          LimitValues,    \* the values RunContext.Limit may have
          HandlerStyles   \* what handlers do with an error of emit

ASSUME InvokeAssumption ==
    /\ MaxEmits \in Nat
    /\ LimitValues \subseteq Int
    /\ HandlerStyles \subseteq {"return", "wrap", "ignore"}

(* RunContext and the parts of the operation that Invoke looks at. *)
RunContexts == [limit : LimitValues, single : BOOLEAN, teed : BOOLEAN,
                style : HandlerStyles]
Unbound == [limit |-> 0, single |-> FALSE, teed |-> FALSE, style |-> "return"]

(* What emit returns: nil, errStop, or the error of sink.Emit. *)
EmitResults == {"nil", "stop", "sinkErr"}
Wrapped(e) == CASE e = "stop"    -> "stopWrapped"
                [] e = "sinkErr" -> "sinkWrapped"
                [] e = "nil"     -> "nil"
(* What a handler returns of its own accord: nothing wrong, errs.NoResults *)
(* or any other classified failure.                                        *)
OwnResults == {"nil", "noResults", "failed"}
HandlerResults == OwnResults \union EmitResults \union {"stopWrapped", "sinkWrapped"}
InvokeResults == HandlerResults \union {"usage", "flushErr"}

VARIABLES pc,         \* where the invocation stands
          run,        \* its RunContext, Unbound before bind
          produced,   \* how many times the handler has called emit
          stored,     \* the records the store has kept
          missed,     \* history: the records whose error the tee has dropped
          rows,       \* the records the sink has accepted; n is Len(rows[c])
          emitRes,    \* what the latest emit returned
          hErr,       \* what the handler returned
          flushed,    \* whether sink.Flush succeeded
          result      \* what Invoke returned

invokeVars == <<pc, run, produced, stored, missed, rows, emitRes, hErr, flushed, result>>

Phases == {"idle", "handler", "tee", "sink", "flush", "done"}

(* Between emit's first line and its return. *)
InEmit(c) == pc[c] \in {"tee", "sink"}

InvokeTypeOK ==
    /\ pc \in [Calls -> Phases]
    /\ run \in [Calls -> RunContexts \union {Unbound}]
    /\ produced \in [Calls -> 0..MaxEmits]
    /\ stored \in [Calls -> SUBSET (1..MaxEmits)]
    /\ missed \in [Calls -> SUBSET (1..MaxEmits)]
    /\ rows \in [Calls -> Seq(1..MaxEmits)]
    /\ emitRes \in [Calls -> EmitResults]
    /\ hErr \in [Calls -> HandlerResults]
    /\ flushed \in [Calls -> BOOLEAN]
    /\ result \in [Calls -> InvokeResults]
    /\ \A c \in Calls : InEmit(c) => produced[c] > 0

InvokeInit ==
    /\ pc = [c \in Calls |-> "idle"]
    /\ run = [c \in Calls |-> Unbound]
    /\ produced = [c \in Calls |-> 0]
    /\ stored = [c \in Calls |-> {}]
    /\ missed = [c \in Calls |-> {}]
    /\ rows = [c \in Calls |-> <<>>]
    /\ emitRes = [c \in Calls |-> "nil"]
    /\ hErr = [c \in Calls |-> "nil"]
    /\ flushed = [c \in Calls |-> TRUE]
    /\ result = [c \in Calls |-> "nil"]

----------------------------------------------------------------------------
(* A handler that has been told to stop goes on only if it ignores emit. *)
Halted(c) == emitRes[c] # "nil"
GoesOn(c) == Halted(c) => run[c].style = "ignore"

(* o.bind rejects the input: errs.Usage, and the sink is not flushed. *)
BindFails(c) ==
    /\ pc[c] = "idle"
    /\ pc' = [pc EXCEPT ![c] = "done"]
    /\ result' = [result EXCEPT ![c] = "usage"]
    /\ UNCHANGED <<run, produced, stored, missed, rows, emitRes, hErr, flushed>>

Bind(c, rt) ==
    /\ pc[c] = "idle"
    /\ pc' = [pc EXCEPT ![c] = "handler"]
    /\ run' = [run EXCEPT ![c] = rt]
    /\ UNCHANGED <<produced, stored, missed, rows, emitRes, hErr, flushed, result>>

(* Forms with a slip of the definitions below, which the properties have to *)
(* tell from the code: no limit check, an error of the sink not passed on,  *)
(* a tee that is given up once it has failed.                               *)
EmitGivesUpStore(c) ==
    /\ pc[c] = "handler"
    /\ GoesOn(c)
    /\ produced[c] < MaxEmits
    /\ produced' = [produced EXCEPT ![c] = @ + 1]
    /\ pc' = [pc EXCEPT ![c] = IF run[c].teed /\ missed[c] = {} THEN "tee" ELSE "sink"]
    /\ UNCHANGED <<run, stored, missed, rows, emitRes, hErr, flushed, result>>
AcceptUnlimited(c) ==
    /\ pc[c] = "sink"
    /\ pc' = [pc EXCEPT ![c] = "handler"]
    /\ rows' = [rows EXCEPT ![c] = Append(@, produced[c])]
    /\ UNCHANGED <<run, produced, stored, missed, emitRes, hErr, flushed, result>>
RefuseSilently(c) ==
    /\ pc[c] = "sink"
    /\ pc' = [pc EXCEPT ![c] = "handler"]
    /\ UNCHANGED <<run, produced, stored, missed, rows, emitRes, hErr, flushed, result>>

(* The handler calls emit with its next record. *)
Emit(c) ==
    /\ pc[c] = "handler"
    /\ GoesOn(c)
    /\ produced[c] < MaxEmits
    /\ produced' = [produced EXCEPT ![c] = @ + 1]
    /\ pc' = [pc EXCEPT ![c] = IF run[c].teed THEN "tee" ELSE "sink"]
    /\ UNCHANGED <<run, stored, missed, rows, emitRes, hErr, flushed, result>>

(* tee(rec): the record is kept, or it cannot be marshalled or the store   *)
(* refuses it; either way the error is dropped and emit goes on.           *)
Tee(c, kept) ==
    /\ pc[c] = "tee"
    /\ pc' = [pc EXCEPT ![c] = "sink"]
    /\ stored' = [stored EXCEPT ![c] = IF kept THEN @ \union {produced[c]} ELSE @]
    /\ missed' = [missed EXCEPT ![c] = IF kept THEN @ ELSE @ \union {produced[c]}]
    /\ UNCHANGED <<run, produced, rows, emitRes, hErr, flushed, result>>

(* n >= rt.Limit, once n has counted the record just accepted. *)
AtLimit(c, n) == run[c].limit > 0 /\ n >= run[c].limit

(* sink.Emit takes the record and emit counts it. *)
Accept(c) ==
    /\ pc[c] = "sink"
    /\ pc' = [pc EXCEPT ![c] = "handler"]
    /\ rows' = [rows EXCEPT ![c] = Append(@, produced[c])]
    /\ emitRes' = [emitRes EXCEPT
                     ![c] = IF AtLimit(c, Len(rows[c]) + 1) THEN "stop" ELSE "nil"]
    /\ UNCHANGED <<run, produced, stored, missed, hErr, flushed, result>>

(* sink.Emit fails and emit passes its error to the handler, uncounted. *)
Refuse(c) ==
    /\ pc[c] = "sink"
    /\ pc' = [pc EXCEPT ![c] = "handler"]
    /\ emitRes' = [emitRes EXCEPT ![c] = "sinkErr"]
    /\ UNCHANGED <<run, produced, stored, missed, rows, hErr, flushed, result>>

(* What the handler may return now. *)
Outcomes(c) == IF GoesOn(c) THEN OwnResults
               ELSE IF run[c].style = "wrap" THEN {Wrapped(emitRes[c])}
               ELSE {emitRes[c]}

Return(c) ==
    /\ pc[c] = "handler"
    /\ \E e \in Outcomes(c) : hErr' = [hErr EXCEPT ![c] = e]
    /\ pc' = [pc EXCEPT ![c] = "flush"]
    /\ UNCHANGED <<run, produced, stored, missed, rows, emitRes, flushed, result>>

(* Slips in what Invoke makes of the outcome: errStop returned, an empty   *)
(* stream passed.                                                          *)
VerdictKeepsStop(c, ok) ==
    LET err == IF ~ok /\ hErr[c] = "nil" THEN "flushErr" ELSE hErr[c]
    IN  IF err # "nil" THEN err
        ELSE IF ~run[c].single /\ rows[c] = <<>> THEN "noResults" ELSE "nil"
VerdictAllowsEmpty(c, ok) ==
    LET err == IF ~ok /\ hErr[c] = "nil" THEN "flushErr" ELSE hErr[c]
    IN  IF err \notin {"nil", "stop"} THEN err ELSE "nil"

(* The error of Invoke: the handler's own comes first, a failed Flush      *)
(* counts only beside a nil, errStop is compared by identity and dropped,  *)
(* and a stream of no records is an error unless the operation is Single.  *)
Verdict(c, ok) ==
    LET err == IF ~ok /\ hErr[c] = "nil" THEN "flushErr" ELSE hErr[c]
    IN  IF err \notin {"nil", "stop"} THEN err
        ELSE IF ~run[c].single /\ rows[c] = <<>> THEN "noResults"
        ELSE "nil"

Flush(c, ok) ==
    /\ pc[c] = "flush"
    /\ pc' = [pc EXCEPT ![c] = "done"]
    /\ flushed' = [flushed EXCEPT ![c] = ok]
    /\ result' = [result EXCEPT ![c] = Verdict(c, ok)]
    /\ UNCHANGED <<run, produced, stored, missed, rows, emitRes, hErr>>

InvokeStep(c) == \/ BindFails(c)
                 \/ \E rt \in RunContexts : Bind(c, rt)
                 \/ Emit(c)
                 \/ \E kept \in BOOLEAN : Tee(c, kept)
                 \/ Accept(c)
                 \/ Refuse(c)
                 \/ Return(c)
                 \/ \E ok \in BOOLEAN : Flush(c, ok)

InvokeNext == \E c \in Calls : InvokeStep(c)

InvokeSpec == InvokeInit /\ [][InvokeNext]_invokeVars
----------------------------------------------------------------------------
(* A handler that stops when emit fails. *)
Disciplined(c) == run[c].style # "ignore"

(* A handler that heeds emit never gets more than a positive limit of rows *)
(* out, wherever the sink or the store failed on the way (op.go:291-294).  *)
LimitCap == \A c \in Calls :
    Disciplined(c) /\ run[c].limit > 0 => Len(rows[c]) <= run[c].limit

(* With such a handler the rows are the first records in order: no failure *)
(* of the tee, the sink or the limit leaves a gap or a repetition, and at  *)
(* most the latest record is missing from them.                            *)
RowsArePrefix == \A c \in Calls : Disciplined(c) =>
    /\ \A k \in 1..Len(rows[c]) : rows[c][k] = k
    /\ produced[c] - Len(rows[c]) \in {0, 1}

(* The store runs at most one record ahead of the output (the tee comes    *)
(* first, op.go:287), and never holds a record that was not emitted.       *)
StoreLeadsByOne == \A c \in Calls : Disciplined(c) =>
    /\ stored[c] \subseteq 1..produced[c]
    /\ \A k \in stored[c] : k <= Len(rows[c]) + 1

(* With a store every record goes to it, before the sink sees it and also  *)
(* after an earlier one has failed, whatever the handler makes of emit's   *)
(* errors: the records the store lacks are just those whose own Marshal or *)
(* Upsert failed (op.go:287, input.go:295-302).  Without one none does.    *)
Offered(c) == IF pc[c] = "tee" THEN 1..(produced[c] - 1) ELSE 1..produced[c]
StoreMissesOnlyFailures == \A c \in Calls :
    /\ stored[c] \union missed[c] = IF run[c].teed THEN Offered(c) ELSE {}
    /\ stored[c] \intersect missed[c] = {}

(* Every record a handler emits is accounted for: it went out in order, up *)
(* to the limit and but for the record in flight, and, with a store, it is *)
(* stored or its tee failed (op.go:286-296).  That tee's error is dropped, *)
(* so neither the rows nor the result tell of a record the store lacks.    *)
DeliveryIsAccounted ==
    LimitCap /\ RowsArePrefix /\ StoreLeadsByOne /\ StoreMissesOnlyFailures

(* Success means that everything the handler produced reached the sink,    *)
(* and was flushed unless the row limit ended the stream.                  *)
SuccessIsComplete == \A c \in Calls :
    pc[c] = "done" /\ result[c] = "nil" /\ Disciplined(c) =>
        /\ produced[c] = Len(rows[c])
        /\ flushed[c] \/ AtLimit(c, Len(rows[c]))
        /\ run[c].single \/ rows[c] # <<>>

(* A handler that returns emit's error and is cut by the limit ends in     *)
(* success: the stop marker is told from every other error (op.go:301).    *)
LimitIsSuccess == \A c \in Calls :
    pc[c] = "done" /\ run[c].style = "return" /\ AtLimit(c, Len(rows[c])) =>
        result[c] = "nil"

(* The error of Invoke tells a complete stream, one cut by the limit and a  *)
(* broken one apart (op.go:297-307).                                        *)
VerdictIsRight == SuccessIsComplete /\ LimitIsSuccess

(* The inductive invariant behind the safety properties above: how the     *)
(* counters of a disciplined invocation stand at each point of emit, what  *)
(* its handler returned and what Invoke made of that.                      *)
CountsFit(c) ==
    /\ \A k \in 1..Len(rows[c]) : rows[c][k] = k
    /\ InEmit(c) => emitRes[c] = "nil" /\ produced[c] = Len(rows[c]) + 1
    /\ ~InEmit(c) => produced[c] = IF emitRes[c] = "sinkErr" THEN Len(rows[c]) + 1
                                   ELSE Len(rows[c])
    /\ run[c].limit > 0 => Len(rows[c]) <= run[c].limit
    /\ emitRes[c] = "stop" <=> AtLimit(c, Len(rows[c]))
    /\ stored[c] \subseteq 1..produced[c]
ReturnFits(c) == pc[c] \in {"flush", "done"} /\ result[c] # "usage" =>
    \/ emitRes[c] = "nil" /\ hErr[c] \in OwnResults
    \/ emitRes[c] # "nil" /\ run[c].style = "return" /\ hErr[c] = emitRes[c]
    \/ emitRes[c] # "nil" /\ run[c].style = "wrap" /\ hErr[c] = Wrapped(emitRes[c])
ResultFits(c) == /\ pc[c] # "done" => result[c] = "nil"
                 /\ pc[c] = "done" => result[c] \in {"usage", Verdict(c, flushed[c])}
                 /\ pc[c] = "tee" => run[c].teed
                 /\ pc[c] = "idle" => produced[c] = 0
                 /\ pc[c] = "idle" \/ result[c] = "usage" =>
                        rows[c] = <<>> /\ run[c] = Unbound /\ emitRes[c] = "nil"
InvokeInv == /\ InvokeTypeOK
             /\ StoreMissesOnlyFailures
             /\ \A c \in Calls : /\ Disciplined(c) => CountsFit(c) /\ ReturnFits(c)
                                 /\ ResultFits(c)
----------------------------------------------------------------------------
(* The refinement: what a reader of the sink sees is a RecordStream. *)
streamPhase == [c \in Calls |-> CASE pc[c] = "idle" -> "none"
                                  [] pc[c] = "done" -> "ended"
                                  [] OTHER          -> "open"]
streamWant == [c \in Calls |-> [limit |-> run[c].limit, single |-> run[c].single]]
streamVerdict == [c \in Calls |->
    CASE pc[c] # "done"                               -> "none"
      [] pc[c] = "done" /\ result[c] = "nil"          -> "complete"
      [] pc[c] = "done" /\ result[c] = "noResults" /\ rows[c] = <<>> -> "empty"
      [] OTHER                                        -> "error"]

Stream == INSTANCE RecordStream WITH phase <- streamPhase, want <- streamWant,
                                     out <- rows, verdict <- streamVerdict

(* Invoke with handlers that heed emit keeps the promise of RecordStream. *)
IsRecordStream == Stream!Spec
=============================================================================
