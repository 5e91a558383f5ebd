------------------------------- MODULE CliRun -------------------------------
(***************************************************************************)
(* One run of an operation from the command line (kit/surface_cli.go): the *)
(* order in which cobra parses the flags, validates the arguments, runs    *)
(* the root's pre-run hook that opens the record store, the command and    *)
(* the post-run hook that closes the store, and the exit code that results *)
(* (kit/errs/errs.go).  A hook or command that returns an error ends the   *)
(* run there: cobra runs the post-run hook only after a command that       *)
(* succeeded.                                                              *)
(***************************************************************************)
EXTENDS Invoke

CONSTANT cmd   \* the one invocation of the run

ASSUME CliAssumption == Calls = {cmd} /\ 0 \in LimitValues

VARIABLES stage,   \* where the run stands
          store,   \* the record store of --db
          wants,   \* the command line: whether --db is given, -n, the format
          exit     \* the exit code, -1 while the process runs

cliVars == <<stage, store, wants, exit>>
allVars == <<invokeVars, cliVars>>

(* A "grid" (table, markdown) keeps every record until Flush; "delim" (csv, *)
(* tsv, a registered encoder) may keep some and may fail on any record;     *)
(* "stream" is every other format, that prints a record when it is emitted. *)
CommandLines == [db : BOOLEAN, limit : LimitValues, format : {"grid", "delim", "stream"}]

CliTypeOK ==
    /\ InvokeTypeOK
    /\ stage \in {"flags", "args", "prerun", "client", "renderer", "invoke", "postrun", "exited"}
    /\ store \in {"none", "open", "closed"}
    /\ wants \in CommandLines
    /\ exit \in -1..8

CliInit ==
    /\ InvokeInit
    /\ stage = "flags"
    /\ store = "none"
    /\ wants \in CommandLines
    /\ exit = -1
----------------------------------------------------------------------------

(* errs.ExitCode: a handler's own failure and a factory's have the code of *)
(* their kind, an unclassified error has 1.                                *)
ClassifiedCodes == {1, 2, 4, 5, 6, 7, 8}
ExitCodes(e) == CASE e = "nil"       -> {0}
                  [] e = "usage"     -> {2}
                  [] e = "noResults" -> {3}
                  [] e = "failed"    -> ClassifiedCodes
                  [] OTHER           -> {1}

Go(from, to) == /\ stage = from
                /\ stage' = to
                /\ UNCHANGED <<invokeVars, wants, exit>>

ExitWith(from, codes) == /\ stage = from
                         /\ stage' = "exited"
                         /\ exit' \in codes
                         /\ UNCHANGED <<invokeVars, wants>>

ParseFlags == /\ Go("flags", "args") \/ ExitWith("flags", {2})
              /\ UNCHANGED store

ValidateArgs == /\ Go("args", "prerun") \/ ExitWith("args", {2})
                /\ UNCHANGED store

(* newState: a bad --template is a usage error before the store is opened. *)
BadTemplate == ExitWith("prerun", {2}) /\ UNCHANGED store
OpenFails == wants.db /\ ExitWith("prerun", {1}) /\ UNCHANGED store
(* A slip: the store is left to be opened later. *)
PreRunLazy == Go("prerun", "client") /\ UNCHANGED store

PreRun == /\ Go("prerun", "client")
          /\ store' = IF wants.db THEN "open" ELSE "none"

(* invokeCLI: the client factory, then the renderer, whose encoder may not *)
(* be buildable.                                                           *)
BuildClient == /\ Go("client", "renderer") \/ ExitWith("client", ClassifiedCodes \union {3})
               /\ UNCHANGED store
BuildRenderer == /\ Go("renderer", "invoke") \/ ExitWith("renderer", {2})
                 /\ UNCHANGED store

(* Invoke over the renderer: a grid takes every record and can fail only   *)
(* when it is drawn.                                                       *)
RunStep ==
    /\ stage = "invoke"
    /\ \/ BindFails(cmd)
       \/ \E s \in BOOLEAN, style \in HandlerStyles :
              Bind(cmd, [limit |-> wants.limit, single |-> s, teed |-> wants.db, style |-> style])
       \/ Emit(cmd)
       \/ \E kept \in BOOLEAN : Tee(cmd, kept) /\ store = "open"
       \/ Accept(cmd)
       \/ Refuse(cmd) /\ wants.format # "grid"
       \/ Return(cmd)
       \/ \E ok \in BOOLEAN : Flush(cmd, ok)
    /\ UNCHANGED cliVars

CommandFails == /\ pc[cmd] = "done" /\ result[cmd] # "nil"
                /\ ExitWith("invoke", ExitCodes(result[cmd]))
                /\ UNCHANGED store

CommandSucceeds == /\ pc[cmd] = "done" /\ result[cmd] = "nil"
                   /\ Go("invoke", "postrun")
                   /\ UNCHANGED store

(* PersistentPostRunE: Close releases the store, its error is unclassified. *)
PostRun == /\ ExitWith("postrun", IF store = "open" THEN {0, 1} ELSE {0})
           /\ store' = IF store = "open" THEN "closed" ELSE store

CliNext == \/ ParseFlags \/ ValidateArgs \/ BadTemplate \/ OpenFails \/ PreRun
           \/ BuildClient \/ BuildRenderer \/ RunStep \/ CommandFails
           \/ CommandSucceeds \/ PostRun

CliSpec == CliInit /\ [][CliNext]_allVars

(* The process is one goroutine, so whatever step comes next is taken, but *)
(* that a handler that is free to go on need not ever return by itself: it *)
(* may have records without end, or wait for more once it has had MaxEmits.*)
HandlerStopsItself == GoesOn(cmd) /\ Return(cmd)

FairCliSpec == CliSpec /\ WF_allVars(CliNext /\ ~HandlerStopsItself)
----------------------------------------------------------------------------
(* The records that are certain to have reached standard output. *)
Printed == IF wants.format = "stream" THEN Len(rows[cmd])
           ELSE IF pc[cmd] = "done" /\ flushed[cmd] THEN Len(rows[cmd]) ELSE 0

(* The invocation of the run is an Invoke. *)
RunsInvoke == InvokeSpec

(* The one loss that exit code 0 hides: -n ended the stream, and the Flush *)
(* that was to print the buffered rows failed.  The stop marker is not nil *)
(* yet, so that error is dropped (op.go:298).                              *)
LostInFlush == AtLimit(cmd, Len(rows[cmd])) /\ ~flushed[cmd]

(* Exit code 0 means that the operation succeeded, that every record of a  *)
(* handler that heeds emit is printed unless it is lost in that one way,   *)
(* that a non-Single operation found something, and that the store has     *)
(* been closed.                                                            *)
ExitZeroIsSuccess == exit = 0 =>
    /\ pc[cmd] = "done" /\ result[cmd] = "nil"
    /\ Disciplined(cmd) => Printed = produced[cmd] \/ LostInFlush
    /\ run[cmd].single \/ rows[cmd] # <<>>
    /\ store = IF wants.db THEN "closed" ELSE "none"

(* A run that -n cuts short, with a handler that returns what emit says,   *)
(* exits with 0 like a complete one, unless closing the store fails.       *)
LimitExitsZero == exit # -1 /\ pc[cmd] = "done" /\ run[cmd].style = "return"
                  /\ AtLimit(cmd, Len(rows[cmd])) =>
    exit = 0 \/ (exit = 1 /\ store = "closed")

(* Exit code 3 tells an empty stream from every failure: nothing was       *)
(* printed, unless the handler reports an empty result on its own.         *)
ExitThreeIsEmpty == exit = 3 =>
    hErr[cmd] = "noResults" \/ (rows[cmd] = <<>> /\ ~run[cmd].single /\ Printed = 0)

(* Records are teed only while the store is open, and a command line that  *)
(* fails before the operation is bound leaves no record behind.            *)
StoreOutlivesTee ==
    /\ pc[cmd] = "tee" => store = "open"
    /\ stored[cmd] # {} => store \in {"open", "closed"} /\ run[cmd].teed

(* The store is there for as long as the run needs it.  *)
CliInv == CliTypeOK /\ StoreOutlivesTee

(* What a script reads off the exit code is what happened to the records,  *)
(* but for a table or a delimited list cut by -n whose Flush fails: 0 does *)
(* not tell that from success (errs.go:72-106, op.go:297-307).             *)
ExitCodeTells == ExitZeroIsSuccess /\ LimitExitsZero /\ ExitThreeIsEmpty

(* A positive -n ends the command also over a source without an end, if    *)
(* the handler heeds emit (op.go:292).                                     *)
LimitEndsRun == (wants.limit \in 1..MaxEmits) ~> (exit # -1 \/ ~Disciplined(cmd))
=============================================================================
