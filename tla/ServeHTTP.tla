------------------------------ MODULE ServeHTTP -----------------------------
(***************************************************************************)
(* The serve subcommand (kit/surface_api.go): an HTTP server that runs an  *)
(* operation per request, every request in a goroutine of its own, over    *)
(* one shared State: the client built once on first use (kit/state.go) and *)
(* the record store opened for the run.  A signal closes the listener, the *)
(* command returns, the store is closed and the process exits              *)
(* (kit/run.go, kit/surface_cli.go) while handlers may still be running.   *)
(***************************************************************************)
EXTENDS Invoke

CONSTANTS GlobalLimit,   \* st.Globals.Limit: the -n that serve was started with
          Asked,         \* the values of ?limit, Unasked among them
          Unasked,       \* no ?limit, or one that is not a number
          BadRecords,    \* the records encoding/json cannot encode
          HasStore       \* whether --db was given

LimitOf(a) == IF a = Unasked THEN GlobalLimit ELSE a

ASSUME ServeAssumption ==
    /\ Unasked \notin Int
    /\ GlobalLimit \in LimitValues
    /\ Asked \subseteq LimitValues \union {Unasked}
    /\ HasStore \in BOOLEAN

VARIABLES server,     \* the life of the process
          signalled,  \* the run's context is cancelled
          client,     \* State.clientOnce, with the outcome it caches
          storeOpen,  \* the record store takes records
          http,       \* where the goroutine of a request stands
          conn,       \* whether the peer of a request is still there
          asked,      \* the ?limit of a request
          resp        \* what its response has become

hostVars == <<server, signalled, client, storeOpen>>
requestVars == <<http, conn, asked, resp>>
serveVars == <<invokeVars, hostVars, requestVars>>

NoResponse == [status |-> "none", wrote |-> FALSE, errBody |-> FALSE]
Responses == [status : {"none", "200", "error"}, wrote : BOOLEAN, errBody : BOOLEAN]

ServeTypeOK ==
    /\ InvokeTypeOK
    /\ server \in {"starting", "up", "closing", "stopped", "released", "exited"}
    /\ signalled \in BOOLEAN
    /\ client \in {"unbuilt", "building", "ready", "failed"}
    /\ storeOpen \in BOOLEAN
    /\ http \in [Calls -> {"none", "client", "building", "invoke", "answered"}]
    /\ conn \in [Calls -> {"open", "gone"}]
    /\ asked \in [Calls -> Asked \union {Unasked}]
    /\ resp \in [Calls -> Responses]

(* A domain without a client factory has its (nil) client from the start. *)
ServeInit ==
    /\ InvokeInit
    /\ server = "starting"
    /\ signalled = FALSE
    /\ client \in {"unbuilt", "ready"}
    /\ storeOpen = HasStore
    /\ http = [c \in Calls |-> "none"]
    /\ conn = [c \in Calls |-> "open"]
    /\ asked = [c \in Calls |-> Unasked]
    /\ resp = [c \in Calls |-> NoResponse]

Running == server # "exited"
----------------------------------------------------------------------------
(* The command: listen, stop listening, close the store, exit. *)
SetServer(from, to) == /\ server \in from
                       /\ server' = to
                       /\ UNCHANGED <<invokeVars, requestVars, signalled, client>>

Listen == SetServer({"starting"}, "up") /\ UNCHANGED storeOpen

(* ListenAndServe fails: RunE returns the error and the post-run hook that *)
(* closes the store is skipped.                                            *)
ListenFails == SetServer({"starting"}, "exited") /\ UNCHANGED storeOpen

(* The goroutine that waits for the context: httpd.Close stops the         *)
(* listener; the connections are closed one by one after it (Disconnect).  *)
CloseListener == /\ signalled
                 /\ SetServer({"starting", "up"}, "closing")
                 /\ UNCHANGED storeOpen

(* A slip: waiting for the handlers, as Server.Shutdown without a deadline. *)
ServeDrains == /\ \A c \in Calls : http[c] \in {"none", "answered"}
               /\ SetServer({"closing"}, "stopped")
               /\ UNCHANGED storeOpen

(* ListenAndServe returns ErrServerClosed, and waits for no handler. *)
ServeReturns == SetServer({"closing"}, "stopped") /\ UNCHANGED storeOpen

(* PersistentPostRunE. *)
CloseStore == SetServer({"stopped"}, "released") /\ storeOpen' = FALSE

Exit == SetServer({"released"}, "exited") /\ UNCHANGED storeOpen

Signal == /\ Running /\ ~signalled
          /\ signalled' = TRUE
          /\ UNCHANGED <<invokeVars, requestVars, server, client, storeOpen>>
----------------------------------------------------------------------------
(* One request: its own variables and its share of the host's. *)
Arrive(c) ==
    /\ server = "up" /\ http[c] = "none"
    /\ http' = [http EXCEPT ![c] = "client"]
    /\ \E a \in Asked : asked' = [asked EXCEPT ![c] = a]
    /\ UNCHANGED <<invokeVars, hostVars, conn, resp>>

(* The peer goes away, or httpd.Close closes its connection. *)
Disconnect(c) ==
    /\ Running /\ http[c] # "none" /\ conn[c] = "open"
    /\ conn' = [conn EXCEPT ![c] = "gone"]
    /\ UNCHANGED <<invokeVars, hostVars, http, asked, resp>>

(* A slip: a factory that fails leaves the others waiting. *)
BuildStrandsWaiters(c) ==
    /\ Running /\ http[c] = "building"
    /\ \/ client' = "ready" /\ http' = [http EXCEPT ![c] = "client"]
       \/ client' = "building" /\ http' = [http EXCEPT ![c] = "answered"]
    /\ UNCHANGED <<invokeVars, server, signalled, storeOpen, conn, asked, resp>>

(* State.Client: the first request runs the factory under its own context, *)
(* the others wait inside sync.Once, and the outcome is kept for all.      *)
StartBuild(c) ==
    /\ Running /\ http[c] = "client" /\ client = "unbuilt"
    /\ client' = "building"
    /\ http' = [http EXCEPT ![c] = "building"]
    /\ UNCHANGED <<invokeVars, server, signalled, storeOpen, conn, asked, resp>>

BuildEnds(c) ==
    /\ Running /\ http[c] = "building"
    /\ client' \in {"ready", "failed"}
    /\ http' = [http EXCEPT ![c] = "client"]
    /\ UNCHANGED <<invokeVars, server, signalled, storeOpen, conn, asked, resp>>

UseClient(c) ==
    /\ Running /\ http[c] = "client" /\ client = "ready"
    /\ http' = [http EXCEPT ![c] = "invoke"]
    /\ UNCHANGED <<invokeVars, hostVars, conn, asked, resp>>

(* writeErr: the status line unless it has gone out already, and an error  *)
(* object in the body.                                                     *)
WriteErr(c) == resp' = [resp EXCEPT
    ![c].status = IF @ = "none" THEN "error" ELSE @, ![c].errBody = TRUE]

ClientError(c) ==
    /\ Running /\ http[c] = "client" /\ client = "failed"
    /\ WriteErr(c)
    /\ http' = [http EXCEPT ![c] = "answered"]
    /\ UNCHANGED <<invokeVars, hostVars, conn, asked>>

(* The steps of Invoke, run in the goroutine of the request. *)
Invoking(c) == Running /\ http[c] = "invoke"

(* A slip: the limit of the run instead of the request's. *)
ServeBindGlobal(c) ==
    /\ Invoking(c)
    /\ \/ BindFails(c)
       \/ \E s \in BOOLEAN, style \in HandlerStyles :
              Bind(c, [limit |-> GlobalLimit, single |-> s, teed |-> HasStore, style |-> style])
    /\ UNCHANGED <<hostVars, requestVars>>

ServeBind(c) ==
    /\ Invoking(c)
    /\ \/ BindFails(c)
       \/ \E s \in BOOLEAN, style \in HandlerStyles :
              Bind(c, [limit |-> LimitOf(asked[c]), single |-> s, teed |-> HasStore,
                       style |-> style])
    /\ UNCHANGED <<hostVars, requestVars>>

ServeHandler(c) ==
    /\ Invoking(c)
    /\ Emit(c) \/ Return(c)
    /\ UNCHANGED <<hostVars, requestVars>>

(* A closed store, like a record without JSON, is an error the tee drops. *)
ServeTee(c) ==
    /\ Invoking(c)
    /\ \/ Tee(c, FALSE)
       \/ Tee(c, TRUE) /\ storeOpen /\ produced[c] \notin BadRecords
    /\ UNCHANGED <<hostVars, requestVars>>

(* A slip: the sink does not note that it has written. *)
ServeAcceptUnmarked(c) ==
    /\ Invoking(c) /\ produced[c] \notin BadRecords
    /\ Accept(c)
    /\ resp' = [resp EXCEPT ![c].status = "200"]
    /\ UNCHANGED <<hostVars, http, conn, asked>>

(* ndjsonSink.Emit: wrote is set before the record is encoded, and the     *)
(* first bytes of a record send the status line.  To a peer that is gone   *)
(* the write fails, or vanishes in a buffer.                               *)
ServeAccept(c) ==
    /\ Invoking(c) /\ produced[c] \notin BadRecords
    /\ Accept(c)
    /\ resp' = [resp EXCEPT ![c].wrote = TRUE, ![c].status = "200"]
    /\ UNCHANGED <<hostVars, http, conn, asked>>

ServeRefuse(c) ==
    /\ Invoking(c) /\ (produced[c] \in BadRecords \/ conn[c] = "gone")
    /\ Refuse(c)
    /\ resp' = [resp EXCEPT ![c].wrote = TRUE]
    /\ UNCHANGED <<hostVars, http, conn, asked>>

(* ndjsonSink.Flush never fails. *)
ServeFlush(c) ==
    /\ Invoking(c)
    /\ Flush(c, TRUE)
    /\ UNCHANGED <<hostVars, requestVars>>

(* errs.KindOf is neither KindOK nor KindNoResults. *)
Failed(c) == result[c] \notin {"nil", "noResults"}

(* Slips: an error object after rows, a failed invocation run once more. *)
RespondAnyError(c) ==
    /\ Invoking(c) /\ pc[c] = "done"
    /\ http' = [http EXCEPT ![c] = "answered"]
    /\ IF Failed(c) THEN WriteErr(c) ELSE resp' = [resp EXCEPT ![c].status = "200"]
    /\ UNCHANGED <<invokeVars, hostVars, conn, asked>>
RespondRetries(c) ==
    /\ Invoking(c) /\ pc[c] = "done"
    /\ IF Failed(c) THEN pc' = [pc EXCEPT ![c] = "idle"] /\ UNCHANGED <<http, resp>>
       ELSE /\ http' = [http EXCEPT ![c] = "answered"]
            /\ resp' = [resp EXCEPT ![c].status = "200"]
            /\ UNCHANGED pc
    /\ UNCHANGED <<run, produced, stored, missed, rows, emitRes, hErr, flushed, result>>
    /\ UNCHANGED <<hostVars, conn, asked>>

(* The tail of handleHTTP, and the 200 a handler that wrote nothing gets. *)
Respond(c) ==
    /\ Invoking(c) /\ pc[c] = "done"
    /\ http' = [http EXCEPT ![c] = "answered"]
    /\ IF Failed(c) /\ ~resp[c].wrote
       THEN WriteErr(c)
       ELSE resp' = [resp EXCEPT ![c].status = "200"]
    /\ UNCHANGED <<invokeVars, hostVars, conn, asked>>

RequestStep(c) == \/ StartBuild(c) \/ BuildEnds(c) \/ UseClient(c) \/ ClientError(c)
                  \/ ServeBind(c) \/ ServeHandler(c) \/ ServeTee(c) \/ ServeAccept(c)
                  \/ ServeRefuse(c) \/ ServeFlush(c) \/ Respond(c)

ShutdownStep == CloseListener \/ ServeReturns \/ CloseStore \/ Exit

ServeNext == \/ Listen \/ ListenFails \/ Signal \/ ShutdownStep
             \/ \E c \in Calls : Arrive(c) \/ Disconnect(c) \/ RequestStep(c)

ServeSpec == ServeInit /\ [][ServeNext]_serveVars

(* The goroutines of the command are scheduled; a handler may hang. *)
ShutdownFairness == WF_serveVars(ShutdownStep)

HangingServeSpec == ServeSpec /\ ShutdownFairness

(* The goroutines of the requests are scheduled, and the factory and the   *)
(* handlers, bounded by MaxEmits, come back.                               *)
RequestFairness == \A c \in Calls : WF_serveVars(RequestStep(c))

----------------------------------------------------------------------------
(* Every request runs Invoke as Invoke is specified, whatever the other    *)
(* requests, the peers and the shutdown do, so what is shown of Invoke     *)
(* holds of every request of the server.                                   *)
RunsInvoke == InvokeSpec

(* One build at most is under way, it is the build the others wait for,    *)
(* and no handler runs without the client it produced (state.go:65).       *)
ClientSharedOnce ==
    /\ (client = "building") <=> (\E c \in Calls : http[c] = "building")
    /\ \A c, d \in Calls : http[c] = "building" /\ http[d] = "building" => c = d
    /\ \A c \in Calls : pc[c] # "idle" => client = "ready"

(* A body never mixes rows and an error object, and rows never follow an   *)
(* error status: the error path is taken only while the sink is untouched  *)
(* (surface_api.go:119), also when the handler ignores a failing sink.     *)
BodyIsRowsOrError == \A c \in Calls :
    /\ resp[c].errBody => resp[c].status = "error" /\ rows[c] = <<>>
    /\ rows[c] # <<>> => resp[c].status = "200"
    /\ resp[c].status = "error" => resp[c].errBody

(* An answered request whose handler heeds emit got at most the rows it    *)
(* asked for with ?limit, or those serve's own -n allows if it did not.    *)
AskedLimitHolds == \A c \in Calls :
    Disciplined(c) /\ LimitOf(asked[c]) > 0 => Len(rows[c]) <= LimitOf(asked[c])

(* The inductive invariant behind the three properties above. *)
ClientFits(c) == /\ http[c] = "building" => client = "building"
                 /\ http[c] = "invoke" \/ pc[c] # "idle" => client = "ready"
                 /\ pc[c] # "idle" => http[c] \in {"invoke", "answered"}
BodyFits(c) ==
    /\ http[c] \in {"none", "client", "building"} => resp[c] = NoResponse
    /\ http[c] = "invoke" => /\ ~resp[c].errBody
                             /\ resp[c].status \in {"none", "200"}
                             /\ ~resp[c].wrote => resp[c].status = "none"
    /\ http[c] = "answered" => /\ resp[c].errBody <=> resp[c].status = "error"
                               /\ resp[c].errBody => ~resp[c].wrote
    /\ rows[c] # <<>> => resp[c].wrote /\ resp[c].status = "200"
LimitFits(c) == pc[c] = "idle" \/ result[c] = "usage" \/ run[c].limit = LimitOf(asked[c])
ServeInv == /\ ServeTypeOK
            /\ ClientSharedOnce
            /\ \A c \in Calls : ClientFits(c) /\ BodyFits(c) /\ LimitFits(c)

(* A signal ends the process even if a handler or the factory hangs. *)
ShutdownCompletes == signalled ~> (server = "exited")

(* If no handler and no factory hangs, a request that was accepted is      *)
(* answered unless the process ends first; in particular those that wait   *)
(* for another request to build the client.                                *)
RequestIsAnswered == RequestFairness =>
    \A c \in Calls : (http[c] # "none") ~> (http[c] = "answered" \/ server = "exited")
=============================================================================
