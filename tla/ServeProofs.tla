----------------------------- MODULE ServeProofs ----------------------------
(* Theorems about ServeHTTP, for any number of concurrent requests: each    *)
(* request runs Invoke as it is specified, so what InvokeProofs shows of    *)
(* an invocation holds of every request, and the server's own invariant.    *)
EXTENDS ServeHTTP, InvokeProofs

AskedOK == asked \in [Calls -> Asked \union {Unasked}]

LEMMA LimitOfType ==
    ASSUME NEW a \in Asked \union {Unasked}
    PROVE  LimitOf(a) \in LimitValues
BY ServeAssumption DEF LimitOf

(* A step of the server is a step of Invoke, or one Invoke does not see. *)
LEMMA ServeStepRuns ==
    ASSUME AskedOK, ServeNext
    PROVE  [InvokeNext]_invokeVars
<1>1. CASE Listen \/ ListenFails \/ Signal \/ ShutdownStep
    BY <1>1 DEF Listen, ListenFails, Signal, ShutdownStep, CloseListener, ServeReturns,
       CloseStore, Exit, SetServer
<1>2. ASSUME NEW c \in Calls, Arrive(c) \/ Disconnect(c) PROVE UNCHANGED invokeVars
    BY <1>2 DEF Arrive, Disconnect
<1>3. ASSUME NEW c \in Calls, RequestStep(c) PROVE [InvokeNext]_invokeVars
  <2>1. CASE StartBuild(c) \/ BuildEnds(c) \/ UseClient(c) \/ ClientError(c) \/ Respond(c)
    BY <2>1 DEF StartBuild, BuildEnds, UseClient, ClientError, Respond
  <2>2. CASE ServeBind(c)
    <3>1. CASE BindFails(c)
      BY <3>1 DEF InvokeNext, InvokeStep
    <3>2. ASSUME NEW s \in BOOLEAN, NEW style \in HandlerStyles,
                 Bind(c, [limit |-> LimitOf(asked[c]), single |-> s, teed |-> HasStore,
                          style |-> style])
          PROVE  InvokeNext
      <4>1. LimitOf(asked[c]) \in LimitValues
        BY LimitOfType DEF AskedOK
      <4>2. [limit |-> LimitOf(asked[c]), single |-> s, teed |-> HasStore, style |-> style]
              \in RunContexts
        BY <4>1, ServeAssumption DEF RunContexts
      <4>. QED BY <3>2, <4>2 DEF InvokeNext, InvokeStep
    <3>. QED BY <2>2, <3>1, <3>2 DEF ServeBind
  <2>3. CASE ServeHandler(c)
    BY <2>3 DEF ServeHandler, InvokeNext, InvokeStep
  <2>4. CASE ServeTee(c)
    BY <2>4 DEF ServeTee, InvokeNext, InvokeStep
  <2>5. CASE ServeAccept(c)
    BY <2>5 DEF ServeAccept, InvokeNext, InvokeStep
  <2>6. CASE ServeRefuse(c)
    BY <2>6 DEF ServeRefuse, InvokeNext, InvokeStep
  <2>7. CASE ServeFlush(c)
    BY <2>7 DEF ServeFlush, InvokeNext, InvokeStep
  <2>. QED BY <1>3, <2>1, <2>2, <2>3, <2>4, <2>5, <2>6, <2>7 DEF RequestStep
<1>. QED BY <1>1, <1>2, <1>3 DEF ServeNext

LEMMA AskedStep ==
    ASSUME AskedOK, [ServeNext]_serveVars
    PROVE  AskedOK'
<1>1. ASSUME NEW c \in Calls, Arrive(c) PROVE AskedOK'
    BY <1>1 DEF AskedOK, Arrive
<1>2. CASE UNCHANGED asked
    BY <1>2 DEF AskedOK
<1>3. (\E c \in Calls : Arrive(c)) \/ UNCHANGED asked
    BY DEF ServeNext, serveVars, requestVars, Listen, ListenFails, Signal, ShutdownStep,
       CloseListener, ServeReturns, CloseStore, Exit, SetServer, Disconnect, RequestStep,
       StartBuild, BuildEnds, UseClient, ClientError, Respond, ServeBind, ServeHandler,
       ServeTee, ServeAccept, ServeRefuse, ServeFlush
<1>. QED BY <1>1, <1>2, <1>3

(* Every request of the server runs Invoke as it is specified. *)
THEOREM ServeRunsInvoke == ServeSpec => RunsInvoke
<1>1. ServeInit => InvokeInit /\ AskedOK
    BY DEF ServeInit, AskedOK
<1>2. AskedOK /\ [ServeNext]_serveVars => [InvokeNext]_invokeVars
    BY ServeStepRuns DEF serveVars
<1>. QED BY <1>1, <1>2, AskedStep, PTL DEF ServeSpec, RunsInvoke, InvokeSpec

(* So the store leads no response by more than a record, and a request     *)
(* that succeeds has lost nothing.                                         *)
THEOREM ServeInvokeInv == ServeSpec => []InvokeInv
BY ServeRunsInvoke, InvokeCorrect, PTL DEF RunsInvoke
----------------------------------------------------------------------------
(* The invariant of the server's own state. *)
LEMMA ServeInitInv == ServeInit => ServeInv
<1> SUFFICES ASSUME ServeInit PROVE ServeInv
    OBVIOUS
<1>1. InvokeTypeOK
    BY InitInv DEF ServeInit, InvokeInv
<1>2. ServeTypeOK
    BY <1>1, ServeAssumption DEF ServeInit, ServeTypeOK, Responses, NoResponse
<1>3. ClientSharedOnce /\ \A c \in Calls : ClientFits(c) /\ LimitFits(c)
    BY DEF ServeInit, InvokeInit, ClientSharedOnce, ClientFits, LimitFits
<1>4. \A c \in Calls : BodyFits(c)
    BY DEF ServeInit, InvokeInit, BodyFits, NoResponse
<1>. QED BY <1>2, <1>3, <1>4 DEF ServeInv

(* The steps of the command and of the peers leave the requests' goroutines *)
(* where they are.                                                          *)
LEMMA HostStepInv ==
    ASSUME ServeInv,
           \/ Listen \/ ListenFails \/ Signal \/ ShutdownStep
           \/ \E c \in Calls : Arrive(c) \/ Disconnect(c)
    PROVE  ServeInv'
<1> USE DEF ServeInv, ServeTypeOK
<1>1. CASE Listen \/ ListenFails \/ ShutdownStep \/ Signal
  <2>1. /\ UNCHANGED <<invokeVars, requestVars, client>>
        /\ server' \in {"up", "closing", "stopped", "released", "exited", server}
        /\ signalled' \in BOOLEAN
        /\ storeOpen' \in BOOLEAN
    BY <1>1 DEF Listen, ListenFails, Signal, ShutdownStep, CloseListener, ServeReturns,
       CloseStore, Exit, SetServer
  <2>2. ServeTypeOK'
    BY <2>1 DEF invokeVars, requestVars, InvokeTypeOK, InEmit
  <2>3. /\ ClientSharedOnce'
        /\ \A c \in Calls : ClientFits(c)' /\ BodyFits(c)' /\ LimitFits(c)'
    BY <2>1 DEF invokeVars, requestVars, ClientSharedOnce, ClientFits, BodyFits, LimitFits
  <2>. QED BY <2>2, <2>3
<1>2. ASSUME NEW c \in Calls, Disconnect(c) PROVE ServeInv'
  <2>1. UNCHANGED <<invokeVars, hostVars, http, asked, resp>> /\ conn' \in [Calls -> {"open", "gone"}]
    BY <1>2 DEF Disconnect
  <2>2. ServeTypeOK'
    BY <2>1 DEF invokeVars, hostVars, InvokeTypeOK, InEmit
  <2>3. /\ ClientSharedOnce'
        /\ \A d \in Calls : ClientFits(d)' /\ BodyFits(d)' /\ LimitFits(d)'
    BY <2>1 DEF invokeVars, hostVars, ClientSharedOnce, ClientFits, BodyFits, LimitFits
  <2>. QED BY <2>2, <2>3
<1>3. ASSUME NEW c \in Calls, Arrive(c) PROVE ServeInv'
  <2>1. /\ UNCHANGED <<invokeVars, hostVars, conn, resp>>
        /\ http[c] = "none" /\ http' = [http EXCEPT ![c] = "client"]
        /\ asked' \in [Calls -> Asked \union {Unasked}]
        /\ \A d \in Calls : d # c => asked'[d] = asked[d]
    BY <1>3 DEF Arrive
  <2>2. pc[c] = "idle"
    BY <2>1 DEF ClientFits
  <2>3. ServeTypeOK'
    BY <2>1 DEF invokeVars, hostVars, InvokeTypeOK, InEmit
  <2>4. ClientSharedOnce' /\ \A d \in Calls : ClientFits(d)'
    BY <2>1, <2>2 DEF invokeVars, hostVars, ClientSharedOnce, ClientFits
  <2>5. \A d \in Calls : BodyFits(d)' /\ LimitFits(d)'
    BY <2>1, <2>2 DEF invokeVars, BodyFits, LimitFits
  <2>. QED BY <2>3, <2>4, <2>5
<1>. QED BY <1>1, <1>2, <1>3

(* A step of one request: the other requests keep what concerns them. *)
LEMMA RequestFrame ==
    ASSUME ServeInv, NEW c \in Calls, RequestStep(c), NEW d \in Calls, d # c
    PROVE  /\ http'[d] = http[d] /\ resp'[d] = resp[d] /\ asked'[d] = asked[d]
           /\ pc'[d] = pc[d] /\ rows'[d] = rows[d] /\ run'[d] = run[d]
           /\ result'[d] = result[d]
<1> USE DEF ServeInv, ServeTypeOK, InvokeTypeOK, hostVars, requestVars, invokeVars
<1>1. CASE StartBuild(c) \/ BuildEnds(c) \/ UseClient(c)
    BY <1>1 DEF StartBuild, BuildEnds, UseClient
<1>2. CASE ClientError(c) \/ Respond(c)
    BY <1>2 DEF ClientError, Respond, WriteErr
<1>3. CASE ServeBind(c) \/ ServeHandler(c)
    BY <1>3 DEF ServeBind, ServeHandler, BindFails, Bind, Emit, Return
<1>4. CASE ServeTee(c) \/ ServeFlush(c)
    BY <1>4 DEF ServeTee, ServeFlush, Tee, Flush
<1>5. CASE ServeAccept(c) \/ ServeRefuse(c)
    BY <1>5 DEF ServeAccept, ServeRefuse, Accept, Refuse
<1>. QED BY <1>1, <1>2, <1>3, <1>4, <1>5 DEF RequestStep

(* What a step of a request does to the response. *)
LEMMA RespType ==
    ASSUME ServeTypeOK, NEW c \in Calls
    PROVE  /\ resp[c].status \in {"none", "200", "error"}
           /\ resp[c].wrote \in BOOLEAN
           /\ resp[c].errBody \in BOOLEAN
BY DEF ServeTypeOK, Responses

LEMMA AcceptResp ==
    ASSUME ServeTypeOK, NEW c \in Calls, ServeAccept(c)
    PROVE  /\ resp' \in [Calls -> Responses]
           /\ resp'[c].status = "200" /\ resp'[c].wrote /\ resp'[c].errBody = resp[c].errBody
BY Zenon DEF ServeTypeOK, Responses, ServeAccept

LEMMA RefuseResp ==
    ASSUME ServeTypeOK, NEW c \in Calls, ServeRefuse(c)
    PROVE  /\ resp' \in [Calls -> Responses]
           /\ resp'[c].status = resp[c].status /\ resp'[c].wrote
           /\ resp'[c].errBody = resp[c].errBody
BY DEF ServeTypeOK, Responses, ServeRefuse

LEMMA WriteErrResp ==
    ASSUME ServeTypeOK, NEW c \in Calls, WriteErr(c)
    PROVE  /\ resp' \in [Calls -> Responses]
           /\ resp'[c].status = IF resp[c].status = "none" THEN "error" ELSE resp[c].status
           /\ resp'[c].wrote = resp[c].wrote
           /\ resp'[c].errBody
BY DEF ServeTypeOK, Responses, WriteErr

(* The first steps of a request, that deal with the shared client. *)
LEMMA ClientStepInv ==
    ASSUME ServeInv, NEW c \in Calls,
           StartBuild(c) \/ BuildEnds(c) \/ UseClient(c) \/ ClientError(c)
    PROVE  ServeInv'
<1> USE DEF ServeInv, ServeTypeOK
<1>1. /\ UNCHANGED <<invokeVars, server, signalled, storeOpen, conn, asked>>
      /\ http[c] \in {"client", "building"}
      /\ http' \in [Calls -> {"none", "client", "building", "invoke", "answered"}]
      /\ pc[c] = "idle" /\ rows[c] = <<>>
      /\ \A d \in Calls : d # c => http'[d] = http[d] /\ resp'[d] = resp[d]
  <2>1. http[c] \in {"client", "building"}
    BY DEF StartBuild, BuildEnds, UseClient, ClientError
  <2>2. pc[c] = "idle" /\ rows[c] = <<>>
    BY <2>1 DEF ClientFits, BodyFits, NoResponse
  <2>3. \A d \in Calls : d # c => http'[d] = http[d] /\ resp'[d] = resp[d]
    BY RequestFrame DEF RequestStep
  <2>4. /\ UNCHANGED <<invokeVars, server, signalled, storeOpen, conn, asked>>
        /\ http' \in [Calls -> {"none", "client", "building", "invoke", "answered"}]
    BY DEF StartBuild, BuildEnds, UseClient, ClientError, hostVars
  <2>. QED BY <2>1, <2>2, <2>3, <2>4
<1>2. InvokeTypeOK' /\ \A d \in Calls : LimitFits(d)'
    BY <1>1 DEF invokeVars, InvokeTypeOK, InEmit, LimitFits
<1>3. \A d \in Calls : d # c => BodyFits(d)'
    BY <1>1 DEF invokeVars, BodyFits
<1>4. CASE StartBuild(c)
  <2>1. /\ client = "unbuilt" /\ client' = "building" /\ UNCHANGED resp
        /\ http[c] = "client" /\ http'[c] = "building"
    BY <1>4 DEF StartBuild
  <2>2. ClientSharedOnce' /\ \A d \in Calls : ClientFits(d)'
    BY <1>1, <2>1 DEF invokeVars, ClientSharedOnce, ClientFits
  <2>3. BodyFits(c)'
    BY <1>1, <2>1 DEF invokeVars, BodyFits
  <2>. QED BY <1>1, <1>2, <1>3, <2>1, <2>2, <2>3
<1>5. CASE BuildEnds(c)
  <2>1. /\ client' \in {"ready", "failed"} /\ UNCHANGED resp
        /\ http[c] = "building" /\ http'[c] = "client"
    BY <1>5 DEF BuildEnds
  <2>2. ClientSharedOnce' /\ \A d \in Calls : ClientFits(d)'
    BY <1>1, <2>1 DEF invokeVars, ClientSharedOnce, ClientFits
  <2>3. BodyFits(c)'
    BY <1>1, <2>1 DEF invokeVars, BodyFits
  <2>. QED BY <1>1, <1>2, <1>3, <2>1, <2>2, <2>3
<1>6. CASE UseClient(c)
  <2>1. /\ client = "ready" /\ UNCHANGED <<client, resp>>
        /\ http[c] = "client" /\ http'[c] = "invoke"
    BY <1>6 DEF UseClient, hostVars
  <2>2. ClientSharedOnce' /\ \A d \in Calls : ClientFits(d)'
    BY <1>1, <2>1 DEF invokeVars, ClientSharedOnce, ClientFits
  <2>3. BodyFits(c)'
    BY <1>1, <2>1 DEF invokeVars, BodyFits, NoResponse
  <2>. QED BY <1>1, <1>2, <1>3, <2>1, <2>2, <2>3
<1>7. CASE ClientError(c)
  <2>1. /\ client = "failed" /\ UNCHANGED client /\ WriteErr(c)
        /\ http[c] = "client" /\ http'[c] = "answered"
    BY <1>7 DEF ClientError, hostVars
  <2>2. ClientSharedOnce' /\ \A d \in Calls : ClientFits(d)'
    BY <1>1, <2>1 DEF invokeVars, ClientSharedOnce, ClientFits
  <2>3. resp[c] = NoResponse
    BY <2>1 DEF BodyFits
  <2>4. resp' \in [Calls -> Responses] /\ BodyFits(c)'
    BY <1>1, <2>1, <2>3, WriteErrResp DEF invokeVars, BodyFits, NoResponse
  <2>. QED BY <1>1, <1>2, <1>3, <2>1, <2>2, <2>4
<1>. QED BY <1>4, <1>5, <1>6, <1>7

(* The steps of Invoke in a request, and the response. *)
LEMMA InvokeStepInv ==
    ASSUME ServeInv, InvokeInv, NEW c \in Calls,
           \/ ServeBind(c) \/ ServeHandler(c) \/ ServeTee(c) \/ ServeAccept(c)
           \/ ServeRefuse(c) \/ ServeFlush(c) \/ Respond(c)
    PROVE  ServeInv'
<1> USE DEF ServeInv, ServeTypeOK
<1>1. /\ UNCHANGED <<hostVars, conn, asked>> /\ http[c] = "invoke"
      /\ http' \in [Calls -> {"none", "client", "building", "invoke", "answered"}]
      /\ http'[c] \in {"invoke", "answered"}
      /\ client = "ready"
  <2>1. http[c] = "invoke"
    BY DEF ServeBind, ServeHandler, ServeTee, ServeAccept, ServeRefuse, ServeFlush, Respond, Invoking
  <2>2. /\ UNCHANGED <<hostVars, conn, asked>>
        /\ http' = http \/ http' = [http EXCEPT ![c] = "answered"]
    BY DEF ServeBind, ServeHandler, ServeTee, ServeAccept, ServeRefuse, ServeFlush, Respond,
       requestVars
  <2>. QED BY <2>1, <2>2 DEF ClientFits
<1>2. InvokeTypeOK'
  <2>1. AskedOK /\ ServeNext
    BY DEF AskedOK, ServeNext, RequestStep
  <2>. QED BY <2>1, ServeStepRuns, StepType DEF InvokeNext, invokeVars, InvokeTypeOK, InEmit
<1>3. \A d \in Calls : d # c => http'[d] = http[d] /\ ClientFits(d)' /\ BodyFits(d)' /\ LimitFits(d)'
  <2> SUFFICES ASSUME NEW d \in Calls, d # c
               PROVE  http'[d] = http[d] /\ ClientFits(d)' /\ BodyFits(d)' /\ LimitFits(d)'
    OBVIOUS
  <2>1. /\ http'[d] = http[d] /\ resp'[d] = resp[d] /\ asked'[d] = asked[d]
        /\ pc'[d] = pc[d] /\ rows'[d] = rows[d] /\ run'[d] = run[d] /\ result'[d] = result[d]
    BY RequestFrame DEF RequestStep
  <2>. QED BY <1>1, <2>1 DEF hostVars, ClientFits, BodyFits, LimitFits
<1>4. ClientSharedOnce'
    BY <1>1, <1>3 DEF hostVars, ClientSharedOnce
<1>5. ClientFits(c)'
    BY <1>1 DEF hostVars, ClientFits
<1>6. resp' \in [Calls -> Responses] /\ BodyFits(c)' /\ LimitFits(c)'
  <2>1. CASE ServeBind(c)
    BY <1>1, <2>1 DEF ServeBind, BindFails, Bind, hostVars, requestVars, InvokeTypeOK,
       BodyFits, LimitFits
  <2>2. CASE ServeHandler(c) \/ ServeTee(c) \/ ServeFlush(c)
    <3>1. /\ pc[c] \in {"handler", "tee", "flush"}
          /\ UNCHANGED <<resp, http, asked, run, rows>>
          /\ result[c] = "nil"
      BY <2>2 DEF ServeHandler, ServeTee, ServeFlush, Emit, Return, Tee, Flush, requestVars,
         InvokeInv, ResultFits
    <3>. QED BY <3>1 DEF BodyFits, LimitFits
  <2>3. CASE ServeAccept(c)
    <3>1. /\ pc[c] = "sink" /\ UNCHANGED <<http, asked, run, result>>
      BY <2>3 DEF ServeAccept, Accept, requestVars
    <3>2. LimitFits(c)'
      BY <3>1, <2>3 DEF LimitFits, InvokeInv, ResultFits
    <3>. QED BY <1>1, <2>3, <3>1, <3>2, AcceptResp DEF BodyFits
  <2>4. CASE ServeRefuse(c)
    <3>1. /\ pc[c] = "sink" /\ UNCHANGED <<http, asked, run, result, rows>>
      BY <2>4 DEF ServeRefuse, Refuse, requestVars
    <3>2. LimitFits(c)'
      BY <3>1, <2>4 DEF LimitFits, InvokeInv, ResultFits
    <3>. QED BY <1>1, <2>4, <3>1, <3>2, RefuseResp DEF BodyFits
  <2>5. CASE Respond(c)
    <3>1. /\ UNCHANGED <<asked, run, result, rows, pc>> /\ http'[c] = "answered"
      BY <2>5 DEF Respond, invokeVars
    <3>2. LimitFits(c)'
      BY <3>1 DEF LimitFits
    <3>3. CASE WriteErr(c) /\ ~resp[c].wrote
      BY <1>1, <3>1, <3>2, <3>3, WriteErrResp DEF BodyFits
    <3>4. CASE resp' = [resp EXCEPT ![c].status = "200"]
      <4>1. /\ resp' \in [Calls -> Responses] /\ resp'[c].status = "200"
            /\ resp'[c].wrote = resp[c].wrote /\ resp'[c].errBody = resp[c].errBody
        BY Zenon, <3>4 DEF Responses
      <4>. QED BY <1>1, <3>1, <3>2, <4>1 DEF BodyFits
    <3>. QED BY <2>5, <3>3, <3>4 DEF Respond
  <2>. QED BY <2>1, <2>2, <2>3, <2>4, <2>5
<1>. QED BY <1>1, <1>2, <1>3, <1>4, <1>5, <1>6 DEF hostVars

LEMMA ServeStutterInv ==
    ASSUME ServeInv, UNCHANGED serveVars
    PROVE  ServeInv'
<1>1. UNCHANGED <<invokeVars, hostVars, requestVars>>
    BY DEF serveVars
<1>2. ServeTypeOK'
    BY <1>1 DEF ServeInv, ServeTypeOK, invokeVars, hostVars, requestVars, InvokeTypeOK, InEmit
<1>3. /\ ClientSharedOnce'
      /\ \A c \in Calls : ClientFits(c)' /\ BodyFits(c)' /\ LimitFits(c)'
    BY <1>1 DEF ServeInv, invokeVars, hostVars, requestVars, ClientSharedOnce, ClientFits,
       BodyFits, LimitFits
<1>. QED BY <1>2, <1>3 DEF ServeInv

(* The server's invariant: who builds the client and who may use it, what   *)
(* each response has become, and under which limit each request runs.       *)
THEOREM ServeCorrect == ServeSpec => []ServeInv
<1>1. ServeInit => ServeInv
    BY ServeInitInv
<1>2. ServeInv /\ InvokeInv /\ [ServeNext]_serveVars => ServeInv'
  <2> SUFFICES ASSUME ServeInv, InvokeInv, [ServeNext]_serveVars PROVE ServeInv'
    OBVIOUS
  <2>1. CASE \/ Listen \/ ListenFails \/ Signal \/ ShutdownStep
             \/ \E c \in Calls : Arrive(c) \/ Disconnect(c)
    BY <2>1, HostStepInv
  <2>2. ASSUME NEW c \in Calls, RequestStep(c) PROVE ServeInv'
    <3>1. CASE StartBuild(c) \/ BuildEnds(c) \/ UseClient(c) \/ ClientError(c)
      BY <3>1, ClientStepInv
    <3>2. CASE \/ ServeBind(c) \/ ServeHandler(c) \/ ServeTee(c) \/ ServeAccept(c)
               \/ ServeRefuse(c) \/ ServeFlush(c) \/ Respond(c)
      BY <3>2, InvokeStepInv
    <3>. QED BY <2>2, <3>1, <3>2 DEF RequestStep
  <2>3. CASE UNCHANGED serveVars
    BY <2>3, ServeStutterInv
  <2>. QED BY <2>1, <2>2, <2>3 DEF ServeNext
<1>. QED BY <1>1, <1>2, ServeInvokeInv, PTL DEF ServeSpec

(* The client is built by one request at a time, the one the others wait    *)
(* for, and no handler runs before it is there (state.go:61-69).            *)
THEOREM ClientIsShared == ServeSpec => []ClientSharedOnce
<1>1. ServeInv => ClientSharedOnce
    BY DEF ServeInv
<1>. QED BY <1>1, ServeCorrect, PTL

(* No response mixes rows with an error object or an error status, however  *)
(* requests interleave and peers disappear (surface_api.go:119-123).        *)
THEOREM BodyHolds == ServeSpec => []BodyIsRowsOrError
<1>1. ServeInv => BodyIsRowsOrError
  <2> SUFFICES ASSUME ServeInv, NEW c \in Calls
               PROVE  /\ resp[c].errBody => resp[c].status = "error" /\ rows[c] = <<>>
                      /\ rows[c] # <<>> => resp[c].status = "200"
                      /\ resp[c].status = "error" => resp[c].errBody
    BY DEF BodyIsRowsOrError
  <2>1. http[c] \in {"none", "client", "building", "invoke", "answered"} /\ BodyFits(c)
    BY DEF ServeInv, ServeTypeOK
  <2>2. CASE http[c] \in {"none", "client", "building"}
    BY <2>1, <2>2 DEF BodyFits, NoResponse
  <2>3. CASE http[c] = "invoke"
    BY <2>1, <2>3 DEF BodyFits
  <2>4. CASE http[c] = "answered"
    BY <2>1, <2>4 DEF BodyFits
  <2>. QED BY <2>1, <2>2, <2>3, <2>4
<1>. QED BY <1>1, ServeCorrect, PTL

(* The ?limit of a request, or serve's own limit without one, bounds the    *)
(* rows of its answer (surface_api.go:102-107).                             *)
THEOREM AskedLimitServed == ServeSpec => []AskedLimitHolds
<1>1. ServeInv /\ InvokeInv => AskedLimitHolds
  <2> SUFFICES ASSUME ServeInv, InvokeInv, NEW c \in Calls, Disciplined(c),
                      LimitOf(asked[c]) > 0
               PROVE  Len(rows[c]) <= LimitOf(asked[c])
    BY DEF AskedLimitHolds
  <2>1. LimitFits(c) /\ CountsFit(c) /\ ResultFits(c)
    BY DEF ServeInv, InvokeInv
  <2>2. CASE pc[c] = "idle" \/ result[c] = "usage"
    <3>1. rows[c] = <<>>
      BY <2>1, <2>2 DEF ResultFits
    <3>2. LimitOf(asked[c]) \in Int
      BY LimitOfType, InvokeAssumption DEF ServeInv, ServeTypeOK
    <3>. QED BY <3>1, <3>2
  <2>3. CASE run[c].limit = LimitOf(asked[c])
    BY <2>1, <2>3 DEF CountsFit
  <2>. QED BY <2>1, <2>2, <2>3 DEF LimitFits
<1>. QED BY <1>1, ServeCorrect, ServeInvokeInv, PTL
=============================================================================
