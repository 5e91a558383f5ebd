------------------------------ MODULE McpServer -----------------------------
(***************************************************************************)
(* The mcp subcommand (kit/surface_mcp.go): one loop that decodes JSON-RPC *)
(* messages from stdin, runs a tools/call through Invoke with a sink that  *)
(* collects the records, and encodes one reply to stdout before it reads   *)
(* on.  It ends at the end of the input, after which the post-run hook     *)
(* closes the store, or at input that is not JSON, after which it does     *)
(* not.  The k-th message is the invocation k.                             *)
(***************************************************************************)
EXTENDS Invoke

CONSTANTS MaxMessages,   \* bound: the messages the peer sends
          GlobalLimit,   \* st.Globals.Limit: the -n that mcp was started with
          Asked,         \* the values of a call's limit argument, Unasked among them
          Unasked,       \* the call has no limit argument
          BadRecords,    \* the records encoding/json cannot encode
          HasStore       \* whether --db was given

ASSUME McpAssumption ==
    /\ MaxMessages \in Nat
    /\ Calls = 1..MaxMessages
    /\ Unasked \notin Int
    /\ Asked \subseteq Int \union {Unasked}
    /\ GlobalLimit \in LimitValues
    /\ BadRecords \subseteq Nat
    /\ HasStore \in BOOLEAN

(* initialize, tools/list and ping are "meta"; a tools/call of a tool that *)
(* does not exist or with params of the wrong shape is a "badCall".        *)
Methods == {"meta", "initialized", "call", "badCall", "other"}
Messages == {m \in [method : Methods, id : BOOLEAN, ask : Asked \union {Unasked}] :
                m.method # "call" => m.ask = Unasked}
Replies == [to : Calls, kind : {"result", "toolError", "rpcError"}]

VARIABLES mode,       \* what the server is doing
          stdin,      \* the input stream
          sent,       \* the messages the peer has written
          read,       \* how many of them the server has decoded
          replies,    \* what it has written to stdout
          client,     \* State.clientOnce, with the outcome it caches
          storeOpen,  \* the record store takes records
          signalled   \* the run's context is cancelled

loopVars == <<mode, stdin, sent, read, replies, client, storeOpen, signalled>>
mcpVars == <<invokeVars, loopVars>>

McpTypeOK ==
    /\ InvokeTypeOK
    /\ mode \in {"reading", "client", "invoke", "ended", "failed", "released", "exited"}
    /\ stdin \in {"open", "eof", "garbage"}
    /\ sent \in Seq(Messages) /\ Len(sent) <= MaxMessages
    /\ read \in 0..Len(sent)
    /\ replies \in Seq(Replies)
    /\ client \in {"unbuilt", "ready", "failed"}
    /\ storeOpen \in BOOLEAN
    /\ signalled \in BOOLEAN

McpInit ==
    /\ InvokeInit
    /\ mode = "reading" /\ stdin = "open" /\ sent = <<>> /\ read = 0 /\ replies = <<>>
    /\ client \in {"unbuilt", "ready"}
    /\ storeOpen = HasStore
    /\ signalled = FALSE
----------------------------------------------------------------------------
(* The peer writes a message, closes the stream, or writes what is no JSON. *)
Send == /\ mode # "exited" /\ stdin = "open" /\ Len(sent) < MaxMessages
        /\ \E m \in Messages : sent' = Append(sent, m)
        /\ UNCHANGED <<invokeVars, mode, stdin, read, replies, client, storeOpen, signalled>>

EndInput == /\ mode # "exited" /\ stdin = "open"
            /\ stdin' \in {"eof", "garbage"}
            /\ UNCHANGED <<invokeVars, mode, sent, read, replies, client, storeOpen, signalled>>

Signal == /\ mode # "exited" /\ ~signalled
          /\ signalled' = TRUE
          /\ UNCHANGED <<invokeVars, mode, stdin, sent, read, replies, client, storeOpen>>

(* A slip: a reply written twice. *)
WriteTwice(kind, encodable) ==
    LET reply == [to |-> read', kind |-> kind]
    IN  replies' = IF encodable THEN replies \o <<reply, reply>> ELSE replies

(* enc.Encode: a reply that cannot be encoded is dropped with its error. *)
Write(kind, encodable) ==
    replies' = IF encodable THEN Append(replies, [to |-> read', kind |-> kind]) ELSE replies

Decode(methods) == /\ mode = "reading" /\ read < Len(sent)
                   /\ sent[read + 1].method \in methods
                   /\ read' = read + 1
                   /\ UNCHANGED <<invokeVars, stdin, sent, client, storeOpen, signalled>>

(* The methods answered at once, whether or not the message has an id. *)
HandleMeta == /\ Decode({"meta", "badCall"})
              /\ Write(IF sent[read'].method = "meta" THEN "result" ELSE "rpcError", TRUE)
              /\ UNCHANGED mode

(* A slip: unknown methods are passed over like notifications. *)
HandleOtherSilently == /\ Decode({"initialized", "other"})
                       /\ UNCHANGED <<mode, replies>>

(* A notification, or a method the server does not know. *)
HandleOther == /\ Decode({"initialized", "other"})
               /\ IF sent[read'].method = "other" /\ sent[read'].id
                  THEN Write("rpcError", TRUE) ELSE UNCHANGED replies
               /\ UNCHANGED mode

HandleCall == /\ Decode({"call"})
              /\ mode' = "client"
              /\ UNCHANGED replies

(* State.Client, once per run; its error answers this call and every later. *)
GetClient ==
    /\ mode = "client"
    /\ client' \in IF client = "unbuilt" THEN {"ready", "failed"} ELSE {client}
    /\ read' = read
    /\ IF client' = "ready"
       THEN mode' = "invoke" /\ UNCHANGED replies
       ELSE mode' = "reading" /\ Write("toolError", TRUE)
    /\ UNCHANGED <<invokeVars, stdin, sent, storeOpen, signalled>>

(* The limit is the run's own: the limit argument only reaches the input.   *)
(* collectSink takes every record and its Flush does nothing.               *)
CallStep ==
    /\ mode = "invoke"
    /\ \/ BindFails(read)
       \/ \E s \in BOOLEAN, style \in HandlerStyles :
              Bind(read, [limit |-> GlobalLimit, single |-> s, teed |-> HasStore, style |-> style])
       \/ Emit(read)
       \/ Tee(read, FALSE)
       \/ Tee(read, TRUE) /\ storeOpen /\ produced[read] \notin BadRecords
       \/ Accept(read)
       \/ Return(read)
       \/ Flush(read, TRUE)
    /\ UNCHANGED loopVars

Encodable(c) == \A k \in 1..Len(rows[c]) : rows[c][k] \notin BadRecords

Answer ==
    /\ mode = "invoke" /\ pc[read] = "done"
    /\ read' = read
    /\ IF result[read] \in {"nil", "noResults"} THEN Write("result", Encodable(read))
       ELSE Write("toolError", TRUE)
    /\ mode' = "reading"
    /\ UNCHANGED <<invokeVars, stdin, sent, client, storeOpen, signalled>>

(* The decoder meets the end of the input: the command returns nil and the  *)
(* store is closed; at anything else it returns the error and it is not.    *)
SetMode(from, to) == /\ mode = from /\ mode' = to
                     /\ UNCHANGED <<invokeVars, stdin, sent, read, replies, client, signalled>>

(* Slips: the end of the input overtakes what came before it; a decode     *)
(* error is passed over instead of ending the loop.                        *)
InputEndsAtOnce == /\ stdin # "open"
                   /\ SetMode("reading", IF stdin = "eof" THEN "ended" ELSE "failed")
                   /\ UNCHANGED storeOpen
InputEndsAtEof == /\ read = Len(sent) /\ stdin = "eof"
                  /\ SetMode("reading", "ended")
                  /\ UNCHANGED storeOpen

InputEnds == /\ read = Len(sent) /\ stdin # "open"
             /\ SetMode("reading", IF stdin = "eof" THEN "ended" ELSE "failed")
             /\ UNCHANGED storeOpen

CloseStore == SetMode("ended", "released") /\ storeOpen' = FALSE

Exit == /\ SetMode("released", "exited") \/ SetMode("failed", "exited")
        /\ UNCHANGED storeOpen

ServerStep == HandleMeta \/ HandleOther \/ HandleCall \/ GetClient \/ CallStep \/ Answer
              \/ InputEnds \/ CloseStore \/ Exit

McpNext == Send \/ EndInput \/ Signal \/ ServerStep

McpSpec == McpInit /\ [][McpNext]_mcpVars

(* The loop is one goroutine, and handlers, bounded by MaxEmits, come back. *)
FairMcpSpec == McpSpec /\ WF_mcpVars(ServerStep)
----------------------------------------------------------------------------
(* Every tools/call runs Invoke as Invoke is specified. *)
RunsInvoke == InvokeSpec

(* The k-th message has been dealt with. *)
Handled(k) == k < read \/ (k = read /\ mode \notin {"client", "invoke"})

Answered(k) == \E i \in 1..Len(replies) : replies[i].to = k

(* Replies come in the order of the messages, none has two, and none is    *)
(* there before its message has been handled.                              *)
RepliesInOrder ==
    /\ \A i, j \in 1..Len(replies) : i < j => replies[i].to < replies[j].to
    /\ \A i \in 1..Len(replies) : Handled(replies[i].to)

(* A call, and any other request with an id, gets its reply before the     *)
(* loop reads on; the one exception is a result encoding/json cannot       *)
(* encode, which the loop drops (surface_mcp.go:79).                       *)
AnsweredUnlessUnencodable == \A k \in 1..read :
    /\ Handled(k)
    /\ sent[k].method \in {"meta", "call", "badCall"} \/ (sent[k].id /\ sent[k].method = "other")
    => Answered(k) \/ ~Encodable(k)

(* Calls do not overlap: one starts only after every earlier one is done,  *)
(* so the store sees one upsert at a time.                                 *)
CallsAreSerial == \A j, k \in Calls :
    j < k /\ pc[k] # "idle" => pc[j] \in {"idle", "done"}

(* The loop keeps its turns: one call at a time, one reply to each message, *)
(* in their order (surface_mcp.go:82-114).                                   *)
McpInv == McpTypeOK /\ RepliesInOrder /\ CallsAreSerial

(* Closing stdin loses nothing: whatever was sent before is handled, and   *)
(* the store is closed, before the process exits.                          *)
DrainedBeforeExit == mode = "exited" /\ stdin = "eof" =>
    /\ \A k \in 1..Len(sent) : k <= read /\ Handled(k)
    /\ ~storeOpen
    /\ \A c \in Calls : pc[c] \in {"idle", "done"}

(* The end of the input ends the server. *)
EofEndsServer == (stdin # "open") ~> (mode = "exited")

(* run.go:29-30 says the mcp surface watches the context, so that a signal *)
(* shuts it down.  The loop never looks at the context.                    *)
SignalEndsServer == signalled ~> (mode = "exited")
=============================================================================
