---------------------------- MODULE SurfaceProofs ----------------------------
(* Theorems about the surfaces: McpServer, whose every tools/call runs Invoke *)
(* as it is specified, and Surfaces, that is what the names of the registered *)
(* operations lead to and what the arguments of a call are bound to.          *)
EXTENDS McpServer, Surfaces, InvokeProofs, Induction

(* ---- The message loop --------------------------------------------------- *)

(* A step of the server is a step of Invoke, or one Invoke does not see. *)
LEMMA McpStepRuns ==
    ASSUME read \in Calls \/ mode # "invoke", McpNext
    PROVE  [InvokeNext]_invokeVars
<1>1. CASE CallStep
  <2>1. read \in Calls
    BY <1>1 DEF CallStep
  <2>2. ASSUME NEW s \in BOOLEAN, NEW style \in HandlerStyles,
               Bind(read, [limit |-> GlobalLimit, single |-> s, teed |-> HasStore,
                           style |-> style])
        PROVE  InvokeNext
    <3>1. [limit |-> GlobalLimit, single |-> s, teed |-> HasStore, style |-> style]
            \in RunContexts
      BY McpAssumption DEF RunContexts
    <3>. QED BY <2>1, <2>2, <3>1 DEF InvokeNext, InvokeStep
  <2>3. CASE \/ BindFails(read) \/ Emit(read) \/ Accept(read) \/ Return(read)
             \/ \E kept \in BOOLEAN : Tee(read, kept)
             \/ \E ok \in BOOLEAN : Flush(read, ok)
    BY <2>1, <2>3 DEF InvokeNext, InvokeStep
  <2>. QED BY <1>1, <2>2, <2>3 DEF CallStep
<1>2. CASE ~CallStep
    BY <1>2 DEF McpNext, ServerStep, Send, EndInput, Signal, HandleMeta, HandleOther, HandleCall,
       Decode, GetClient, Answer, InputEnds, CloseStore, Exit, SetMode
<1>. QED BY <1>1, <1>2

(* The invariant behind it: the call that runs is the message read last,   *)
(* and what comes after it has not begun.                                  *)
TurnsFit == /\ read \in 0..MaxMessages
            /\ sent \in Seq(Messages) /\ Len(sent) <= MaxMessages /\ read <= Len(sent)
            /\ mode \in {"client", "invoke"} => read > 0
            /\ \A c \in Calls : c > read => pc[c] = "idle"
            /\ \A c \in Calls : c < read => pc[c] \in {"idle", "done"}
            /\ mode = "client" => pc[read] = "idle"
            /\ mode # "invoke" /\ read > 0 => pc[read] \in {"idle", "done"}
            /\ pc \in [Calls -> Phases]

(* Before the first message nothing has been called. *)
LEMMA TurnsInit == McpInit => TurnsFit
BY McpAssumption DEF McpInit, InvokeInit, TurnsFit, Phases

(* A step is of the message read last, or reads the next. *)
LEMMA TurnsStep ==
    ASSUME TurnsFit, [McpNext]_mcpVars
    PROVE  TurnsFit'
<1> USE McpAssumption DEF TurnsFit
<1>1. CASE Send
    BY <1>1 DEF Send, invokeVars
<1>2. CASE EndInput \/ Signal \/ UNCHANGED mcpVars
    BY <1>2 DEF EndInput, Signal, invokeVars, loopVars, mcpVars
<1>3. CASE HandleMeta \/ HandleOther \/ HandleCall
  <2>1. /\ mode = "reading" /\ read' = read + 1 /\ read + 1 <= Len(sent)
        /\ UNCHANGED <<pc, sent>>
        /\ mode' \in {mode, "client"}
    <3>1. ASSUME NEW methods, Decode(methods)
          PROVE  /\ mode = "reading" /\ read' = read + 1 /\ read + 1 <= Len(sent)
                 /\ UNCHANGED <<pc, sent>>
      <4>1. read < Len(sent) /\ Len(sent) \in Nat
        BY <3>1 DEF Decode
      <4>. QED BY <3>1, <4>1 DEF Decode, invokeVars
    <3>2. CASE HandleMeta
      BY <3>1, <3>2 DEF HandleMeta
    <3>3. CASE HandleOther
      BY <3>1, <3>3 DEF HandleOther
    <3>4. CASE HandleCall
      BY <3>1, <3>4 DEF HandleCall
    <3>. QED BY <1>3, <3>2, <3>3, <3>4
  <2>. QED BY <2>1
<1>4. CASE GetClient
    BY <1>4 DEF GetClient, invokeVars
<1>5. CASE CallStep
  <2>1. /\ mode = "invoke" /\ UNCHANGED <<mode, read, sent>>
        /\ pc' \in [Calls -> Phases]
        /\ \A c \in Calls : c # read => pc'[c] = pc[c]
    BY <1>5 DEF CallStep, loopVars, BindFails, Bind, Emit, Tee, Accept, Return, Flush, Phases
  <2>. QED BY <2>1
<1>6. CASE Answer
    BY <1>6 DEF Answer, invokeVars
<1>7. CASE InputEnds \/ CloseStore \/ Exit
  <2>1. UNCHANGED <<pc, read, sent>> /\ mode \notin {"client", "invoke"}
        /\ mode' \notin {"client", "invoke"}
    BY <1>7 DEF InputEnds, CloseStore, Exit, SetMode, invokeVars
  <2>. QED BY <2>1
<1>. QED BY <1>1, <1>2, <1>3, <1>4, <1>5, <1>6, <1>7 DEF McpNext, ServerStep

(* Every tools/call is an Invoke. *)
THEOREM McpRunsInvoke == McpSpec => RunsInvoke
<1>1. McpInit => InvokeInit
    BY DEF McpInit
<1>2. TurnsFit /\ [McpNext]_mcpVars => [InvokeNext]_invokeVars
  <2> SUFFICES ASSUME TurnsFit, [McpNext]_mcpVars PROVE [InvokeNext]_invokeVars
      OBVIOUS
  <2>1. read \in Calls \/ mode # "invoke"
      BY McpAssumption DEF TurnsFit
  <2>. QED BY <2>1, McpStepRuns DEF mcpVars
<1>. QED BY <1>1, <1>2, TurnsInit, TurnsStep, PTL DEF McpSpec, RunsInvoke, InvokeSpec

(* So a tool's result is exactly what its handler emitted, up to the -n    *)
(* that mcp was started with.                                              *)
THEOREM McpDeliveryHolds == McpSpec => []DeliveryIsAccounted
BY McpRunsInvoke, DeliveryHolds, PTL DEF RunsInvoke

(* Calls do not overlap: the store sees one upsert at a time.              *)
THEOREM CallsSerial == McpSpec => []CallsAreSerial
<1>1. ASSUME TurnsFit PROVE CallsAreSerial
    BY <1>1, McpAssumption DEF TurnsFit, CallsAreSerial
<1>. QED BY <1>1, TurnsInit, TurnsStep, PTL DEF McpSpec
----------------------------------------------------------------------------
(* What each step does to the input, the replies and the other calls.      *)
DecodeOne == mode = "reading" /\ read' = read + 1 /\ read + 1 <= Len(sent)

(* Decoding a message moves the place in the input by one and nothing else. *)
LEMMA DecodeReads ==
    ASSUME TurnsFit, NEW methods, Decode(methods)
    PROVE  /\ DecodeOne
           /\ sent[read + 1].method \in methods
           /\ UNCHANGED <<invokeVars, stdin, sent, client, storeOpen, signalled>>
<1>1. read < Len(sent) /\ read \in Int /\ Len(sent) \in Nat
    BY DEF Decode, TurnsFit
<1>. QED BY <1>1 DEF Decode, DecodeOne

(* A reply is put behind all the others.                                   *)
LEMMA WriteAppends ==
    ASSUME McpTypeOK, read' \in Calls, NEW kind \in {"result", "toolError", "rpcError"},
           NEW encodable \in BOOLEAN, Write(kind, encodable)
    PROVE  /\ replies' \in Seq(Replies)
           /\ \A i \in 1..Len(replies) : i \in 1..Len(replies') /\ replies'[i] = replies[i]
           /\ \/ ~encodable /\ replies' = replies
              \/ /\ encodable
                 /\ Len(replies') = Len(replies) + 1
                 /\ replies'[Len(replies) + 1].to = read'
<1>1. replies \in Seq(Replies) /\ [to |-> read', kind |-> kind] \in Replies
    BY DEF McpTypeOK, Replies
<1>2. CASE encodable
  <2>1. replies' = Append(replies, [to |-> read', kind |-> kind])
      BY <1>2 DEF Write
  <2>2. /\ replies' \in Seq(Replies)
        /\ Len(replies') = Len(replies) + 1
        /\ \A i \in 1..Len(replies) : replies'[i] = replies[i]
        /\ replies'[Len(replies) + 1] = [to |-> read', kind |-> kind]
      BY <1>1, <2>1
  <2>3. \A i \in 1..Len(replies) : i \in 1..Len(replies')
      BY <1>1, <2>2
  <2>. QED BY <1>2, <2>2, <2>3
<1>3. CASE ~encodable
    BY <1>1, <1>3 DEF Write
<1>. QED BY <1>2, <1>3

(* The type invariant; that of Invoke comes with McpRunsInvoke.            *)
LEMMA McpTypeStep ==
    ASSUME McpTypeOK, TurnsFit, TurnsFit', InvokeTypeOK', [McpNext]_mcpVars
    PROVE  McpTypeOK'
<1> USE McpAssumption DEF McpTypeOK, TurnsFit
<1>. read' \in 0..Len(sent')
    OBVIOUS
<1>1. CASE Send \/ EndInput \/ Signal \/ UNCHANGED mcpVars
    BY <1>1 DEF Send, EndInput, Signal, mcpVars, loopVars
<1>2. CASE HandleMeta \/ HandleOther \/ HandleCall
  <2>1. ASSUME NEW methods, Decode(methods)
        PROVE  read' \in Calls /\ UNCHANGED <<stdin, sent, client, storeOpen, signalled>>
      BY <2>1, DecodeReads DEF DecodeOne
  <2>2. CASE HandleMeta
      BY <2>1, <2>2, WriteAppends DEF HandleMeta
  <2>3. CASE HandleOther
      BY <2>1, <2>3, WriteAppends DEF HandleOther
  <2>4. CASE HandleCall
      BY <2>1, <2>4 DEF HandleCall
  <2>. QED BY <1>2, <2>2, <2>3, <2>4
<1>3. CASE GetClient
  <2>1. read' \in Calls
      BY <1>3 DEF GetClient
  <2>. QED BY <1>3, <2>1, WriteAppends DEF GetClient
<1>4. CASE CallStep
    BY <1>4 DEF CallStep, loopVars
<1>5. CASE Answer
  <2>1. read' \in Calls /\ Encodable(read) \in BOOLEAN
      BY <1>5 DEF Answer, Encodable
  <2>. QED BY <1>5, <2>1, WriteAppends DEF Answer
<1>6. CASE InputEnds \/ CloseStore \/ Exit
    BY <1>6 DEF InputEnds, CloseStore, Exit, SetMode
<1>. QED BY <1>1, <1>2, <1>3, <1>4, <1>5, <1>6 DEF McpNext, ServerStep

(* Replies stay in order: what is written is for the message at hand, which *)
(* has had no reply before.                                                 *)
LEMMA RepliesStep ==
    ASSUME McpTypeOK, TurnsFit, RepliesInOrder, [McpNext]_mcpVars
    PROVE  RepliesInOrder'
<1>1. /\ read \in Int /\ Calls \subseteq Int /\ Len(replies) \in Nat
      /\ \A i \in 1..Len(replies) : replies[i].to \in Int
      /\ Encodable(read) \in BOOLEAN
  <2>1. Encodable(read) \in BOOLEAN
    BY DEF Encodable
  <2>2. read \in Int /\ Calls \subseteq Int
    BY McpAssumption DEF TurnsFit
  <2>3. replies \in Seq(Replies)
    BY DEF McpTypeOK
  <2>4. ASSUME NEW i \in 1..Len(replies) PROVE replies[i].to \in Int
    <3>1. replies[i] \in Replies
      BY <2>3
    <3>. QED BY <2>2, <3>1 DEF Replies
  <2>. QED BY <2>1, <2>2, <2>3, <2>4
<1>2. /\ \A i, j \in 1..Len(replies) : i < j => replies[i].to < replies[j].to
      /\ \A i \in 1..Len(replies) : replies[i].to <= read
      /\ mode \in {"client", "invoke"} => \A i \in 1..Len(replies) : replies[i].to < read
    BY <1>1 DEF RepliesInOrder, Handled
<1>3. ASSUME NEW kind \in {"result", "toolError", "rpcError"}, NEW encodable \in BOOLEAN,
             Write(kind, encodable), read' \in Calls, mode' = "reading",
             \A i \in 1..Len(replies) : replies[i].to < read'
      PROVE  RepliesInOrder'
  <2>1. /\ \A i \in 1..Len(replies) : replies'[i] = replies[i]
        /\ \/ replies' = replies
           \/ Len(replies') = Len(replies) + 1 /\ replies'[Len(replies) + 1].to = read'
    BY <1>3, WriteAppends
  <2>2. CASE replies' = replies
    BY <1>2, <1>3, <2>2 DEF RepliesInOrder, Handled
  <2>3. CASE Len(replies') = Len(replies) + 1 /\ replies'[Len(replies) + 1].to = read'
    <3>1. \A i \in 1..Len(replies') : i \in 1..Len(replies) \/ i = Len(replies) + 1
      BY <1>1, <2>3
    <3>2. \A i \in 1..Len(replies') : i \in 1..Len(replies) => replies'[i].to < read'
      BY <1>3, <2>1
    <3>3. (\A i, j \in 1..Len(replies) : i < j => replies[i].to < replies[j].to)'
      BY <1>1, <1>2, <2>1, <2>3, <3>1, <3>2
    <3>4. (\A i \in 1..Len(replies) : Handled(replies[i].to))'
      BY <1>3, <2>3, <3>1, <3>2 DEF Handled
    <3>. QED BY <3>3, <3>4 DEF RepliesInOrder
  <2>. QED BY <2>1, <2>2, <2>3
<1>4. ASSUME replies' = replies,
             \/ read' = read /\ (mode' \in {"client", "invoke"} => mode \in {"client", "invoke"})
             \/ DecodeOne
      PROVE  RepliesInOrder'
  <2>1. (\A i \in 1..Len(replies) : Handled(replies[i].to))'
    BY <1>1, <1>2, <1>4 DEF Handled, DecodeOne
  <2>. QED BY <1>2, <1>4, <2>1 DEF RepliesInOrder
<1>5. CASE HandleMeta \/ HandleOther \/ HandleCall
  <2>1. ASSUME NEW methods, Decode(methods)
        PROVE  /\ DecodeOne /\ read' \in Calls
               /\ \A i \in 1..Len(replies) : replies[i].to < read'
    <3>1. DecodeOne /\ read' \in Calls
        BY <2>1, DecodeReads, McpAssumption DEF DecodeOne, TurnsFit
    <3>. QED BY <1>1, <1>2, <3>1 DEF DecodeOne
  <2>2. CASE HandleMeta
      BY <1>3, <2>1, <2>2 DEF HandleMeta, DecodeOne
  <2>3. CASE HandleOther
      BY <1>3, <1>4, <2>1, <2>3 DEF HandleOther, DecodeOne
  <2>4. CASE HandleCall
      BY <1>4, <2>1, <2>4 DEF HandleCall
  <2>. QED BY <1>5, <2>2, <2>3, <2>4
<1>6. CASE GetClient
  <2>1. mode = "client" /\ read' = read /\ read' \in Calls
      BY <1>6, McpAssumption DEF GetClient, TurnsFit
  <2>2. CASE client' = "ready"
      BY <1>4, <1>6, <2>1, <2>2 DEF GetClient
  <2>3. CASE client' # "ready"
      BY <1>2, <1>3, <1>6, <2>1, <2>3 DEF GetClient
  <2>. QED BY <2>2, <2>3
<1>7. CASE Answer
  <2>1. mode = "invoke" /\ read' = read /\ read' \in Calls /\ mode' = "reading"
      BY <1>7, McpAssumption DEF Answer, TurnsFit
  <2>. QED BY <1>1, <1>2, <1>3, <1>7, <2>1 DEF Answer
<1>8. CASE \/ Send \/ EndInput \/ Signal \/ CallStep \/ UNCHANGED mcpVars
           \/ InputEnds \/ CloseStore \/ Exit
  <2>1. /\ UNCHANGED <<replies, read>>
        /\ mode' \in {"client", "invoke"} => mode' = mode
      BY <1>8 DEF Send, EndInput, Signal, CallStep, InputEnds, CloseStore, Exit, SetMode, mcpVars,
         loopVars
  <2>. QED BY <1>4, <2>1
<1>. QED BY <1>5, <1>6, <1>7, <1>8 DEF McpNext, ServerStep

(* Calls do not overlap, and replies come one to a message and in order,   *)
(* whatever is sent.                                                       *)
THEOREM McpCorrect == McpSpec => []McpInv
<1>1. McpInit => McpTypeOK /\ RepliesInOrder
  <2> SUFFICES ASSUME McpInit PROVE McpTypeOK /\ RepliesInOrder
      OBVIOUS
  <2>1. InvokeTypeOK
      BY InitInv DEF McpInit, InvokeInv
  <2>2. <<>> \in Seq(Messages) /\ <<>> \in Seq(Replies) /\ Len(<<>>) = 0
      BY DEF Messages, Replies
  <2>3. /\ sent \in Seq(Messages) /\ Len(sent) <= MaxMessages /\ read \in 0..Len(sent)
        /\ replies \in Seq(Replies)
    <3>1. sent = <<>> /\ read = 0 /\ replies = <<>> /\ MaxMessages \in Nat
      BY McpAssumption DEF McpInit
    <3>. QED BY <2>2, <3>1
  <2>4. /\ mode = "reading" /\ stdin = "open" /\ client \in {"unbuilt", "ready"}
        /\ storeOpen \in BOOLEAN /\ signalled \in BOOLEAN
      BY McpAssumption DEF McpInit
  <2>5. McpTypeOK
      BY <2>1, <2>3, <2>4 DEF McpTypeOK
  <2>. QED BY <2>5 DEF McpInit, RepliesInOrder
<1>2. InvokeInv' => InvokeTypeOK'
    BY DEF InvokeInv
<1>3. TurnsFit => CallsAreSerial
    BY McpAssumption DEF TurnsFit, CallsAreSerial
<1>4. McpSpec => []InvokeInv
    BY McpRunsInvoke, InvokeCorrect, PTL DEF RunsInvoke
<1>5. McpSpec => []TurnsFit
    BY TurnsInit, TurnsStep, PTL DEF McpSpec
<1>6. McpTypeOK /\ RepliesInOrder /\ TurnsFit /\ TurnsFit' /\ InvokeInv' /\ [McpNext]_mcpVars
          => (McpTypeOK /\ RepliesInOrder)'
    BY <1>2, McpTypeStep, RepliesStep
<1>7. McpTypeOK /\ RepliesInOrder /\ TurnsFit => McpInv
    BY <1>3 DEF McpInv
<1>. QED BY <1>1, <1>4, <1>5, <1>6, <1>7, PTL DEF McpSpec
----------------------------------------------------------------------------
(* What the end of the input leaves behind, at each point of the shutdown. *)
EndFits == /\ mode = "ended" => stdin = "eof" /\ read = Len(sent)
           /\ mode = "released" => stdin = "eof" /\ read = Len(sent) /\ ~storeOpen
           /\ mode = "failed" => stdin = "garbage"
           /\ mode = "exited" /\ stdin = "eof" => read = Len(sent) /\ ~storeOpen
           /\ stdin \in {"open", "eof", "garbage"}
           /\ mode = "exited" => stdin # "open"

(* What the end of the input leaves at each point of the shutdown. *)
LEMMA EndStep ==
    ASSUME EndFits, TurnsFit, [McpNext]_mcpVars
    PROVE  EndFits'
<1> USE DEF EndFits
<1>1. CASE Send \/ EndInput \/ Signal \/ UNCHANGED mcpVars
    BY <1>1 DEF Send, EndInput, Signal, mcpVars, loopVars
<1>2. CASE HandleMeta \/ HandleOther \/ HandleCall
  <2>1. ASSUME NEW methods, Decode(methods) PROVE mode = "reading" /\ UNCHANGED stdin
      BY <2>1 DEF Decode
  <2>2. UNCHANGED stdin /\ mode' \in {"reading", "client"}
      BY <1>2, <2>1 DEF HandleMeta, HandleOther, HandleCall
  <2>. QED BY <2>2
<1>3. CASE GetClient \/ Answer
    BY <1>3 DEF GetClient, Answer
<1>4. CASE CallStep
    BY <1>4 DEF CallStep, loopVars
<1>5. CASE InputEnds
    BY <1>5 DEF InputEnds, SetMode
<1>6. CASE CloseStore
    BY <1>6 DEF CloseStore, SetMode
<1>7. CASE Exit
    BY <1>7 DEF Exit, SetMode
<1>. QED BY <1>1, <1>2, <1>3, <1>4, <1>5, <1>6, <1>7 DEF McpNext, ServerStep

(* A server whose stdin has been closed exits with everything handled and  *)
(* the store closed, however much was sent before.                         *)
THEOREM McpDrains == McpSpec => []DrainedBeforeExit
<1>1. McpInit => EndFits
    BY DEF McpInit, EndFits
<1>2. EndFits /\ TurnsFit => DrainedBeforeExit
  <2> SUFFICES ASSUME EndFits, TurnsFit, mode = "exited", stdin = "eof"
               PROVE  /\ \A k \in 1..Len(sent) : k <= read /\ Handled(k)
                      /\ ~storeOpen
                      /\ \A c \in Calls : pc[c] \in {"idle", "done"}
      BY DEF DrainedBeforeExit
  <2>1. read = Len(sent) /\ ~storeOpen
      BY DEF EndFits
  <2>2. \A k \in 1..Len(sent) : k <= read /\ Handled(k)
      BY <2>1 DEF Handled, TurnsFit
  <2>3. \A c \in Calls : c > read \/ c = read \/ c < read
      BY McpAssumption DEF TurnsFit
  <2>. QED BY <2>1, <2>2, <2>3, McpAssumption DEF TurnsFit
<1>3. McpSpec => []TurnsFit
    BY TurnsInit, TurnsStep, PTL DEF McpSpec
<1>. QED BY <1>1, <1>2, <1>3, EndStep, PTL DEF McpSpec
----------------------------------------------------------------------------
(* A reply that has been written stays written. *)
LEMMA AnswersStay ==
    ASSUME McpTypeOK, NEW k, Answered(k), [McpNext]_mcpVars, TurnsFit
    PROVE  Answered(k)'
<1>1. \A i \in 1..Len(replies) : i \in 1..Len(replies') /\ replies'[i] = replies[i]
  <2>. replies \in Seq(Replies) /\ Len(replies) \in Nat
      BY DEF McpTypeOK
  <2>1. ASSUME NEW kind, NEW encodable, Write(kind, encodable)
        PROVE  \A i \in 1..Len(replies) : i \in 1..Len(replies') /\ replies'[i] = replies[i]
      BY <2>1 DEF Write
  <2>2. CASE HandleMeta \/ HandleOther \/ HandleCall \/ GetClient \/ Answer
      BY <2>1, <2>2 DEF HandleMeta, HandleOther, HandleCall, GetClient, Answer
  <2>3. CASE \/ Send \/ EndInput \/ Signal \/ CallStep \/ UNCHANGED mcpVars
             \/ InputEnds \/ CloseStore \/ Exit
      BY <2>3 DEF Send, EndInput, Signal, CallStep, InputEnds, CloseStore, Exit, SetMode, mcpVars,
         loopVars
  <2>. QED BY <2>2, <2>3 DEF McpNext, ServerStep
<1>. QED BY <1>1 DEF Answered

(* What is written for a message with an encodable reply answers it.       *)
LEMMA WriteAnswers ==
    ASSUME McpTypeOK, NEW kind, NEW encodable, Write(kind, encodable)
    PROVE  encodable => (\E i \in 1..Len(replies) : replies[i].to = read)'
<1>. SUFFICES ASSUME encodable PROVE (\E i \in 1..Len(replies) : replies[i].to = read)'
    OBVIOUS
<1>1. replies \in Seq(Replies) /\ replies' = Append(replies, [to |-> read', kind |-> kind])
    BY DEF Write, McpTypeOK
<1>2. Len(replies') = Len(replies) + 1
      /\ replies'[Len(replies) + 1] = [to |-> read', kind |-> kind]
    BY <1>1
<1>3. Len(replies) + 1 \in 1..Len(replies')
    BY <1>1, <1>2
<1>4. replies'[Len(replies) + 1].to = read'
    BY <1>2
<1>. QED BY <1>3, <1>4

(* The messages that are owed a reply. *)
Owed(k) == sent[k].method \in {"meta", "call", "badCall"}
           \/ (sent[k].id /\ sent[k].method = "other")

(* The message read last is answered before the loop reads on. *)
LEMMA AnswersStep ==
    ASSUME McpTypeOK, TurnsFit, TurnsFit', AnsweredUnlessUnencodable, [McpNext]_mcpVars
    PROVE  AnsweredUnlessUnencodable'
<1>1. SUFFICES ASSUME NEW k \in 1..read', Handled(k)', Owed(k)'
               PROVE  Answered(k)' \/ ~Encodable(k)'
    BY DEF AnsweredUnlessUnencodable, Owed
<1>2. /\ read \in Nat /\ k \in Int /\ k > 0 /\ read <= Len(sent) /\ read' \in Nat
      /\ sent \in Seq(Messages) /\ Len(sent) \in Nat
    BY DEF TurnsFit
(* A message that was handled before has its answer already. *)
<1>3. ASSUME k \in 1..read, Handled(k), UNCHANGED rows \/ rows'[k] = rows[k], sent'[k] = sent[k]
      PROVE  Answered(k)' \/ ~Encodable(k)'
  <2>1. Owed(k)
      BY <1>1, <1>3 DEF Owed
  <2>2. Answered(k) \/ ~Encodable(k)
      BY <1>3, <2>1 DEF AnsweredUnlessUnencodable, Owed
  <2>3. Encodable(k)' => Encodable(k)
      BY <1>3 DEF Encodable
  <2>. QED BY <2>2, <2>3, AnswersStay
<1>4. CASE HandleMeta \/ HandleOther \/ HandleCall
  <2>1. ASSUME NEW methods, Decode(methods)
        PROVE  /\ DecodeOne /\ sent[read'].method \in methods
               /\ UNCHANGED <<sent, rows>>
      BY <2>1, DecodeReads DEF DecodeOne, invokeVars
  <2>2. read' = read + 1 /\ UNCHANGED <<sent, rows>> /\ mode = "reading"
      BY <1>4, <2>1 DEF HandleMeta, HandleOther, HandleCall, DecodeOne
  <2>3. CASE k <= read
      BY <1>2, <1>3, <2>2, <2>3 DEF Handled
  <2>4. CASE k = read'
    <3>1. CASE HandleMeta
        BY <2>4, <3>1, WriteAnswers DEF HandleMeta, Answered
    <3>2. CASE HandleOther
      <4>1. sent[read'].method \in {"initialized", "other"}
          BY <3>2, <2>1 DEF HandleOther
      <4>2. sent[read'].method = "other" /\ sent[read'].id
          BY <1>1, <2>2, <2>4, <4>1 DEF Owed
      <4>. QED BY <2>4, <3>2, <4>2, WriteAnswers DEF HandleOther, Answered
    <3>3. CASE HandleCall
        BY <1>1, <2>4, <3>3 DEF HandleCall, Handled
    <3>. QED BY <1>4, <3>1, <3>2, <3>3
  <2>. QED BY <1>2, <2>2, <2>3, <2>4
<1>5. CASE GetClient \/ Answer
  <2>1. /\ read' = read /\ UNCHANGED <<sent, rows>> /\ mode \in {"client", "invoke"}
      BY <1>5 DEF GetClient, Answer, invokeVars
  <2>2. CASE k < read
      BY <1>2, <1>3, <2>1, <2>2 DEF Handled
  <2>3. CASE k = read
    <3>1. CASE GetClient
      <4>1. client' # "ready"
        <5>1. mode' # "invoke"
          BY <1>1, <1>2, <2>1, <2>3 DEF Handled
        <5>. QED BY <3>1, <5>1 DEF GetClient
      <4>. QED BY <2>1, <2>3, <3>1, <4>1, WriteAnswers DEF GetClient, Answered
    <3>2. CASE Answer
      <4>1. Encodable(k)' => Encodable(read)
          BY <2>1, <2>3 DEF Encodable
      <4>2. \E kind : Write(kind, Encodable(read)) \/ Write(kind, TRUE)
          BY <3>2 DEF Answer
      <4>3. Encodable(read) => Answered(read)'
          BY <2>1, <4>2, WriteAnswers DEF Answered
      <4>4. CASE Encodable(read)
          BY <2>1, <2>3, <4>3, <4>4 DEF Answered
      <4>5. CASE ~Encodable(read)
          BY <4>1, <4>5
      <4>. QED BY <4>4, <4>5
    <3>. QED BY <1>5, <3>1, <3>2
  <2>. QED BY <1>1, <1>2, <2>1, <2>2, <2>3
<1>6. CASE CallStep
  <2>1. /\ mode = "invoke" /\ UNCHANGED loopVars
        /\ \A c \in Calls : c # read => rows'[c] = rows[c]
      BY <1>6 DEF CallStep, BindFails, Bind, Emit, Tee, Accept, Return, Flush, McpTypeOK,
         InvokeTypeOK
  <2>2. k # read /\ k \in 1..read
      BY <1>1, <2>1 DEF loopVars, Handled
  <2>3. k \in Calls
      BY <1>2, <2>2, McpAssumption DEF TurnsFit
  <2>. QED BY <1>1, <1>3, <2>1, <2>2, <2>3 DEF loopVars, Handled
<1>7. CASE Send
  <2>1. /\ UNCHANGED <<read, mode, rows>>
        /\ \E m \in Messages : sent' = Append(sent, m)
      BY <1>7 DEF Send, invokeVars
  <2>2. sent'[k] = sent[k]
      BY <1>2, <2>1
  <2>. QED BY <1>1, <1>3, <2>1, <2>2 DEF Handled
<1>8. CASE EndInput \/ Signal \/ UNCHANGED mcpVars \/ InputEnds \/ CloseStore \/ Exit
  <2>1. /\ UNCHANGED <<read, sent, rows>>
        /\ mode' = mode \/ mode \notin {"client", "invoke"}
      BY <1>8 DEF EndInput, Signal, InputEnds, CloseStore, Exit, SetMode, mcpVars, loopVars,
         invokeVars
  <2>. QED BY <1>1, <1>3, <2>1 DEF Handled
<1>. QED BY <1>4, <1>5, <1>6, <1>7, <1>8 DEF McpNext, ServerStep

(* Every request gets its reply before the loop reads on, unless a record  *)
(* of its result cannot be encoded.                                        *)
THEOREM McpAnswers == McpSpec => []AnsweredUnlessUnencodable
<1>1. McpInit => AnsweredUnlessUnencodable
    BY DEF McpInit, AnsweredUnlessUnencodable
<1>2. McpSpec => []TurnsFit
    BY TurnsInit, TurnsStep, PTL DEF McpSpec
<1>3. McpSpec => []McpTypeOK
    BY McpCorrect, PTL DEF McpInv
<1>. QED BY <1>1, <1>2, <1>3, AnswersStep, PTL DEF McpSpec

(* ---- The registry ------------------------------------------------------- *)

(* The registry: a name leads to the operation that claimed it last, and no *)
(* two operations have the same key.                                        *)
NamesLatest ==
    /\ \A n \in DOMAIN byName : byName[n] \in DOMAIN ops /\ n \in Claims(ops[byName[n]])
    /\ \A i \in DOMAIN ops : \A n \in Claims(ops[i]) : n \in DOMAIN byName /\ byName[n] >= i
KeysDiffer == \A i, j \in DOMAIN ops : i # j => Key(ops[i]) # Key(ops[j])

RegistryFits ==
    /\ ops \in Seq(Metas) /\ Len(ops) <= MaxOps
    /\ commands \in Seq(Commands)
    /\ phase \in {"wiring", "panicked", "running"}
    /\ NamesLatest /\ KeysDiffer

\* The call, when one was made, is the one the surface made of what it was given.
Answers(c) ==
    LET found == Find(c.form, ops[c.op], c.given, c.allow)
    IN  /\ c.ran = found.ran
        /\ c.bound = IF found.ran = Ran("op", c.op)
                     THEN BoundBy(c.form, ops[c.op], c.given, found.rest, c.rt) ELSE Failure
CallFits ==
    /\ call.op \in 0..Len(ops)
    /\ call.op # 0 => /\ phase = "running" /\ call.form \in Forms
                      /\ call.given \in Givens[ops[call.op]]
                      /\ call.allow \in BOOLEAN /\ call.rt \in Contexts
                      /\ Answers(call)

SurfacesIInv == RegistryFits /\ CallFits

(* A registration keeps this: it panics on a taken key, and takes every other *)
(* name it claims for the operation it appends (kit/app.go:140-159).          *)
LEMMA RegisterKeepsNames ==
    ASSUME RegistryFits, NEW m \in Metas, Register(m)
    PROVE  RegistryFits'
<1>. DEFINE n == Len(ops) + 1
<1>1. ops \in Seq(Metas) /\ Len(ops) \in Nat /\ DOMAIN ops = 1..Len(ops)
    BY DEF RegistryFits
<1>2. commands' = commands
    BY DEF Register
<1>3. CASE phase' = "panicked" /\ UNCHANGED <<ops, byName>>
    BY <1>2, <1>3 DEF RegistryFits, NamesLatest, KeysDiffer
<1>4. CASE /\ Key(m) \notin DOMAIN byName /\ ops' = Append(ops, m)
           /\ byName' = [k \in DOMAIN byName \cup Claims(m) |->
                            IF k \in Claims(m) THEN n ELSE byName[k]]
           /\ UNCHANGED phase
  <2>1. /\ ops' \in Seq(Metas) /\ Len(ops') = n /\ DOMAIN ops' = 1..n
        /\ \A i \in DOMAIN ops : ops'[i] = ops[i]
        /\ ops'[n] = m /\ n <= MaxOps
    <3>1. Len(ops) < MaxOps /\ MaxOps \in Nat
        BY OpRegistryAssumption DEF Register
    <3>2. /\ Append(ops, m) \in Seq(Metas) /\ Len(Append(ops, m)) = Len(ops) + 1
          /\ \A i \in 1..Len(ops) : Append(ops, m)[i] = ops[i]
          /\ Append(ops, m)[Len(ops) + 1] = m
        BY <1>1, AppendProperties
    <3>. QED BY <1>1, <1>4, <3>1, <3>2
  <2>2. DOMAIN byName' = DOMAIN byName \cup Claims(m)
      BY <1>4
  <2>3. \A k \in Claims(m) : byName'[k] = n
      BY <1>4
  <2>4. \A k \in DOMAIN byName \ Claims(m) : byName'[k] = byName[k]
      BY <1>4
  <2>5. NamesLatest'
    <3>1. ASSUME NEW k \in DOMAIN byName'
          PROVE  byName'[k] \in DOMAIN ops' /\ k \in Claims(ops'[byName'[k]])
      <4>1. CASE k \in Claims(m)
          BY <4>1, <2>1, <2>3, <1>1
      <4>2. CASE k \notin Claims(m)
        <5>1. k \in DOMAIN byName /\ byName'[k] = byName[k]
            BY <4>2, <2>2, <2>4
        <5>2. byName[k] \in DOMAIN ops /\ k \in Claims(ops[byName[k]])
            BY <5>1 DEF RegistryFits, NamesLatest
        <5>. QED BY <5>1, <5>2, <2>1, <1>1
      <4>. QED BY <4>1, <4>2
    <3>2. ASSUME NEW i \in DOMAIN ops', NEW k \in Claims(ops'[i])
          PROVE  k \in DOMAIN byName' /\ byName'[k] >= i
      <4>1. CASE k \in Claims(m)
          BY <4>1, <2>1, <2>2, <2>3, <1>1
      <4>2. CASE k \notin Claims(m)
        <5>1. i \in DOMAIN ops /\ k \in Claims(ops[i])
            BY <3>2, <4>2, <2>1, <1>1
        <5>2. k \in DOMAIN byName /\ byName[k] >= i
            BY <5>1 DEF RegistryFits, NamesLatest
        <5>. QED BY <5>2, <4>2, <2>2, <2>4
      <4>. QED BY <4>1, <4>2
    <3>. QED BY <3>1, <3>2 DEF NamesLatest
  <2>6. \A i \in DOMAIN ops : Key(ops[i]) # Key(m)
      BY <1>4 DEF RegistryFits, NamesLatest, Claims
  <2>7. KeysDiffer'
    <3>. SUFFICES ASSUME NEW i \in DOMAIN ops', NEW j \in DOMAIN ops', i # j
                  PROVE Key(ops'[i]) # Key(ops'[j])
        BY DEF KeysDiffer, Key
    <3>1. CASE i = n
        BY <3>1, <2>1, <2>6, <1>1
    <3>2. CASE j = n
        BY <3>2, <2>1, <2>6, <1>1
    <3>3. CASE i # n /\ j # n
      <4>1. i \in DOMAIN ops /\ j \in DOMAIN ops
          BY <3>3, <2>1, <1>1
      <4>2. Key(ops[i]) # Key(ops[j])
          BY <4>1 DEF RegistryFits, KeysDiffer
      <4>. QED BY <4>1, <4>2, <2>1
    <3>. QED BY <3>1, <3>2, <3>3
  <2>. QED BY <1>2, <1>4, <2>1, <2>5, <2>7 DEF RegistryFits
<1>. QED BY <1>3, <1>4 DEF Register

(* So does every step before the surfaces run: hand-written commands claim *)
(* no name of an operation.                                                *)
LEMMA RegistryStep ==
    ASSUME RegistryFits, RegistryNext
    PROVE  RegistryFits'
<1>1. ASSUME NEW c \in Commands, AddCommand(c) PROVE RegistryFits'
    BY <1>1, AppendProperties DEF AddCommand, RegistryFits, NamesLatest, KeysDiffer
<1>2. CASE Start
    BY <1>2 DEF Start, RegistryFits, NamesLatest, KeysDiffer
<1>. QED BY <1>1, <1>2, RegisterKeepsNames DEF RegistryNext

(* An App that was just made has no names. *)
LEMMA SurfacesStart == SurfacesInit => SurfacesIInv
BY OpRegistryAssumption DEF SurfacesInit, RegistryInit, SurfacesIInv, RegistryFits, NamesLatest,
   KeysDiffer, CallFits, NoCall

(* What a surface finds depends on the registry alone. *)
LEMMA TreeStays ==
    ASSUME UNCHANGED registry
    PROVE  Tree' = Tree
<1>1. OpNodes' = OpNodes
    BY DEF registry, OpNodes
<1>2. \A i : CommandPlace(i)' = CommandPlace(i)
    BY DEF registry, CommandPlace
<1>3. CommandNodes' = CommandNodes
    BY <1>2 DEF registry, CommandNodes
<1>4. BuiltinNodes' = BuiltinNodes
    BY DEF registry, BuiltinNodes
<1>. QED BY <1>1, <1>3, <1>4 DEF Tree

(* So it is the same before and after a step that leaves the registry alone. *)
LEMMA FindStays ==
    ASSUME UNCHANGED registry, NEW form, NEW m, NEW given, NEW allow
    PROVE  Find(form, m, given, allow)' = Find(form, m, given, allow)
<1>1. \A words : CliFind(words)' = CliFind(words)
    BY TreeStays DEF CliFind, Under
<1>2. \A path : HttpFind(path, allow)' = HttpFind(path, allow)
    BY DEF registry, HttpFind, Served
<1>3. \A tool : McpFind(tool)' = McpFind(tool)
    BY DEF registry, McpFind
<1>. DEFINE c == Route(m) \o CliWords(ParamsOf[m], given)
            p == Route(m) \o PathWords(ParamsOf[m], given)
            q == Route(m)
            t == Tool(m)
<1>4. CliFind(c)' = CliFind(c) /\ HttpFind(p, allow)' = HttpFind(p, allow)
      /\ HttpFind(q, allow)' = HttpFind(q, allow) /\ McpFind(t)' = McpFind(t)
    BY <1>1, <1>2, <1>3
<1>. QED BY <1>4 DEF Find

(* A call finds what its surface finds in a registry that no longer grows.  *)
LEMMA CallIsMade ==
    ASSUME RegistryFits, Call
    PROVE  CallFits'
<1>. USE DEF RegistryFits
<1>1. PICK i \in DOMAIN ops : \E form \in Forms, allow \in BOOLEAN, rt \in Contexts :
         \E given \in Givens[ops[i]] :
        LET m == ops[i]
            found == Find(form, m, given, allow)
        IN  call' = [op |-> i, form |-> form, given |-> given, allow |-> allow, rt |-> rt,
                     ran |-> found.ran,
                     bound |-> IF found.ran = Ran("op", i)
                               THEN BoundBy(form, m, given, found.rest, rt) ELSE Failure]
    BY DEF Call
<1>2. PICK form \in Forms, allow \in BOOLEAN, rt \in Contexts : \E given \in Givens[ops[i]] :
        LET m == ops[i]
            found == Find(form, m, given, allow)
        IN  call' = [op |-> i, form |-> form, given |-> given, allow |-> allow, rt |-> rt,
                     ran |-> found.ran,
                     bound |-> IF found.ran = Ran("op", i)
                               THEN BoundBy(form, m, given, found.rest, rt) ELSE Failure]
    BY <1>1
<1>3. PICK given \in Givens[ops[i]] :
        LET m == ops[i]
            found == Find(form, m, given, allow)
        IN  call' = [op |-> i, form |-> form, given |-> given, allow |-> allow, rt |-> rt,
                     ran |-> found.ran,
                     bound |-> IF found.ran = Ran("op", i)
                               THEN BoundBy(form, m, given, found.rest, rt) ELSE Failure]
    BY <1>2
<1>4. ops' = ops /\ phase' = phase /\ phase = "running" /\ UNCHANGED registry
    BY DEF Call, registry
<1>5. Find(form, ops[i], given, allow)' = Find(form, ops[i], given, allow)
    BY <1>4, FindStays
<1>6. call'.op = i /\ call'.form = form /\ call'.given = given /\ call'.allow = allow /\ call'.rt = rt
    BY <1>3
<1>7. Answers(call)'
    BY <1>3, <1>4, <1>5, <1>6 DEF Answers
<1>8. i \in 0..Len(ops)
    OBVIOUS
<1>. QED BY <1>4, <1>6, <1>7, <1>8 DEF CallFits

(* The least place of a non-empty set of nodes. *)
LEMMA FirstFound ==
    ASSUME NEW nodes, nodes # {}, \A n \in nodes : n.place \in Nat
    PROVE  /\ FirstOf(nodes) \in nodes
           /\ \A other \in nodes : FirstOf(nodes).place <= other.place
<1>. DEFINE Less == OpToRel(<, Nat)
            U == {n.place : n \in nodes}
<1>1. U \subseteq Nat /\ U # {}
    OBVIOUS
<1>. HIDE DEF U
<1>2. PICK p \in U : \A q \in U : ~(<<q, p>> \in Less)
    BY <1>1, NatLessThanWellFounded, WFMin
<1>3. \A q \in U : p <= q
  <2>. SUFFICES ASSUME NEW q \in U PROVE p <= q
      OBVIOUS
  <2>1. p \in Nat /\ q \in Nat /\ ~(<<q, p>> \in Less)
      BY <1>1, <1>2
  <2>. QED BY <2>1 DEF OpToRel
<1>4. \E n \in nodes : \A other \in nodes : n.place <= other.place
    BY <1>2, <1>3 DEF U
<1>. QED BY <1>4 DEF FirstOf

(* ---- The surfaces find -------------------------------------------------- *)

(* The parameters of an operation are numbered from one. *)
LEMMA ParamsType ==
    ASSUME NEW m \in Metas
    PROVE  \E n \in Nat : DOMAIN ParamsOf[m] = 1..n
<1>. DEFINE fields == FieldsOf[m]
            bound == {i \in DOMAIN fields : fields[i].exported /\ fields[i].tagged}
<1>1. ParamsOf[m] = ReflectIn(fields)
    BY DEF ParamsOf
<1>2. DOMAIN fields = 1..Len(fields) /\ Len(fields) \in Nat
  <2>. DEFINE F == [name : STRING, head : STRING, renamed : STRING, go : STRING,
                    options : SUBSET STRING, def : Words \cup {EmptyWord},
                    exported : BOOLEAN, tagged : BOOLEAN]
  <2>1. fields \in Seq(F)
      BY FieldsAssumption
  <2>. HIDE DEF F, fields
  <2>. QED BY <2>1
<1>3. IsFiniteSet(bound) /\ Cardinality(bound) \in Nat
  <2>. HIDE DEF fields
  <2>1. IsFiniteSet(1..Len(fields)) /\ bound \in SUBSET (1..Len(fields))
      BY <1>2, FS_Interval
  <2>2. IsFiniteSet(bound)
      BY <2>1, FS_Subset
  <2>. HIDE DEF bound
  <2>. QED BY <2>2, FS_CardinalityType
<1>4. DOMAIN ReflectIn(fields) = 1..Cardinality(bound)
    BY DEF ReflectIn
<1>. QED BY <1>1, <1>3, <1>4

(* The words of a call are words. *)
LEMMA FlatType ==
    ASSUME NEW m \in Metas, NEW given \in Givens[m], NEW part \in [Words -> Seq(Words)]
    PROVE  Flat(ParamsOf[m], given, part) \in Seq(Words)
<1>. DEFINE ps == ParamsOf[m]
            Inner(k) == [i \in DOMAIN given[k] |-> part[given[k][i]]]
            parts == [k \in DOMAIN ps |-> IF k \in ArgsOf(ps) THEN FlattenSeq(Inner(k)) ELSE <<>>]
<1>1. PICK n \in Nat : DOMAIN ps = 1..n
    BY ParamsType
<1>2. given \in [1..n -> Seq(Words)]
    BY <1>1, GivensAssumption DEF Fits
<1>. HIDE DEF ps
<1>3. ASSUME NEW k \in 1..n PROVE FlattenSeq(Inner(k)) \in Seq(Words)
  <2>1. Inner(k) \in Seq(Seq(Words))
    <3>. DEFINE v == given[k]
                P == Seq(Words)
    <3>1. v \in Seq(Words)
        BY <1>2
    <3>. HIDE DEF v
    <3>2. DOMAIN v = 1..Len(v) /\ Len(v) \in Nat /\ \A i \in 1..Len(v) : v[i] \in Words
        BY <3>1
    <3>3. \A i \in 1..Len(v) : part[v[i]] \in P
        BY <3>2
    <3>. HIDE DEF P
    <3>4. [i \in DOMAIN v |-> part[v[i]]] \in Seq(P)
        BY <3>2, <3>3
    <3>. QED BY <3>4 DEF v, P
  <2>. HIDE DEF Inner
  <2>. QED BY <2>1, FlattenType
<1>. HIDE DEF Inner
<1>4. parts \in Seq(Seq(Words))
    BY <1>1, <1>3
<1>5. FlattenSeq(parts) \in Seq(Words)
  <2>. HIDE DEF parts
  <2>. QED BY <1>4, FlattenType
<1>. QED BY <1>5 DEF Flat, ps, Inner

(* The positional words of the command line and of a path. *)
LEMMA WordsTyped ==
    ASSUME NEW m \in Metas, NEW given \in Givens[m]
    PROVE  CliWords(ParamsOf[m], given) \in Seq(Words) /\ PathWords(ParamsOf[m], given) \in Seq(Words)
<1>1. Whole \in [Words -> Seq(Words)]
    BY DEF Whole
<1>2. Segments \in [Words -> Seq(Words)]
    BY WordsAssumption
<1>. QED BY <1>1, <1>2, FlatType DEF CliWords, PathWords

(* Sequences of one and of two elements. *)
LEMMA PairType ==
    ASSUME NEW S, NEW a \in S, NEW b \in S
    PROVE  /\ <<a>> \in Seq(S) /\ Len(<<a>>) = 1
           /\ <<a, b>> \in Seq(S) /\ Len(<<a, b>>) = 2
OBVIOUS

(* A route has one segment, or two for an operation nested under a parent. *)
LEMMA RouteType ==
    ASSUME NEW m \in Metas
    PROVE  /\ Route(m) \in Seq(STRING) /\ Len(Route(m)) \in {1, 2}
           /\ m.parent = NoName => Route(m) = <<m.name>> /\ Len(Route(m)) = 1
           /\ m.parent # NoName => Route(m) = <<m.parent, m.name>> /\ Len(Route(m)) = 2
           /\ m.parent \in STRING /\ m.name \in STRING
<1>1. m.parent \in STRING /\ m.name \in STRING
    BY OpRegistryAssumption
<1>2. CASE m.parent = NoName
    BY <1>1, <1>2, PairType DEF Route
<1>3. CASE m.parent # NoName
    BY <1>1, <1>3, PairType DEF Route
<1>. QED BY <1>2, <1>3

(* The words of a call after those that name its operation are its arguments. *)
LEMMA CallWords ==
    ASSUME NEW m \in Metas, NEW W \in Seq(STRING)
    PROVE  LET c == Route(m) \o W
           IN  /\ c \in Seq(STRING) /\ c # <<>> /\ c[1] = Route(m)[1]
               /\ m.parent = NoName => Route(m)[1] = m.name /\ Tail(c) = W
               /\ m.parent # NoName => /\ Route(m)[1] = m.parent
                                       /\ Tail(c) # <<>> /\ Tail(c)[1] = m.name /\ Tail(Tail(c)) = W
<1>. DEFINE r == Route(m)
            c == r \o W
            p == m.parent
            n == m.name
<1>1. p \in STRING /\ n \in STRING /\ r \in Seq(STRING)
    BY RouteType
<1>2. /\ c \in Seq(STRING) /\ Len(c) = Len(r) + Len(W)
      /\ \A i \in 1..Len(r) + Len(W) : c[i] = IF i <= Len(r) THEN r[i] ELSE W[i - Len(r)]
  <2>. HIDE DEF r
  <2>. QED BY <1>1, ConcatProperties
<1>3. CASE p = NoName
  <2>1. r = <<n>> /\ Len(r) = 1 /\ r[1] = n
      BY <1>3, RouteType
  <2>. HIDE DEF r, c, p, n
  <2>2. Len(W) \in Nat /\ Len(c) = 1 + Len(W) /\ c # <<>> /\ c[1] = n
      BY <1>2, <2>1
  <2>3. Tail(c) \in Seq(STRING) /\ Len(Tail(c)) = Len(W) /\ \A i \in 1..Len(W) : Tail(c)[i] = c[i + 1]
      BY <1>2, <2>2, HeadTailProperties
  <2>4. \A i \in 1..Len(W) : Tail(c)[i] = W[i]
      BY <1>2, <2>1, <2>2, <2>3
  <2>5. Tail(c) = W
      BY <2>3, <2>4, SeqEqual
  <2>. QED BY <1>2, <1>3, <2>1, <2>2, <2>5 DEF r, c, p, n
<1>4. CASE p # NoName
  <2>1. r = <<p, n>> /\ Len(r) = 2 /\ r[1] = p /\ r[2] = n
      BY <1>4, RouteType
  <2>. HIDE DEF r, c, p, n
  <2>2. Len(W) \in Nat /\ Len(c) = 2 + Len(W) /\ c # <<>> /\ c[1] = p /\ c[2] = n
      BY <1>2, <2>1
  <2>. DEFINE t == Tail(c)
  <2>3. t \in Seq(STRING) /\ Len(t) = 1 + Len(W) /\ \A i \in 1..Len(t) : t[i] = c[i + 1]
      BY <1>2, <2>2, HeadTailProperties
  <2>. HIDE DEF t
  <2>4. t # <<>> /\ t[1] = n
      BY <2>2, <2>3
  <2>5. Tail(t) \in Seq(STRING) /\ Len(Tail(t)) = Len(W) /\ \A i \in 1..Len(W) : Tail(t)[i] = t[i + 1]
      BY <2>2, <2>3, <2>4, HeadTailProperties
  <2>6. ASSUME NEW i \in 1..Len(W) PROVE Tail(t)[i] = W[i]
    <3>1. i + 1 \in 1..Len(t) /\ (i + 1) + 1 \in 1..Len(r) + Len(W) /\ ~((i + 1) + 1 <= Len(r))
          /\ ((i + 1) + 1) - Len(r) = i
        BY <2>1, <2>2, <2>3
    <3>. QED BY <1>2, <2>3, <2>5, <3>1
  <2>7. Tail(t) = W
      BY <2>5, <2>6, SeqEqual
  <2>. QED BY <1>2, <1>4, <2>1, <2>2, <2>4, <2>7 DEF r, c, p, n, t
<1>. QED BY <1>3, <1>4

(* ---- The command tree --------------------------------------------------- *)

\* The node of operation i in the command tree.
OpNode(i) == Node(i, ops[i], Ran("op", i))

(* A node of the command tree is an operation, a hand-written command behind *)
(* them, or one of the two kit adds last (kit/surface_cli.go:86-123).        *)
LEMMA NodeOf ==
    ASSUME RegistryFits, NEW n \in Tree
    PROVE  /\ n.place \in Nat
           /\ \/ \E i \in DOMAIN ops : ~ops[i].noCLI /\ n = OpNode(i)
              \/ \E i \in DOMAIN commands :
                    /\ n = Node(CommandPlace(i), commands[i], Ran("cmd", i))
                    /\ n.place > Len(ops)
                    /\ commands[i].parent # NoName => n.place <= Len(ops) + Len(commands)
                    /\ commands[i].parent = NoName => n.place > Len(ops) + Len(commands)
                    /\ n.place <= Len(ops) + 2 * Len(commands)
              \/ /\ n.parent = NoName /\ n.ran.kind = "builtin"
                 /\ n.place > Len(ops) + 2 * Len(commands)
<1>1. /\ Len(ops) \in Nat /\ DOMAIN ops = 1..Len(ops)
      /\ Len(commands) \in Nat /\ DOMAIN commands = 1..Len(commands)
    BY DEF RegistryFits
<1>2. CASE n \in OpNodes
    BY <1>1, <1>2 DEF OpNodes, OpNode, Node
<1>3. CASE n \in CommandNodes
  <2>1. PICK i \in DOMAIN commands : n = Node(CommandPlace(i), commands[i], Ran("cmd", i))
      BY <1>3 DEF CommandNodes
  <2>2. n.place = CommandPlace(i)
      BY <2>1 DEF Node
  <2>3. CASE commands[i].parent = NoName
    <3>1. CommandPlace(i) = Len(ops) + i + Len(commands)
        BY <2>3 DEF CommandPlace
    <3>. QED BY <1>1, <2>1, <2>2, <2>3, <3>1
  <2>4. CASE commands[i].parent # NoName
    <3>1. CommandPlace(i) = Len(ops) + i
        BY <1>1, <2>4 DEF CommandPlace
    <3>. QED BY <1>1, <2>1, <2>2, <2>4, <3>1
  <2>. QED BY <2>3, <2>4
<1>4. CASE n \in BuiltinNodes
    BY <1>1, <1>4 DEF BuiltinNodes, Node, Builtin, Ran
<1>. QED BY <1>2, <1>3, <1>4 DEF Tree

(* The node of an operation, and the word it answers to at the root. *)
LEMMA OpNodeFits ==
    ASSUME NEW i \in DOMAIN ops
    PROVE  /\ OpNode(i).place = i /\ OpNode(i).parent = ops[i].parent
           /\ OpNode(i).ran = Ran("op", i)
           /\ ops[i].name \in OpNode(i).names
           /\ Route(ops[i])[1] \in AtRoot(OpNode(i))
           /\ ~ops[i].noCLI => OpNode(i) \in Tree
BY DEF OpNode, Node, AtRoot, Route, Tree, OpNodes

(* Whatever else it finds, the first child is an operation if one is hit. *)
LEMMA FirstIsOp ==
    ASSUME RegistryFits, NEW hit \in SUBSET Tree, NEW i \in DOMAIN ops, OpNode(i) \in hit
    PROVE  \E j \in 1..i : ~ops[j].noCLI /\ FirstOf(hit) = OpNode(j) /\ OpNode(j) \in hit
<1>1. FirstOf(hit) \in hit /\ FirstOf(hit).place <= i
  <2>1. \A n \in hit : n.place \in Nat
      BY NodeOf
  <2>. QED BY <2>1, FirstFound, OpNodeFits
<1>2. Len(ops) \in Nat /\ DOMAIN ops = 1..Len(ops) /\ Len(commands) \in Nat
    BY DEF RegistryFits
<1>. DEFINE n == FirstOf(hit)
<1>. HIDE DEF n
<1>3. n \in Tree /\ n.place <= i /\ n \in hit
    BY <1>1 DEF n
<1>4. PICK j \in DOMAIN ops : ~ops[j].noCLI /\ n = OpNode(j)
    BY <1>2, <1>3, NodeOf
<1>5. j <= i
    BY <1>3, <1>4, OpNodeFits
<1>. QED BY <1>2, <1>3, <1>4, <1>5 DEF n

(* The words of an operation run it from the command line unless an earlier *)
(* operation answers to the first of them.                                  *)
LEMMA CliFindsOp ==
    ASSUME RegistryFits, NEW i \in DOMAIN ops, ~ops[i].noCLI, NEW W \in Seq(STRING)
    PROVE  \/ CliFind(Route(ops[i]) \o W).ran = Ran("op", i)
           \/ \E j \in 1..i - 1 : ~ops[j].noCLI /\ Route(ops[i])[1] \in AtRoot(OpNode(j))
<1>. DEFINE m == ops[i]
            c == Route(m) \o W
            t == Tail(c)
            hit == {n \in Tree : c[1] \in AtRoot(n)}
            inner == {n \in Tree : n.parent = m.parent /\ t[1] \in n.names}
<1>1. m \in Metas /\ i \in Nat
    BY DEF RegistryFits
<1>. HIDE DEF m
<1>2. /\ c # <<>> /\ c[1] = Route(m)[1]
      /\ m.parent # NoName => Route(m)[1] = m.parent /\ t # <<>> /\ t[1] = m.name
    BY <1>1, CallWords
<1>. HIDE DEF c, t
<1>3. OpNode(i) \in hit
    BY <1>2, OpNodeFits DEF m
<1>4. PICK j \in 1..i : ~ops[j].noCLI /\ FirstOf(hit) = OpNode(j) /\ OpNode(j) \in hit
    BY <1>3, FirstIsOp
<1>5. CASE j < i
  <2>1. j \in 1..i - 1 /\ Route(m)[1] \in AtRoot(OpNode(j))
      BY <1>1, <1>2, <1>4, <1>5
  <2>. QED BY <1>4, <2>1 DEF m
<1>6. CASE j = i
  <2>1. OpNode(i).parent = m.parent /\ OpNode(i).ran = Ran("op", i) /\ OpNode(i).place = i
        /\ m.name \in OpNode(i).names
      BY OpNodeFits DEF m
  <2>2. CASE m.parent = NoName
    <3>1. CliFind(c) = Leaf(OpNode(i), t)
        BY <1>3, <1>4, <1>6, <2>1, <2>2 DEF CliFind, t
    <3>. QED BY <2>1, <3>1 DEF Leaf, c, m
  <2>3. CASE m.parent # NoName
    <3>1. CliFind(c) = Under(m.parent, t)
        BY <1>3, <1>4, <1>6, <2>1, <2>3 DEF CliFind, t
    <3>2. OpNode(i) \in inner
        BY <1>2, <1>3, <2>1, <2>3
    <3>3. PICK k \in 1..i : FirstOf(inner) = OpNode(k) /\ OpNode(k) \in inner
        BY <3>2, FirstIsOp
    <3>4. OpNode(k) \in hit
        BY <1>2, <2>3, <3>3 DEF AtRoot
    <3>5. OpNode(k).place = k
        BY OpNodeFits DEF RegistryFits
    <3>6. i <= k
      <4>1. \A n \in hit : n.place \in Nat
          BY NodeOf
      <4>2. FirstOf(hit).place <= OpNode(k).place
          BY <3>4, <4>1, FirstFound
      <4>. QED BY <1>4, <1>6, <2>1, <3>5, <4>2
    <3>7. k = i
        BY <1>1, <3>6
    <3>8. Under(m.parent, t) = Leaf(OpNode(i), Tail(t))
        BY <1>2, <2>3, <3>2, <3>3, <3>7 DEF Under
    <3>. QED BY <2>1, <3>1, <3>8 DEF Leaf, c, m
  <2>. QED BY <2>2, <2>3
<1>7. j < i \/ j = i
    BY <1>1
<1>. QED BY <1>5, <1>6, <1>7

(* An operation that is run from the command line is shown there, and gets *)
(* the words after those that name it.                                     *)
LEMMA CliFindRest ==
    ASSUME RegistryFits, NEW i \in DOMAIN ops, NEW W \in Seq(STRING),
           CliFind(Route(ops[i]) \o W).ran = Ran("op", i)
    PROVE  ~ops[i].noCLI /\ CliFind(Route(ops[i]) \o W).rest = W
<1>. DEFINE m == ops[i]
            c == Route(m) \o W
            t == Tail(c)
            hit == {n \in Tree : c[1] \in AtRoot(n)}
            first == FirstOf(hit)
            inner == {n \in Tree : n.parent = first.parent /\ t[1] \in n.names}
<1>1. m \in Metas
    BY DEF RegistryFits
<1>2. /\ m.parent = NoName => t = W
      /\ m.parent # NoName => Tail(t) = W
  <2>. HIDE DEF m
  <2>. QED BY <1>1, CallWords
<1>3. ASSUME NEW n \in Tree, n.ran = Ran("op", i)
      PROVE  ~ops[i].noCLI /\ n.parent = m.parent
  <2>1. n.ran.kind = "op" /\ n.ran.at = i
      BY <1>3 DEF Ran
  <2>2. PICK j \in DOMAIN ops : ~ops[j].noCLI /\ n = OpNode(j)
      BY <1>3, <2>1, NodeOf DEF Node, Ran
  <2>3. j = i
      BY <2>1, <2>2 DEF OpNode, Node, Ran
  <2>. QED BY <2>2, <2>3, OpNodeFits
<1>4. \A n \in Tree : n.place \in Nat
    BY NodeOf
<1>5. hit # {} /\ inner \subseteq Tree
    BY DEF CliFind, Ran
<1>6. first \in hit
    BY <1>4, <1>5, FirstFound
<1>. HIDE DEF c, t
<1>7. CliFind(c) = IF first.parent = NoName THEN Leaf(first, t) ELSE Under(first.parent, t)
    BY <1>5 DEF CliFind, t
<1>8. CliFind(c).ran = Ran("op", i)
    BY DEF c
<1>. HIDE DEF hit, first
<1>9. CASE first.parent = NoName
  <2>1. CliFind(c).ran = first.ran /\ CliFind(c).rest = t
      BY <1>7, <1>9 DEF Leaf
  <2>2. first \in Tree
      BY <1>6 DEF hit
  <2>. QED BY <1>2, <1>3, <1>8, <1>9, <2>1, <2>2 DEF c
<1>10. CASE first.parent # NoName
  <2>1. t # <<>> /\ inner # {} /\ CliFind(c) = Leaf(FirstOf(inner), Tail(t))
      BY <1>7, <1>8, <1>10 DEF Under, Ran
  <2>2. FirstOf(inner) \in inner
      BY <1>4, <2>1, FirstFound
  <2>3. CliFind(c).ran = FirstOf(inner).ran /\ CliFind(c).rest = Tail(t)
      BY <2>1 DEF Leaf
  <2>4. FirstOf(inner) \in Tree /\ FirstOf(inner).parent = first.parent
      BY <2>2
  <2>. QED BY <1>2, <1>3, <1>8, <1>10, <2>3, <2>4 DEF c
<1>. QED BY <1>9, <1>10

(* The hand-written command of an operation that is not shown. *)
LEMMA CliFindsHandWritten ==
    ASSUME RegistryFits, NEW i \in DOMAIN ops, ops[i].noCLI, NEW W \in Seq(STRING),
           NEW j \in DOMAIN commands,
           commands[j].parent = ops[i].parent, commands[j].name = ops[i].name,
           \A k \in DOMAIN commands : ops[i].parent = NoName => commands[k].parent # ops[i].name,
           \A k \in DOMAIN ops \ {i} : Route(ops[k])[1] # Route(ops[i])[1]
                                       /\ Route(ops[i])[1] \notin ops[k].aliases
    PROVE  CliFind(Route(ops[i]) \o W).ran.kind = "cmd"
<1>. DEFINE m == ops[i]
            c == Route(m) \o W
            t == Tail(c)
            mine == Node(CommandPlace(j), commands[j], Ran("cmd", j))
            hit == {n \in Tree : c[1] \in AtRoot(n)}
            first == FirstOf(hit)
            inner == {n \in Tree : n.parent = first.parent /\ t[1] \in n.names}
<1>1. m \in Metas /\ Len(ops) \in Nat /\ DOMAIN ops = 1..Len(ops)
      /\ Len(commands) \in Nat /\ DOMAIN commands = 1..Len(commands)
    BY DEF RegistryFits
<1>2. /\ c # <<>> /\ c[1] = Route(m)[1]
      /\ m.parent = NoName => Route(m)[1] = m.name
      /\ m.parent # NoName => Route(m)[1] = m.parent /\ t # <<>> /\ t[1] = m.name
  <2>. HIDE DEF m
  <2>. QED BY <1>1, CallWords
<1>3. /\ mine \in Tree /\ mine.parent = m.parent /\ m.name \in mine.names
      /\ mine.place = CommandPlace(j) /\ mine.place <= Len(ops) + 2 * Len(commands)
  <2>1. mine \in Tree
      BY DEF Tree, CommandNodes
  <2>2. mine.parent = m.parent /\ m.name \in mine.names /\ mine.place = CommandPlace(j)
      BY DEF Node
  <2>3. CommandPlace(j) = Len(ops) + j + Len(commands) \/ CommandPlace(j) = Len(ops) + j
      BY <1>1 DEF CommandPlace
  <2>. HIDE DEF mine
  <2>. QED BY <1>1, <2>1, <2>2, <2>3
<1>. HIDE DEF mine
<1>4. mine \in hit
  <2>. HIDE DEF m, c, t
  <2>. QED BY <1>2, <1>3 DEF AtRoot
<1>5. ASSUME NEW n \in Tree, n.place <= Len(ops) + 2 * Len(commands) \/ n.parent # NoName,
             \A k \in DOMAIN ops : ~ops[k].noCLI => n # OpNode(k)
      PROVE  n.ran.kind = "cmd" /\ \E k \in DOMAIN commands : n.parent = commands[k].parent
  <2>1. PICK k \in DOMAIN commands : n = Node(CommandPlace(k), commands[k], Ran("cmd", k))
    <3>1. n.place \in Nat
        BY NodeOf
    <3>. QED BY <1>1, <1>5, <3>1, NodeOf
  <2>. QED BY <2>1 DEF Node, Ran
<1>6. ASSUME NEW k \in DOMAIN ops, ~ops[k].noCLI
      PROVE  c[1] \notin AtRoot(OpNode(k)) /\ (ops[k].parent # NoName => ops[k].parent # c[1])
  <2>1. k # i /\ Route(ops[k])[1] # c[1] /\ c[1] \notin ops[k].aliases
      BY <1>2, <1>6
  <2>2. ops[k].parent # NoName => Route(ops[k])[1] = ops[k].parent
      BY DEF Route
  <2>3. ops[k].parent = NoName => Route(ops[k])[1] = ops[k].name
      BY DEF Route
  <2>. HIDE DEF c
  <2>. QED BY <2>1, <2>2, <2>3 DEF AtRoot, OpNode, Node
<1>7. \A n \in Tree : n.place \in Nat
    BY NodeOf
<1>8. first \in hit /\ first.place <= mine.place
    BY <1>4, <1>7, FirstFound
<1>. HIDE DEF c, t
<1>9. CliFind(c) = IF first.parent = NoName THEN Leaf(first, t) ELSE Under(first.parent, t)
    BY <1>4 DEF CliFind, t
<1>10. first \in Tree /\ c[1] \in AtRoot(first)
    BY <1>8
<1>. HIDE DEF first, hit
<1>11. first.ran.kind = "cmd" /\ \E k \in DOMAIN commands : first.parent = commands[k].parent
  <2>1. first.place <= Len(ops) + 2 * Len(commands)
    <3>1. first.place \in Nat /\ mine.place \in Nat
        BY <1>3, <1>7, <1>10
    <3>. QED BY <1>1, <1>3, <1>8, <3>1
  <2>2. \A k \in DOMAIN ops : ~ops[k].noCLI => first # OpNode(k)
      BY <1>6, <1>10
  <2>. QED BY <1>5, <1>10, <2>1, <2>2
<1>12. CASE first.parent = NoName
    BY <1>9, <1>11, <1>12 DEF Leaf, c
<1>13. CASE first.parent # NoName
  <2>1. c[1] = first.parent
      BY <1>10, <1>13 DEF AtRoot
  <2>2. m.parent # NoName /\ first.parent = m.parent
      BY <1>2, <1>11, <2>1
  <2>3. mine \in inner
      BY <1>2, <1>3, <2>2
  <2>4. FirstOf(inner) \in inner
      BY <1>7, <2>3, FirstFound
  <2>5. FirstOf(inner) \in Tree /\ FirstOf(inner).parent = first.parent
      BY <2>4
  <2>6. CliFind(c) = Leaf(FirstOf(inner), Tail(t))
      BY <1>2, <1>9, <1>13, <2>2, <2>3 DEF Under
  <2>. HIDE DEF inner
  <2>. DEFINE g == FirstOf(inner)
  <2>. HIDE DEF g
  <2>7. \A k \in DOMAIN ops : ~ops[k].noCLI => g # OpNode(k)
    <3>. SUFFICES ASSUME NEW k \in DOMAIN ops, ~ops[k].noCLI, g = OpNode(k) PROVE FALSE
        OBVIOUS
    <3>1. g.parent = ops[k].parent
        BY OpNodeFits
    <3>. QED BY <1>6, <1>13, <2>1, <2>5, <3>1 DEF g
  <2>8. g \in Tree /\ g.parent # NoName
      BY <1>13, <2>5 DEF g
  <2>9. g.ran.kind = "cmd"
      BY <1>5, <2>7, <2>8
  <2>. QED BY <2>6, <2>9 DEF Leaf, c, g
<1>. QED BY <1>12, <1>13

(* ---- The routes --------------------------------------------------------- *)

(* A prefix, segment by segment. *)
LEMMA PrefixIs ==
    ASSUME NEW r \in Seq(STRING), NEW p \in Seq(STRING)
    PROVE  Prefix(r, p) <=> Len(r) <= Len(p) /\ \A i \in 1..Len(r) : r[i] = p[i]
<1>1. Len(r) \in Nat /\ Len(p) \in Nat
    OBVIOUS
<1>2. ASSUME Len(r) <= Len(p)
      PROVE  /\ SubSeq(p, 1, Len(r)) \in Seq(STRING) /\ Len(SubSeq(p, 1, Len(r))) = Len(r)
             /\ \A i \in 1..Len(r) : SubSeq(p, 1, Len(r))[i] = p[i]
  <2>1. \A i \in 1..Len(r) : p[i] \in STRING
      BY <1>1, <1>2
  <2>2. /\ SubSeq(p, 1, Len(r)) \in Seq(STRING)
        /\ Len(SubSeq(p, 1, Len(r))) = IF 1 <= Len(r) THEN Len(r) - 1 + 1 ELSE 0
        /\ \A i \in 1..(Len(r) - 1 + 1) : SubSeq(p, 1, Len(r))[i] = p[1 + i - 1]
      BY <1>1, <2>1, SubSeqProperties
  <2>. QED BY <1>1, <2>2
<1>3. ASSUME Prefix(r, p) PROVE Len(r) <= Len(p) /\ \A i \in 1..Len(r) : r[i] = p[i]
    BY <1>2, <1>3 DEF Prefix
<1>4. ASSUME Len(r) <= Len(p), \A i \in 1..Len(r) : r[i] = p[i] PROVE Prefix(r, p)
  <2>1. SubSeq(p, 1, Len(r)) = r
      BY <1>2, <1>4, SeqEqual
  <2>. QED BY <1>4, <2>1 DEF Prefix
<1>. QED BY <1>3, <1>4

(* Of two prefixes of one path the shorter is a prefix of the longer. *)
LEMMA PrefixesNest ==
    ASSUME NEW r \in Seq(STRING), NEW s \in Seq(STRING), NEW p \in Seq(STRING),
           Prefix(r, p), Prefix(s, p), Len(r) <= Len(s)
    PROVE  Prefix(r, s) /\ (Len(r) = Len(s) => r = s)
<1>1. Len(r) \in Nat /\ Len(s) \in Nat
    OBVIOUS
<1>2. \A i \in 1..Len(r) : r[i] = s[i]
    BY <1>1, PrefixIs
<1>. QED BY <1>1, <1>2, PrefixIs, SeqEqual

(* A route is a prefix of itself and of the paths below it. *)
LEMMA PrefixOfConcat ==
    ASSUME NEW r \in Seq(STRING), NEW W \in Seq(STRING)
    PROVE  Prefix(r, r \o W) /\ Prefix(r, r)
<1>1. r \o W \in Seq(STRING) /\ Len(r \o W) = Len(r) + Len(W)
      /\ \A i \in 1..Len(r) : (r \o W)[i] = r[i]
  <2>1. /\ r \o W \in Seq(STRING) /\ Len(r \o W) = Len(r) + Len(W)
        /\ \A i \in 1..Len(r) + Len(W) : (r \o W)[i] = IF i <= Len(r) THEN r[i] ELSE W[i - Len(r)]
      BY ConcatProperties
  <2>2. Len(r) \in Nat /\ Len(W) \in Nat
      OBVIOUS
  <2>. QED BY <2>1, <2>2
<1>. DEFINE c == r \o W
<1>. HIDE DEF c
<1>2. Len(r) \in Nat /\ Len(W) \in Nat /\ c \in Seq(STRING) /\ Len(r) <= Len(c)
      /\ \A i \in 1..Len(r) : r[i] = c[i]
    BY <1>1 DEF c
<1>3. Prefix(r, c)
    BY <1>2, PrefixIs
<1>4. Prefix(r, r)
    BY <1>2, PrefixIs
<1>. QED BY <1>3, <1>4 DEF c

(* No two operations have one route. *)
LEMMA RoutesDiffer ==
    ASSUME RegistryFits, NEW i \in DOMAIN ops, NEW j \in DOMAIN ops, Route(ops[i]) = Route(ops[j])
    PROVE  i = j
<1>. DEFINE a == ops[i]
            b == ops[j]
<1>1. a \in Metas /\ b \in Metas
    BY DEF RegistryFits
<1>. HIDE DEF a, b
<1>2. Route(a) = Route(b)
    BY DEF a, b
<1>3. a.parent = b.parent /\ a.name = b.name
  <2>. DEFINE p == a.parent
              n == a.name
              q == b.parent
              o == b.name
              r == Route(a)
              s == Route(b)
  <2>1. /\ p = NoName => r = <<n>> /\ Len(r) = 1
        /\ p # NoName => r = <<p, n>> /\ Len(r) = 2
      BY <1>1, RouteType
  <2>2. /\ q = NoName => s = <<o>> /\ Len(s) = 1
        /\ q # NoName => s = <<q, o>> /\ Len(s) = 2
      BY <1>1, RouteType
  <2>3. r = s
      BY <1>2
  <2>. HIDE DEF p, n, q, o, r, s
  <2>4. CASE p = NoName
    <3>1. q = NoName
        BY <2>1, <2>2, <2>3, <2>4
    <3>2. <<n>> = <<o>>
        BY <2>1, <2>2, <2>3, <2>4, <3>1
    <3>3. n = o
        BY <3>2
    <3>. QED BY <2>4, <3>1, <3>3 DEF p, q, n, o
  <2>5. CASE p # NoName
    <3>1. q # NoName
        BY <2>1, <2>2, <2>3, <2>5
    <3>2. <<p, n>> = <<q, o>>
        BY <2>1, <2>2, <2>3, <2>5, <3>1
    <3>3. p = q /\ n = o
        BY <3>2
    <3>. QED BY <3>3 DEF p, q, n, o
  <2>. QED BY <2>4, <2>5
<1>4. Key(a) = Key(b)
    BY <1>3, Zenon DEF Key
<1>. QED BY <1>4 DEF RegistryFits, KeysDiffer, a, b

(* The longest pattern that is a prefix of the path answers it. *)
LEMMA HttpFindsLongest ==
    ASSUME RegistryFits, NEW path, NEW allow
    PROVE  LET hit == {i \in Served(allow) : Prefix(Route(ops[i]), path)}
           IN  \/ hit = {} /\ HttpFind(path, allow).ran = Ran("unknown", 0)
               \/ \E b \in hit :
                     /\ \A j \in hit : Len(Route(ops[j])) <= Len(Route(ops[b]))
                     /\ HttpFind(path, allow).ran = Ran("op", b)
                     /\ HttpFind(path, allow).rest
                          = SubSeq(path, Len(Route(ops[b])) + 1, Len(path))
<1>. DEFINE hit == {i \in Served(allow) : Prefix(Route(ops[i]), path)}
            Longest(b) == \A j \in hit : Len(Route(ops[j])) <= Len(Route(ops[b]))
            best == CHOOSE i \in hit : Longest(i)
<1>1. CASE hit = {}
    BY <1>1 DEF HttpFind
<1>2. CASE hit # {}
  <2>1. \A i \in hit : Len(Route(ops[i])) \in {1, 2}
      BY RouteType DEF Served, RegistryFits
  <2>. HIDE DEF hit
  <2>2. \E b \in hit : Longest(b)
    <3>1. CASE \E b \in hit : Len(Route(ops[b])) = 2
        BY <2>1, <3>1
    <3>2. CASE \A b \in hit : Len(Route(ops[b])) = 1
        BY <1>2, <3>2
    <3>. QED BY <2>1, <3>1, <3>2
  <2>3. best \in hit /\ Longest(best)
    <3>. HIDE DEF Longest
    <3>. QED BY <2>2
  <2>4. HttpFind(path, allow) = [ran |-> Ran("op", best),
                                 rest |-> SubSeq(path, Len(Route(ops[best])) + 1, Len(path))]
      BY <1>2 DEF HttpFind, hit
  <2>. HIDE DEF best
  <2>. QED BY <2>3, <2>4 DEF hit
<1>. QED BY <1>1, <1>2

(* ---- What the invariant says of a call ---------------------------------- *)

(* What a call that was made looks like. *)
LEMMA CallMade ==
    ASSUME SurfacesIInv, Made
    PROVE  /\ call.op \in DOMAIN ops /\ Mine \in Metas /\ call.given \in Givens[Mine]
           /\ call.form \in Forms /\ call.allow \in BOOLEAN
           /\ call.ran = Find(call.form, Mine, call.given, call.allow).ran
           /\ call.bound = IF Itself
                           THEN BoundBy(call.form, Mine, call.given,
                                        Find(call.form, Mine, call.given, call.allow).rest, call.rt)
                           ELSE Failure
           /\ CliWords(Params, call.given) \in Seq(STRING)
           /\ PathWords(Params, call.given) \in Seq(STRING)
<1>1. Len(ops) \in Nat /\ DOMAIN ops = 1..Len(ops) /\ call.op \in 0..Len(ops) /\ call.op # 0
    BY DEF SurfacesIInv, RegistryFits, CallFits, Made
<1>2. call.op \in DOMAIN ops
    BY <1>1
<1>3. Mine \in Metas /\ call.given \in Givens[Mine]
    BY <1>2 DEF SurfacesIInv, RegistryFits, CallFits, Made, Mine
<1>4. CliWords(Params, call.given) \in Seq(STRING) /\ PathWords(Params, call.given) \in Seq(STRING)
  <2>1. Words \subseteq STRING
      BY WordsAssumption
  <2>2. CliWords(Params, call.given) \in Seq(Words) /\ PathWords(Params, call.given) \in Seq(Words)
      BY <1>3, WordsTyped DEF Params
  <2>. QED BY <2>1, <2>2, SeqMonotonic
<1>. QED BY <1>2, <1>3, <1>4 DEF SurfacesIInv, CallFits, Made, Answers, Mine, Itself

(* A tool call runs the operation that claimed the name last, which is no *)
(* earlier than the one meant (ToolCallsLatest).                          *)
LEMMA ToolsCallLatest == SurfacesIInv => ToolCallsLatest
<1>. SUFFICES ASSUME SurfacesIInv, By(ToolForms)
              PROVE  /\ call.ran.kind = "op" /\ call.ran.at >= call.op
                     /\ Tool(Mine) \in Claims(ops[call.ran.at])
    BY DEF ToolCallsLatest
<1>1. Made /\ call.form \in {"tool", "bare"}
    BY DEF By, ToolForms
<1>2. call.op \in DOMAIN ops /\ call.ran = McpFind(Tool(Mine)).ran
    BY <1>1, CallMade DEF Find, ToolForms
<1>3. Tool(Mine) \in Claims(Mine)
    BY DEF Claims
<1>4. Tool(Mine) \in DOMAIN byName /\ byName[Tool(Mine)] >= call.op
      /\ Tool(Mine) \in Claims(ops[byName[Tool(Mine)]])
    BY <1>2, <1>3 DEF SurfacesIInv, RegistryFits, NamesLatest, Mine
<1>5. call.ran = Ran("op", byName[Tool(Mine)])
    BY <1>2, <1>4 DEF McpFind
<1>. QED BY <1>4, <1>5 DEF Ran

(* A command runs the one meant or an earlier operation, and a hand-written *)
(* command keeps its words (CliRunsEarliest, HandWrittenKept).              *)
LEMMA CommandsRunEarliest == SurfacesIInv => CliRunsEarliest /\ HandWrittenKept
<1>. SUFFICES ASSUME SurfacesIInv, By({"cli"}) PROVE CliRunsEarliest /\ HandWrittenKept
    BY DEF CliRunsEarliest, HandWrittenKept
<1>. DEFINE W == CliWords(Params, call.given)
<1>1. Made /\ call.form = "cli"
    BY DEF By
<1>2. /\ call.op \in DOMAIN ops /\ W \in Seq(STRING)
      /\ call.ran = CliFind(Route(ops[call.op]) \o W).ran
    BY <1>1, CallMade DEF Find, ToolForms, Params, Mine
<1>3. RegistryFits
    BY DEF SurfacesIInv
<1>. HIDE DEF W
<1>4. CliRunsEarliest
    BY <1>2, <1>3, CliFindsOp DEF CliRunsEarliest, Mine, Itself, OpNode
<1>5. Mine.noCLI => ~Itself
    BY <1>2, <1>3, CliFindRest DEF Mine, Itself
<1>6. ASSUME Mine.noCLI, NEW j \in DOMAIN commands,
             commands[j].parent = Mine.parent, commands[j].name = Mine.name,
             \A k \in DOMAIN commands : Mine.parent = NoName => commands[k].parent # Mine.name,
             \A k \in DOMAIN ops \ {call.op} : Route(ops[k])[1] # Route(Mine)[1]
                                               /\ Route(Mine)[1] \notin ops[k].aliases
      PROVE  call.ran.kind = "cmd"
  <2>. USE DEF Mine
  <2>1. CliFind(Route(ops[call.op]) \o W).ran.kind = "cmd"
      BY <1>2, <1>3, <1>6, CliFindsHandWritten
  <2>. QED BY <1>2, <2>1
<1>. QED BY <1>4, <1>5, <1>6 DEF HandWrittenKept

(* The type invariant. *)
LEMMA SurfacesTyped == SurfacesIInv => SurfacesTypeOK
BY DEF SurfacesIInv, RegistryFits, NamesLatest, CallFits, SurfacesTypeOK

(* A path reaches its operation but for the known strays, and no write *)
(* operation without --allow-writes.                                   *)
LEMMA RoutesGated == SurfacesIInv => RoutesAreGated
<1>. SUFFICES ASSUME SurfacesIInv, By(HttpForms) PROVE RoutesAreGated
    BY DEF RoutesAreGated, RouteStraysKnown, WritesAreGated
<1>. DEFINE W == PathWords(Params, call.given)
            r == Route(Mine)
            path == IF call.form = "path" THEN r \o W ELSE r
            hit == {i \in Served(call.allow) : Prefix(Route(ops[i]), path)}
<1>1. Made /\ call.form \in {"path", "query"}
    BY DEF By, HttpForms
<1>2. /\ call.op \in DOMAIN ops /\ Mine \in Metas /\ W \in Seq(STRING)
      /\ call.ran = HttpFind(path, call.allow).ran
  <2>1. /\ call.op \in DOMAIN ops /\ Mine \in Metas /\ W \in Seq(STRING)
        /\ call.ran = Find(call.form, Mine, call.given, call.allow).ran
      BY <1>1, CallMade
  <2>2. CASE call.form = "path"
      BY <2>1, <2>2 DEF Find, ToolForms, Params
  <2>3. CASE call.form = "query"
      BY <2>1, <2>3 DEF Find, ToolForms
  <2>. QED BY <1>1, <2>1, <2>2, <2>3
<1>3. RegistryFits
    BY DEF SurfacesIInv
<1>4. r \in Seq(STRING) /\ path \in Seq(STRING) /\ Prefix(r, path)
  <2>1. r \in Seq(STRING)
      BY <1>2, RouteType
  <2>. HIDE DEF r, W
  <2>. QED BY <1>2, <2>1, PrefixOfConcat, ConcatProperties
<1>5. call.form = "query" => path = r
    BY <1>1
<1>6. ~Mine.write \/ call.allow => call.op \in hit
    BY <1>2, <1>4 DEF Served, Mine
<1>. HIDE DEF r, path, W
<1>7. CASE hit = {} /\ call.ran = Ran("unknown", 0)
  <2>1. call.ran.kind = "unknown"
      BY <1>7 DEF Ran
  <2>2. Mine.write /\ ~call.allow
      BY <1>6, <1>7
  <2>. QED BY <2>1, <2>2 DEF RoutesAreGated, RouteStraysKnown, WritesAreGated
<1>8. ASSUME NEW b \in hit, \A j \in hit : Len(Route(ops[j])) <= Len(Route(ops[b])),
             call.ran = Ran("op", b)
      PROVE  RoutesAreGated
  <2>1. call.ran.kind = "op" /\ call.ran.at = b /\ b \in DOMAIN ops /\ (ops[b].write => call.allow)
      BY <1>8 DEF Ran, Served
  <2>. DEFINE s == Route(ops[b])
  <2>2. s \in Seq(STRING) /\ Prefix(s, path)
      BY <1>3, <1>8, <2>1, RouteType DEF RegistryFits
  <2>. HIDE DEF hit
  <2>3. Len(r) \in Nat /\ Len(s) \in Nat
    <3>. HIDE DEF s
    <3>. QED BY <1>4, <2>2
  <2>4. Len(s) <= Len(r) => Prefix(s, r)
    <3>. HIDE DEF s
    <3>. QED BY <1>4, <2>2, PrefixesNest
  <2>5. Len(r) <= Len(s) => Prefix(r, s) /\ (Len(r) = Len(s) => r = s)
    <3>. HIDE DEF s
    <3>. QED BY <1>4, <2>2, PrefixesNest
  <2>6. r = s => b = call.op
      BY <1>2, <1>3, <2>1, RoutesDiffer DEF r, Mine
  <2>7. call.form = "query" => Len(s) <= Len(r)
    <3>1. Prefix(s, path) => Len(s) <= Len(path)
      <4>. HIDE DEF s
      <4>. QED BY <1>4, <2>2, PrefixIs
    <3>. QED BY <1>5, <2>2, <3>1
  <2>8. ASSUME ~Itself PROVE r # s
      BY <2>1, <2>6, <2>8, <1>8 DEF Itself, Ran
  <2>9. ASSUME ~Itself, ~Mine.write \/ call.allow
        PROVE  Prefix(r, s) /\ call.form = "path"
    <3>1. Len(r) <= Len(s)
        BY <1>6, <1>8, <2>9 DEF r, Mine
    <3>2. Len(r) # Len(s)
        BY <2>5, <2>8, <2>9, <3>1
    <3>3. ~(Len(s) <= Len(r))
        BY <2>3, <3>1, <3>2
    <3>. QED BY <1>1, <2>5, <2>7, <3>1, <3>3
  <2>10. ASSUME ~Itself, Mine.write, ~call.allow
         PROVE  (Prefix(r, s) /\ call.form = "path") \/ Prefix(s, r)
    <3>1. CASE Len(s) <= Len(r)
        BY <2>4, <3>1
    <3>2. CASE ~(Len(s) <= Len(r))
        BY <1>1, <2>3, <2>5, <2>7, <3>2
    <3>. QED BY <3>1, <3>2
  <2>11. call.allow \in BOOLEAN /\ Mine.write \in BOOLEAN
      BY <1>1, <1>2, CallMade, OpRegistryAssumption
  <2>12. RouteStraysKnown
      BY <2>1, <2>9, <2>10, <2>11 DEF RouteStraysKnown, r, s
  <2>13. WritesAreGated
      BY <2>1 DEF WritesAreGated
  <2>. QED BY <2>12, <2>13 DEF RoutesAreGated
<1>. QED BY <1>2, <1>3, <1>7, <1>8, HttpFindsLongest

(* ---- What the names come to --------------------------------------------- *)

(* Every step keeps the invariant: registrations come before the call, and *)
(* a call leaves the registry as it was.                                   *)
LEMMA SurfacesStep ==
    ASSUME SurfacesIInv, [SurfacesNext]_vars
    PROVE  SurfacesIInv'
<1>1. ASSUME RegistryNext, UNCHANGED call PROVE SurfacesIInv'
  <2>1. RegistryFits'
      BY <1>1, RegistryStep DEF SurfacesIInv
  <2>2. phase = "wiring"
      BY <1>1 DEF RegistryNext, Register, AddCommand, Start
  <2>3. call.op = 0
      BY <2>2 DEF SurfacesIInv, CallFits
  <2>4. call'.op = 0 /\ Len(ops') \in Nat
      BY <1>1, <2>1, <2>3 DEF RegistryFits
  <2>5. CallFits'
      BY <2>4 DEF CallFits
  <2>. QED BY <2>1, <2>5 DEF SurfacesIInv
<1>2. CASE Call
  <2>1. RegistryFits'
      BY <1>2 DEF Call, registry, SurfacesIInv, RegistryFits, NamesLatest, KeysDiffer
  <2>. QED BY <1>2, <2>1, CallIsMade DEF SurfacesIInv
<1>3. CASE UNCHANGED vars
  <2>1. UNCHANGED registry /\ call' = call /\ ops' = ops /\ phase' = phase
      BY <1>3 DEF vars, registry
  <2>2. RegistryFits'
      BY <2>1 DEF registry, SurfacesIInv, RegistryFits, NamesLatest, KeysDiffer
  <2>3. Find(call.form, ops[call.op], call.given, call.allow)'
          = Find(call.form, ops[call.op], call.given, call.allow)
      BY <2>1, FindStays
  <2>4. Answers(call) => Answers(call)'
      BY <2>1, <2>3 DEF Answers
  <2>5. CallFits'
      BY <2>1, <2>4 DEF CallFits, SurfacesIInv
  <2>. QED BY <2>2, <2>5 DEF SurfacesIInv
<1>. QED BY <1>1, <1>2, <1>3 DEF SurfacesNext

(* The registry names every operation under every name it claims, or a later *)
(* one, and a call finds what its surface makes of those names, whatever is  *)
(* registered and in whatever order.                                         *)
THEOREM SurfacesStay == SurfacesSpec => []SurfacesIInv
<1>. QED BY SurfacesStart, SurfacesStep, PTL DEF SurfacesSpec

(* What runs when several operations or a hand-written command claim a name: *)
(* over MCP the latest owner, on the command line the earliest one.          *)
THEOREM SurfacesCorrect == SurfacesSpec => []SurfacesInv
<1>1. SurfacesIInv => SurfacesInv
    BY ToolsCallLatest, CommandsRunEarliest, SurfacesTyped DEF SurfacesInv
<1>. QED BY <1>1, SurfacesStay, PTL

(* Over HTTP no write operation answers without --allow-writes, and a path *)
(* strays from its operation in the known ways only.                       *)
THEOREM WritesGated == SurfacesSpec => []RoutesAreGated
<1>. QED BY SurfacesStay, RoutesGated, PTL

(* ---- The parameters of an operation ------------------------------------- *)

(* What reflectIn makes of a field (kit/op.go:168-275): a list, a number or a *)
(* word, unless kit injects it.                                              *)
Readable(p) ==
    /\ p.kind \in {"arg", "flag", "inject"}
    /\ p.kind # "inject" => p.type \in {"slice", "int", "string"}
    /\ p.variadic \in BOOLEAN /\ p.inherit \in BOOLEAN
    /\ p.def \in Words \cup {EmptyWord}

(* The parameter a field of a struct becomes. *)
LEMMA SpecRead ==
    ASSUME NEW f, f.def \in Words \cup {EmptyWord}
    PROVE  Readable(SpecOf(f))
<1>1. ParamType(f.go) \in {"slice", "int", "string"}
    BY DEF ParamType
<1>2. SpecOf(f).kind = "inject" \/ SpecOf(f).kind = "arg" \/ SpecOf(f).kind = "flag"
    BY DEF SpecOf
<1>3. SpecOf(f).kind # "inject" => SpecOf(f).type = ParamType(f.go)
    BY DEF SpecOf
<1>4. /\ SpecOf(f).variadic \in BOOLEAN /\ SpecOf(f).inherit \in BOOLEAN
      /\ SpecOf(f).def = f.def
    BY DEF SpecOf
<1>. QED BY <1>1, <1>2, <1>3, <1>4 DEF Readable

(* Every parameter of every operation is one. *)
LEMMA ParamsRead ==
    ASSUME NEW m \in Metas
    PROVE  \A k \in DOMAIN ParamsOf[m] : Readable(ParamsOf[m][k])
<1>. DEFINE F == [name : STRING, head : STRING, renamed : STRING, go : STRING,
                  options : SUBSET STRING, def : Words \cup {EmptyWord},
                  exported : BOOLEAN, tagged : BOOLEAN]
            fields == FieldsOf[m]
            bound == {i \in DOMAIN fields : fields[i].exported /\ fields[i].tagged}
            Nth(k) == CHOOSE i \in bound : Cardinality({j \in bound : j <= i}) = k
            n == Cardinality(bound)
<1>1. fields \in Seq(F)
    BY FieldsAssumption
<1>2. \A f \in F : Readable(SpecOf(f))
    BY SpecRead
<1>3. ParamsOf[m] = [k \in 1..n |-> SpecOf(fields[Nth(k)])]
    BY DEF ParamsOf, ReflectIn
<1>. HIDE DEF F, fields
<1>4. /\ Len(fields) \in Nat /\ DOMAIN fields = 1..Len(fields)
      /\ \A i \in DOMAIN fields : fields[i] \in F
    BY <1>1
<1>5. bound \in SUBSET (1..Len(fields))
    BY <1>4
<1>. HIDE DEF bound
<1>6. \A k \in 1..n : Nth(k) \in bound
  <2>. SUFFICES ASSUME NEW k \in 1..n PROVE Nth(k) \in bound
      OBVIOUS
  <2>1. \E i \in bound : Cardinality({j \in bound : j <= i}) = k
      BY <1>4, <1>5, RankTaken DEF Upto, n
  <2>. QED BY <2>1
<1>. HIDE DEF Nth, n
<1>7. \A k \in 1..n : Readable(SpecOf(fields[Nth(k)]))
    BY <1>2, <1>4, <1>5, <1>6
<1>. QED BY <1>3, <1>7

(* ---- One value ---------------------------------------------------------- *)

(* The conversions: a word is read as a string is (kit/input.go:186-252). *)
LEMMA ReadText ==
    ASSUME NEW type, NEW w
    PROVE  SetAny(type, Text(w)) = FromString(type, w)
BY DEF SetAny, Text

(* An int pflag has read is the number it spells. *)
LEMMA ReadTyped ==
    ASSUME NEW w \in Numerals
    PROVE  SetAny("int", Typed(w)) = FromString("int", w) /\ FromString("int", w) = Good(<<w>>)
<1>1. w # EmptyWord
    BY WordsAssumption
<1>. QED BY <1>1 DEF SetAny, Typed, FromString, Scalar

(* A JSON number is the one it is converted to. *)
LEMMA ReadJson ==
    ASSUME NEW w \in Numbers
    PROVE  SetAny("int", Json(w)) = FromString("int", Converted[w])
<1>1. Converted[w] \in Numerals
    BY WordsAssumption
<1>2. SetAny("int", Json(w)) = Good(<<Converted[w]>>)
    BY DEF SetAny, Json
<1>. QED BY <1>1, <1>2, ReadTyped

(* A list is read as it is. *)
LEMMA ReadList ==
    ASSUME NEW ws
    PROVE  SetAny("slice", List(ws)) = Good(ws) /\ SetSlice("slice", ws) = Good(ws)
BY DEF SetAny, List, SetSlice

(* ---- What each surface writes down -------------------------------------- *)

(* The positional words of a form, one part a parameter. *)
FlatParts(ps, given, part) ==
    [k \in DOMAIN ps |->
        IF k \in ArgsOf(ps) THEN FlattenSeq([i \in DOMAIN given[k] |-> part[given[k][i]]])
        ELSE <<>>]
ToolParts(ps, given, bare) ==
    [k \in DOMAIN ps |->
        IF k \in ArgsOf(ps) /\ given[k] # <<>>
        THEN McpWord(ps[k].variadic, JsonRaw(ps[k], given[k], bare)) ELSE <<>>]
PartsOf(form, ps, given) ==
    CASE form = "cli"  -> FlatParts(ps, given, Whole)
      [] form = "path" -> FlatParts(ps, given, Segments)
      [] OTHER         -> ToolParts(ps, given, form = "bare")

(* The parameters and values of a call. *)
Asks(ps, given, n) ==
    /\ n \in Nat /\ DOMAIN ps = 1..n /\ \A k \in 1..n : Readable(ps[k])
    /\ Fits(ps, given) /\ Conventional(ps)

(* The words of the arguments are one part each. *)
Keeps(part, ps, given) ==
    \A k \in ArgsOf(ps) : \A i \in DOMAIN given[k] : part[given[k][i]] = <<given[k][i]>>

(* Then a command line, or a path, says each argument as it was given. *)
LEMMA FlatFits ==
    ASSUME NEW ps, NEW given, NEW n, Asks(ps, given, n), NEW part \in [Words -> Seq(Words)],
           Keeps(part, ps, given)
    PROVE  /\ FlatParts(ps, given, part) \in Seq(Seq(Words)) /\ Len(FlatParts(ps, given, part)) = n
           /\ \A k \in 1..n : FlatParts(ps, given, part)[k]
                                = IF k \in ArgsOf(ps) THEN given[k] ELSE <<>>
<1>1. n \in Nat /\ DOMAIN ps = 1..n /\ given \in [1..n -> Seq(Words)]
    BY DEF Asks, Fits
<1>. DEFINE parts == FlatParts(ps, given, part)
<1>2. \A k \in 1..n : k \notin ArgsOf(ps) => parts[k] = <<>>
    BY <1>1 DEF FlatParts
<1>3. ASSUME NEW k \in ArgsOf(ps) PROVE parts[k] = given[k]
  <2>. DEFINE v == given[k]
              seqs == [i \in DOMAIN v |-> part[v[i]]]
  <2>1. k \in 1..n /\ v \in Seq(Words)
      BY <1>1, <1>3 DEF ArgsOf
  <2>2. parts[k] = FlattenSeq(seqs)
      BY <1>1, <1>3, <2>1 DEF FlatParts
  <2>3. \A i \in DOMAIN v : part[v[i]] = <<v[i]>>
      BY <1>3 DEF Keeps
  <2>. HIDE DEF v
  <2>4. Len(v) \in Nat /\ DOMAIN v = 1..Len(v) /\ \A i \in 1..Len(v) : v[i] \in Words
      BY <2>1
  <2>. DEFINE Q == Seq(Words)
  <2>5. \A i \in 1..Len(v) : part[v[i]] \in Q
      BY <2>4
  <2>6. Len(seqs) = Len(v) /\ \A i \in 1..Len(v) : seqs[i] = <<v[i]>>
      BY <2>3, <2>4
  <2>7. seqs \in Seq(Q)
    <3>. HIDE DEF Q
    <3>. QED BY <2>4, <2>5
  <2>8. FlattenSeq(seqs) = v
    <3>. HIDE DEF seqs
    <3>. QED BY <2>1, <2>6, <2>7, Singles
  <2>. QED BY <2>2, <2>8 DEF v
<1>4. parts \in Seq(Seq(Words)) /\ Len(parts) = n
  <2>. DEFINE Q == Seq(Words)
  <2>1. \A k \in 1..n : parts[k] \in Q
    <3>1. \A k \in 1..n : given[k] \in Q
        BY <1>1
    <3>2. <<>> \in Q
        OBVIOUS
    <3>. HIDE DEF Q, parts
    <3>. QED BY <1>2, <1>3, <3>1, <3>2
  <2>2. DOMAIN parts = 1..n /\ parts = [k \in 1..n |-> parts[k]]
      BY <1>1 DEF FlatParts
  <2>. HIDE DEF Q, parts
  <2>3. parts \in Seq(Q) /\ Len(parts) = n
      BY <1>1, <2>1, <2>2
  <2>. QED BY <2>3 DEF Q
<1>. QED BY <1>2, <1>3, <1>4

(* What a tool call says of one argument (kit/surface_mcp.go:170-207). *)
LEMMA ToolWord ==
    ASSUME NEW p, Readable(p), p.kind = "arg", p.variadic <=> p.type = "slice",
           NEW v \in Seq(Words), v # <<>>, p.type # "slice" => Len(v) <= 1, NEW bare \in BOOLEAN
    PROVE  LET said == McpWord(p.variadic, JsonRaw(p, v, bare))
           IN  /\ said \in Seq(Words)
               /\ ~p.variadic =>
                     said = <<IF p.type = "int" /\ v[1] \in Numbers THEN Sprinted[v[1]] ELSE v[1]>>
               /\ p.variadic /\ (bare /\ Len(v) = 1 => Commas[v[1]] = <<v[1]>>) => said = v
<1>. DEFINE w == v[1]
            said == McpWord(p.variadic, JsonRaw(p, v, bare))
<1>1. w \in Words /\ Len(v) \in Nat /\ Len(v) # 0
    BY SeqMonotonic
<1>2. CASE p.type = "slice"
  <2>1. said = ToStringSlice(JsonRaw(p, v, bare))
      BY <1>2 DEF McpWord
  <2>2. CASE bare /\ Len(v) = 1
    <3>1. JsonRaw(p, v, bare) = Text(w)
        BY <1>2, <2>2 DEF JsonRaw
    <3>2. said = Commas[w]
        BY <2>1, <3>1 DEF ToStringSlice, Text
    <3>3. Commas[w] \in Seq(Words)
        BY <1>1, WordsAssumption
    <3>4. <<w>> = v
        BY <1>1, <2>2
    <3>. QED BY <1>2, <2>2, <3>2, <3>3, <3>4
  <2>3. CASE ~(bare /\ Len(v) = 1)
    <3>1. JsonRaw(p, v, bare) = List(v)
        BY <1>2, <2>3 DEF JsonRaw
    <3>2. said = v
        BY <2>1, <3>1 DEF ToStringSlice, List
    <3>. QED BY <1>2, <3>2
  <2>. QED BY <2>2, <2>3
<1>3. CASE p.type # "slice"
  <2>1. CASE p.type = "int" /\ w \in Numbers
    <3>1. JsonRaw(p, v, bare) = Json(w)
        BY <1>3, <2>1 DEF JsonRaw
    <3>2. said = <<Sprinted[w]>>
        BY <1>3, <3>1 DEF McpWord, Json
    <3>3. Sprinted[w] \in Words
        BY <2>1, WordsAssumption
    <3>. QED BY <1>3, <2>1, <3>2, <3>3
  <2>2. CASE ~(p.type = "int" /\ w \in Numbers)
    <3>1. JsonRaw(p, v, bare) = Text(w)
        BY <1>3, <2>2 DEF JsonRaw
    <3>2. said = <<w>>
        BY <1>3, <3>1 DEF McpWord, Text
    <3>. QED BY <1>1, <1>3, <2>2, <3>2
  <2>. QED BY <2>1, <2>2
<1>. QED BY <1>2, <1>3

(* The positional words of a call, parameter by parameter. *)
Carried(form, ps, given, n, parts) ==
    /\ parts \in Seq(Seq(Words)) /\ Len(parts) = n
    /\ \A k \in 1..n : k \notin ArgsOf(ps) \/ given[k] = <<>> => parts[k] = <<>>
    /\ \A k \in ArgsOf(ps) : ~ps[k].variadic /\ given[k] # <<>> =>
           parts[k] = <<Said(form, ps[k], given[k][1])>>
    /\ \A k \in ArgsOf(ps) : ps[k].variadic /\ ~(form = "bare" /\ Comma(ps, given, "arg")) =>
           parts[k] = given[k]

(* Every form that has positional words carries the arguments this way, *)
(* empty where nothing was given (kit/surface_mcp.go:161-207).          *)
LEMMA PartsFit ==
    ASSUME NEW ps, NEW given, NEW n, Asks(ps, given, n), NEW form \in {"cli", "path", "tool", "bare"},
           form = "path" => ~Slashed(ps, given)
    PROVE  Carried(form, ps, given, n, PartsOf(form, ps, given))
<1>1. /\ n \in Nat /\ DOMAIN ps = 1..n /\ given \in [1..n -> Seq(Words)]
      /\ \A k \in 1..n : Readable(ps[k]) /\ (ps[k].type # "slice" => Len(given[k]) <= 1)
    BY DEF Asks, Fits
<1>2. \A k \in ArgsOf(ps) : k \in 1..n /\ ps[k].kind = "arg" /\ (ps[k].variadic <=> ps[k].type = "slice")
    BY <1>1 DEF Asks, Conventional, ArgsOf
<1>3. \A k \in 1..n : given[k] \in Seq(Words)
    BY <1>1
<1>. DEFINE parts == PartsOf(form, ps, given)
            Fit == /\ parts \in Seq(Seq(Words)) /\ Len(parts) = n
                   /\ \A k \in 1..n : k \notin ArgsOf(ps) \/ given[k] = <<>> => parts[k] = <<>>
                   /\ \A k \in ArgsOf(ps) : ~ps[k].variadic /\ given[k] # <<>> =>
                          parts[k] = <<Said(form, ps[k], given[k][1])>>
                   /\ \A k \in ArgsOf(ps) : ps[k].variadic /\ ~(form = "bare" /\ Comma(ps, given, "arg")) =>
                          parts[k] = given[k]
<1>. SUFFICES Fit
    BY DEF Carried
<1>4. ASSUME NEW part \in [Words -> Seq(Words)], form \notin ToolForms, parts = FlatParts(ps, given, part),
             Keeps(part, ps, given)
      PROVE  Fit
  <2>. HIDE DEF parts
  <2>1. /\ parts \in Seq(Seq(Words)) /\ Len(parts) = n
        /\ \A k \in 1..n : parts[k] = IF k \in ArgsOf(ps) THEN given[k] ELSE <<>>
    <3>. DEFINE flat == FlatParts(ps, given, part)
    <3>1. /\ flat \in Seq(Seq(Words)) /\ Len(flat) = n
          /\ \A k \in 1..n : flat[k] = IF k \in ArgsOf(ps) THEN given[k] ELSE <<>>
        BY <1>4, FlatFits
    <3>2. parts = flat
        BY <1>4
    <3>. HIDE DEF flat
    <3>. QED BY <3>1, <3>2
  <2>2. \A k \in ArgsOf(ps) : parts[k] = given[k]
      BY <1>2, <2>1
  <2>3. ASSUME NEW k \in ArgsOf(ps), ~ps[k].variadic, given[k] # <<>>
        PROVE  parts[k] = <<Said(form, ps[k], given[k][1])>>
    <3>. DEFINE v == given[k]
    <3>1. v \in Seq(Words) /\ Len(v) <= 1 /\ v # <<>>
        BY <1>1, <1>2, <1>3, <2>3
    <3>2. Said(form, ps[k], v[1]) = v[1]
      <4>1. ps[k].kind = "arg" /\ form \notin {"tool", "bare"}
          BY <1>2, <1>4, <2>3 DEF ToolForms
      <4>. HIDE DEF v
      <4>. QED BY <4>1 DEF Said
    <3>. HIDE DEF v
    <3>3. v = <<v[1]>>
        BY <3>1, OneWord
    <3>. QED BY <2>2, <3>2, <3>3 DEF v
  <2>4. \A k \in 1..n : k \notin ArgsOf(ps) \/ given[k] = <<>> => parts[k] = <<>>
      BY <2>1
  <2>. QED BY <2>1, <2>2, <2>3, <2>4
<1>5. CASE form = "cli"
  <2>1. parts = FlatParts(ps, given, Whole) /\ form \notin ToolForms
      BY <1>5 DEF PartsOf, ToolForms
  <2>2. Whole \in [Words -> Seq(Words)]
      BY DEF Whole
  <2>3. ASSUME NEW k \in ArgsOf(ps), NEW i \in DOMAIN given[k]
        PROVE  Whole[given[k][i]] = <<given[k][i]>>
    <3>. DEFINE v == given[k]
    <3>1. v \in Seq(Words) /\ i \in DOMAIN v
        BY <1>2, <1>3
    <3>. HIDE DEF v
    <3>2. v[i] \in Words
        BY <3>1
    <3>. QED BY <3>2 DEF Whole, v
  <2>4. Keeps(Whole, ps, given)
      BY <2>3 DEF Keeps
  <2>. HIDE DEF parts
  <2>. QED BY <1>4, <2>1, <2>2, <2>4
<1>6. CASE form = "path"
  <2>1. parts = FlatParts(ps, given, Segments) /\ form \notin ToolForms
      BY <1>6 DEF PartsOf, ToolForms
  <2>2. Segments \in [Words -> Seq(Words)]
      BY WordsAssumption
  <2>3. Keeps(Segments, ps, given)
      BY <1>6 DEF Slashed, Keeps
  <2>. HIDE DEF parts
  <2>. QED BY <1>4, <2>1, <2>2, <2>3
<1>7. CASE form \in ToolForms
  <2>. DEFINE bare == form = "bare"
  <2>1. parts = ToolParts(ps, given, bare) /\ bare \in BOOLEAN
      BY <1>7 DEF PartsOf, ToolForms
  <2>2. \A k \in 1..n : parts[k] = IF k \in ArgsOf(ps) /\ given[k] # <<>>
                                   THEN McpWord(ps[k].variadic, JsonRaw(ps[k], given[k], bare)) ELSE <<>>
      BY <1>1, <2>1 DEF ToolParts
  <2>3. ASSUME NEW k \in ArgsOf(ps), given[k] # <<>>
        PROVE  /\ parts[k] \in Seq(Words)
               /\ ~ps[k].variadic => parts[k] = <<Said(form, ps[k], given[k][1])>>
               /\ ps[k].variadic /\ ~(form = "bare" /\ Comma(ps, given, "arg")) => parts[k] = given[k]
    <3>. DEFINE v == given[k]
                said == McpWord(ps[k].variadic, JsonRaw(ps[k], v, bare))
    <3>1. /\ v \in Seq(Words) /\ v # <<>> /\ (ps[k].type # "slice" => Len(v) <= 1)
          /\ Readable(ps[k]) /\ ps[k].kind = "arg" /\ (ps[k].variadic <=> ps[k].type = "slice")
        BY <1>1, <1>2, <1>3, <2>3
    <3>2. /\ said \in Seq(Words)
          /\ ~ps[k].variadic => said = <<IF ps[k].type = "int" /\ v[1] \in Numbers
                                         THEN Sprinted[v[1]] ELSE v[1]>>
          /\ ps[k].variadic /\ (bare /\ Len(v) = 1 => Commas[v[1]] = <<v[1]>>) => said = v
      <4>. HIDE DEF v, bare
      <4>. QED BY <2>1, <3>1, ToolWord
    <3>3. Said(form, ps[k], v[1]) = IF ps[k].type = "int" /\ v[1] \in Numbers
                                    THEN Sprinted[v[1]] ELSE v[1]
      <4>1. ps[k].kind = "arg" /\ form \in {"tool", "bare"}
          BY <1>2, <1>7, <2>3 DEF ToolForms
      <4>. HIDE DEF v
      <4>. QED BY <4>1 DEF Said
    <3>4. parts[k] = said
        BY <1>2, <2>2, <2>3
    <3>5. ps[k].variadic /\ ~(bare /\ Comma(ps, given, "arg")) /\ bare /\ Len(v) = 1 => Commas[v[1]] = <<v[1]>>
      <4>1. k \in DOMAIN ps /\ ps[k].kind = "arg"
          BY <1>1, <1>2
      <4>2. Len(v) = 1 => 1 \in DOMAIN v
        <5>. HIDE DEF v
        <5>. QED BY <3>1
      <4>. QED BY <1>2, <4>1, <4>2 DEF Comma
    <3>. HIDE DEF said, v
    <3>. QED BY <3>2, <3>3, <3>4, <3>5 DEF v
  <2>4. parts \in Seq(Seq(Words)) /\ Len(parts) = n
    <3>. DEFINE Q == Seq(Words)
    <3>1. \A k \in 1..n : parts[k] \in Q
      <4>1. <<>> \in Q
          OBVIOUS
      <4>. HIDE DEF parts
      <4>. QED BY <2>2, <2>3, <4>1
    <3>2. DOMAIN parts = 1..n /\ parts = [k \in 1..n |-> parts[k]]
        BY <1>1, <2>1 DEF ToolParts
    <3>. HIDE DEF Q, parts
    <3>3. parts \in Seq(Q) /\ Len(parts) = n
        BY <1>1, <3>1, <3>2
    <3>. QED BY <3>3 DEF Q
  <2>5. \A k \in 1..n : k \notin ArgsOf(ps) \/ given[k] = <<>> => parts[k] = <<>>
    <3>. HIDE DEF parts
    <3>. QED BY <2>2
  <2>6. \A k \in ArgsOf(ps) : given[k] = <<>> => parts[k] = given[k]
      BY <1>2, <2>5
  <2>. HIDE DEF parts
  <2>. QED BY <2>3, <2>4, <2>5, <2>6
<1>. QED BY <1>4, <1>5, <1>6, <1>7 DEF ToolForms

(* The parameters of a call, read one fact at a time. *)
LEMMA Known ==
    ASSUME NEW ps, NEW given, NEW n, Asks(ps, given, n)
    PROVE  /\ n \in Nat /\ DOMAIN ps = 1..n /\ DOMAIN given = 1..n
           /\ \A k \in 1..n : /\ Readable(ps[k]) /\ given[k] \in Seq(Words)
                              /\ ps[k].type # "slice" => Len(given[k]) <= 1
           /\ \A k \in ArgsOf(ps) : k \in 1..n /\ ps[k].kind = "arg" /\ (ps[k].variadic <=> ps[k].type = "slice")
           /\ \A j, k \in ArgsOf(ps) : j < k => ~ps[j].variadic
           /\ ArgsOf(ps) \in SUBSET (1..n)
<1>1. /\ n \in Nat /\ DOMAIN ps = 1..n /\ given \in [1..n -> Seq(Words)]
      /\ \A k \in 1..n : Readable(ps[k]) /\ (ps[k].type # "slice" => Len(given[k]) <= 1)
    BY DEF Asks, Fits
<1>2. \A k \in ArgsOf(ps) : k \in 1..n /\ ps[k].kind = "arg" /\ (ps[k].variadic <=> ps[k].type = "slice")
    BY <1>1 DEF Asks, Conventional, ArgsOf
<1>3. \A k \in 1..n : given[k] \in Seq(Words)
    BY <1>1
<1>4. ASSUME NEW j \in ArgsOf(ps), NEW k \in ArgsOf(ps), j < k PROVE ~ps[j].variadic
  <2>1. ps[j].variadic => k <= j
      BY DEF Asks, Conventional
  <2>2. j \in 1..n /\ k \in 1..n
      BY <1>2
  <2>. QED BY <1>1, <1>4, <2>1, <2>2
<1>. QED BY <1>1, <1>2, <1>3, <1>4

Declarations == [name : STRING, variadic : BOOLEAN, optional : BOOLEAN]

(* What Meta.Args says of an argument. *)
Declared(ps, given, decl, k) ==
    LET i == Cardinality(Upto(ArgsOf(ps), k))
    IN  /\ i \in 1..Len(decl)
        /\ decl[i].name = ps[k].name /\ decl[i].variadic = ps[k].variadic
        /\ Named(ps, given, ps[k].name) = IF given[k] = <<>> THEN {} ELSE {k}

(* The object of a tool call, when Meta.Args lines up with the struct: each *)
(* name of it stands for one argument, in the order of the struct.          *)
LEMMA NamesLineUp ==
    ASSUME NEW ps, NEW given, NEW n, Asks(ps, given, n), NEW decl, LinesUp(ps, decl),
           NEW k \in ArgsOf(ps)
    PROVE  Declared(ps, given, decl, k)
<1>. DEFINE A == ArgsOf(ps)
            C(t) == Cardinality(Upto(A, t))
<1>1. /\ n \in Nat /\ DOMAIN ps = 1..n /\ A \in SUBSET (1..n) /\ k \in 1..n
      /\ \A j, l \in DOMAIN ps : ps[j].name = ps[l].name => j = l
    BY DEF Asks, Conventional, ArgsOf
<1>2. Len(decl) = Cardinality(A) /\ decl[C(k)].name = ps[k].name /\ decl[C(k)].variadic = ps[k].variadic
    BY DEF LinesUp, Upto
<1>3. Named(ps, given, ps[k].name) = IF given[k] = <<>> THEN {} ELSE {k}
  <2>1. \A j \in DOMAIN ps : ps[j].name = ps[k].name <=> j = k
      BY <1>1
  <2>. QED BY <1>1, <2>1 DEF Named
<1>4. C(k) \in 1..Cardinality(A)
  <2>. HIDE DEF A
  <2>1. C(k) = C(k - 1) + 1 /\ C(k - 1) \in Nat
    <3>1. k - 1 \in Nat /\ (k - 1) + 1 = k /\ k \in A
        BY <1>1 DEF A
    <3>2. C((k - 1) + 1) = C(k - 1) + (IF (k - 1) + 1 \in A THEN 1 ELSE 0) /\ C(k - 1) \in Nat
        BY <1>1, <3>1, CountUp
    <3>. QED BY <3>1, <3>2
  <2>2. IsFiniteSet(A) /\ Upto(A, k) \in SUBSET A
    <3>1. IsFiniteSet(1..n)
        BY <1>1, FS_Interval
    <3>. QED BY <1>1, <3>1, FS_Subset DEF Upto
  <2>3. C(k) <= Cardinality(A) /\ Cardinality(A) \in Nat
      BY <2>2, FS_Subset, FS_CardinalityType
  <2>. HIDE DEF C
  <2>. QED BY <2>1, <2>3
<1>. QED BY <1>2, <1>3, <1>4 DEF Declared

(* Then its positional words are those of the arguments (mcpInput). *)
LEMMA ToolArgs ==
    ASSUME NEW ps, NEW given, NEW n, Asks(ps, given, n), NEW decl \in Seq(Declarations),
           LinesUp(ps, decl), NEW form \in ToolForms
    PROVE  McpPositional(ps, decl, given, form = "bare") = FlattenSeq(PartsOf(form, ps, given))
<1>. DEFINE A == ArgsOf(ps)
            bare == form = "bare"
            P == PartsOf(form, ps, given)
            One(i) == LET named == Named(ps, given, decl[i].name)
                          k == CHOOSE k \in named : TRUE
                      IN  IF named = {} THEN <<>>
                          ELSE McpWord(decl[i].variadic, JsonRaw(ps[k], given[k], bare))
            D == [i \in DOMAIN decl |-> One(i)]
            C(t) == Cardinality(Upto(A, t))
<1>1. /\ n \in Nat /\ DOMAIN ps = 1..n /\ A \in SUBSET (1..n)
      /\ Len(decl) = Cardinality(A) /\ DOMAIN decl = 1..Len(decl) /\ Len(decl) \in Nat
    BY Known DEF LinesUp
<1>2. P \in Seq(Seq(Words)) /\ Len(P) = n /\ \A k \in 1..n : k \notin A => P[k] = <<>>
  <2>1. form \in {"cli", "path", "tool", "bare"} /\ form # "path"
      BY DEF ToolForms
  <2>2. Carried(form, ps, given, n, P)
      BY <2>1, PartsFit
  <2>. HIDE DEF P
  <2>. QED BY <2>2 DEF Carried
<1>3. ASSUME NEW k \in A PROVE D[C(k)] = P[k]
  <2>1. /\ C(k) \in 1..Len(decl) /\ decl[C(k)].name = ps[k].name /\ decl[C(k)].variadic = ps[k].variadic
        /\ Named(ps, given, ps[k].name) = IF given[k] = <<>> THEN {} ELSE {k}
    <3>. HIDE DEF A
    <3>1. Declared(ps, given, decl, k)
        BY <1>3, NamesLineUp DEF A
    <3>. QED BY <3>1 DEF Declared, A
  <2>2. P[k] = IF given[k] = <<>> THEN <<>>
               ELSE McpWord(ps[k].variadic, JsonRaw(ps[k], given[k], bare))
    <3>1. P = ToolParts(ps, given, bare) /\ k \in DOMAIN ps
        BY <1>1, <1>3 DEF PartsOf, ToolForms
    <3>. QED BY <3>1, <1>3 DEF ToolParts
  <2>. HIDE DEF C, P, A, bare
  <2>3. D[C(k)] = One(C(k))
      BY <1>1, <2>1
  <2>4. {k} # {} /\ (CHOOSE j \in {k} : TRUE) = k
      OBVIOUS
  <2>. QED BY <2>1, <2>2, <2>3, <2>4
<1>4. D \in Seq(Seq(Words)) /\ Len(D) = Len(decl)
  <2>. DEFINE Q == Seq(Words)
  <2>1. \A i \in 1..Len(decl) : One(i) \in Q
    <3>. SUFFICES ASSUME NEW i \in 1..Len(decl) PROVE One(i) \in Q
        OBVIOUS
    <3>1. \E k \in A : C(k) = i
        BY <1>1, RankTaken
    <3>2. PICK k \in A : C(k) = i
        BY <3>1
    <3>3. D[i] = P[k]
        BY <1>3, <3>2
    <3>. HIDE DEF One, P, A
    <3>4. D[i] = One(i)
        BY <1>1
    <3>5. P[k] \in Seq(Words)
        BY <1>1, <1>2
    <3>. QED BY <3>3, <3>4, <3>5
  <2>. HIDE DEF Q, One
  <2>2. D \in Seq(Q) /\ Len(D) = Len(decl)
      BY <1>1, <2>1
  <2>. QED BY <2>2 DEF Q
<1>5. McpPositional(ps, decl, given, bare) = FlattenSeq(D)
    BY DEF McpPositional
<1>. HIDE DEF D, P, A, bare
<1>6. FlattenSeq(D) = FlattenSeq(P)
    BY <1>1, <1>2, <1>3, <1>4, Packed
<1>. QED BY <1>5, <1>6 DEF P, bare

(* A tool whose operation declares no Args sends no positional words. *)
LEMMA NoToolArgs ==
    ASSUME NEW ps, NEW given, NEW bare
    PROVE  McpPositional(ps, <<>>, given, bare) = <<>>
<1>. DEFINE One(i) == LET named == Named(ps, given, <<>>[i].name)
                          k == CHOOSE k \in named : TRUE
                      IN  IF named = {} THEN <<>>
                          ELSE McpWord(<<>>[i].variadic, JsonRaw(ps[k], given[k], bare))
            D == [i \in DOMAIN <<>> |-> One(i)]
<1>1. McpPositional(ps, <<>>, given, bare) = FlattenSeq(D)
    BY DEF McpPositional
<1>. HIDE DEF One
<1>2. D = <<>>
    OBVIOUS
<1>. HIDE DEF D
<1>3. FlattenSeq(D) = <<>>
    BY <1>2 DEF FlattenSeq
<1>. QED BY <1>1, <1>3

(* The form of a call, and the Meta.Args of its operation. *)
Shaped(form, ps, decl) ==
    /\ form \in Forms /\ decl \in Seq(Declarations)
    /\ form \in ToolForms => LinesUp(ps, decl) \/ decl = <<>>

(* The positional words bind is handed. *)
LEMMA ArgsAre ==
    ASSUME NEW form, NEW ps, NEW decl, NEW given, NEW n, Asks(ps, given, n), Shaped(form, ps, decl),
           NEW rest, form = "cli" => rest = CliWords(ps, given),
           form = "path" => rest = PathWords(ps, given), form = "query" => rest = <<>>
    PROVE  InputOf(form, ps, decl, given, rest).args
             = IF ByName(form, decl) THEN <<>> ELSE FlattenSeq(PartsOf(form, ps, given))
<1>1. CASE form = "cli"
  <2>1. InputOf(form, ps, decl, given, rest).args = rest /\ ~ByName(form, decl)
      BY <1>1 DEF InputOf, ByName
  <2>2. CliWords(ps, given) = FlattenSeq(PartsOf(form, ps, given))
      BY <1>1 DEF CliWords, Flat, PartsOf, FlatParts
  <2>. QED BY <1>1, <2>1, <2>2
<1>2. CASE form = "path"
  <2>1. InputOf(form, ps, decl, given, rest).args = rest /\ ~ByName(form, decl)
      BY <1>2 DEF InputOf, ByName
  <2>2. PathWords(ps, given) = FlattenSeq(PartsOf(form, ps, given))
      BY <1>2 DEF PathWords, Flat, PartsOf, FlatParts
  <2>. QED BY <1>2, <2>1, <2>2
<1>3. CASE form = "query"
  <2>1. InputOf(form, ps, decl, given, rest).args = rest /\ ByName(form, decl)
      BY <1>3 DEF InputOf, ByName
  <2>. QED BY <1>3, <2>1
<1>4. CASE form \in ToolForms
  <2>1. InputOf(form, ps, decl, given, rest).args = McpPositional(ps, decl, given, form = "bare")
      BY <1>4 DEF InputOf, ToolForms
  <2>2. ByName(form, decl) <=> decl = <<>>
      BY <1>4 DEF ByName, ToolForms
  <2>3. CASE decl = <<>>
      BY <2>1, <2>2, <2>3, NoToolArgs
  <2>4. CASE decl # <<>>
    <3>1. LinesUp(ps, decl) /\ decl \in Seq(Declarations)
        BY <1>4, <2>4 DEF Shaped
    <3>. QED BY <1>4, <2>1, <2>2, <2>4, <3>1, ToolArgs
  <2>. QED BY <2>3, <2>4
<1>. QED BY <1>1, <1>2, <1>3, <1>4 DEF Shaped, Forms, HttpForms

(* What a form has under the name of a parameter: arguments only where they *)
(* are read by name.                                                        *)
RawOf(form, loose, p, v) ==
    IF form = "cli"
    THEN IF p.kind # "flag" \/ Shown(p, v) = <<>> THEN Absent ELSE CliRaw(p, Shown(p, v))
    ELSE IF form \in HttpForms
    THEN IF p.kind = "inject" \/ (p.kind = "arg" /\ ~loose) \/ v = <<>> THEN Absent ELSE QueryRaw(p, v)
    ELSE IF (p.kind = "arg" /\ ~loose) \/ v = <<>> THEN Absent ELSE JsonRaw(p, v, form = "bare")

(* The raw values bind is handed. *)
LEMMA FlagsAre ==
    ASSUME NEW form, NEW ps, NEW decl, NEW given, NEW n, Asks(ps, given, n), Shaped(form, ps, decl),
           NEW rest, NEW k \in DOMAIN ps
    PROVE  InputOf(form, ps, decl, given, rest).flags[k] = RawOf(form, ByName(form, decl), ps[k], given[k])
<1>0. /\ n \in Nat /\ DOMAIN ps = 1..n /\ Readable(ps[k])
      /\ ps[k].kind = "arg" \/ ps[k].kind = "flag" \/ ps[k].kind = "inject"
    BY DEF Asks, Readable
<1>1. CASE form = "cli"
  <2>1. InputOf(form, ps, decl, given, rest).flags = CliFlags(ps, given)
      BY <1>1 DEF InputOf
  <2>. DEFINE w == [j \in DOMAIN ps |-> Shown(ps[j], given[j])]
  <2>2. CliFlags(ps, given)[k] = IF ps[k].kind # "flag" \/ w[k] = <<>> THEN Absent
                                 ELSE CliRaw(ps[k], w[k])
      BY DEF CliFlags, FlagsBy
  <2>3. w[k] = Shown(ps[k], given[k])
      OBVIOUS
  <2>. QED BY <1>1, <2>1, <2>2, <2>3 DEF RawOf
<1>2. CASE form = "path"
  <2>1. InputOf(form, ps, decl, given, rest).flags = PathFlags(ps, given)
      BY <1>2 DEF InputOf
  <2>2. PathFlags(ps, given)[k] = IF ps[k].kind # "flag" \/ given[k] = <<>> THEN Absent
                                  ELSE QueryRaw(ps[k], given[k])
      BY DEF PathFlags, FlagsBy
  <2>3. ~ByName(form, decl) /\ form \in HttpForms /\ form # "cli"
      BY <1>2 DEF ByName, HttpForms
  <2>. QED BY <1>0, <2>1, <2>2, <2>3 DEF RawOf
<1>3. CASE form = "query"
  <2>1. InputOf(form, ps, decl, given, rest).flags = QueryFlags(ps, given)
      BY <1>3 DEF InputOf
  <2>2. QueryFlags(ps, given)[k] = IF ps[k].kind = "inject" \/ given[k] = <<>> THEN Absent
                                   ELSE QueryRaw(ps[k], given[k])
      BY DEF QueryFlags
  <2>3. ByName(form, decl) /\ form \in HttpForms /\ form # "cli"
      BY <1>3 DEF ByName, HttpForms
  <2>. QED BY <2>1, <2>2, <2>3 DEF RawOf
<1>4. CASE form \in ToolForms
  <2>1. InputOf(form, ps, decl, given, rest).flags = McpFlags(ps, decl, given, form = "bare")
      BY <1>4 DEF InputOf, ToolForms
  <2>. DEFINE listed == \E i \in DOMAIN decl : decl[i].name = ps[k].name
  <2>2. McpFlags(ps, decl, given, form = "bare")[k]
          = IF given[k] = <<>> \/ listed THEN Absent ELSE JsonRaw(ps[k], given[k], form = "bare")
      BY DEF McpFlags
  <2>3. (ByName(form, decl) <=> decl = <<>>) /\ form # "cli" /\ form \notin HttpForms
      BY <1>4 DEF ByName, ToolForms, HttpForms
  <2>4. listed <=> ps[k].kind = "arg" /\ ~ByName(form, decl)
    <3>1. CASE decl = <<>>
        BY <2>3, <3>1
    <3>2. CASE decl # <<>>
      <4>1. LinesUp(ps, decl) /\ decl \in Seq(Declarations)
          BY <1>4, <3>2 DEF Shaped
      <4>. DEFINE A == ArgsOf(ps)
                  C(t) == Cardinality(Upto(A, t))
      <4>2. DOMAIN decl = 1..Len(decl) /\ Len(decl) = Cardinality(A)
          BY <4>1 DEF LinesUp
      <4>3. ASSUME ps[k].kind = "arg" PROVE listed
        <5>1. k \in A
            BY <4>3 DEF ArgsOf
        <5>2. C(k) \in 1..Len(decl) /\ decl[C(k)].name = ps[k].name
          <6>1. Declared(ps, given, decl, k)
              BY <4>1, <5>1, NamesLineUp
          <6>. QED BY <6>1 DEF Declared
        <5>. HIDE DEF C
        <5>. QED BY <4>2, <5>2
      <4>4. ASSUME NEW i \in DOMAIN decl, decl[i].name = ps[k].name PROVE ps[k].kind = "arg"
        <5>1. A \in SUBSET (1..n) /\ i \in 1..Cardinality(A)
            BY <1>0, <4>2 DEF ArgsOf
        <5>2. PICK j \in A : C(j) = i
            BY <1>0, <5>1, RankTaken
        <5>3. decl[C(j)].name = ps[j].name
          <6>1. Declared(ps, given, decl, j)
              BY <4>1, <5>2, NamesLineUp
          <6>. QED BY <6>1 DEF Declared
        <5>4. j \in DOMAIN ps /\ ps[j].kind = "arg" /\ ps[j].name = ps[k].name
          <6>. HIDE DEF C
          <6>. QED BY <4>4, <5>2, <5>3 DEF ArgsOf
        <5>. QED BY <5>4 DEF Asks, Conventional
      <4>. QED BY <2>3, <3>2, <4>3, <4>4
    <3>. QED BY <3>1, <3>2
  <2>. HIDE DEF listed
  <2>. QED BY <1>4, <2>1, <2>2, <2>3, <2>4 DEF RawOf
<1>. QED BY <1>1, <1>2, <1>3, <1>4 DEF Shaped, Forms, HttpForms

(* No word of a list holds a comma. *)
Unsplit(x) == \A i \in DOMAIN x : Commas[x[i]] = <<x[i]>>

(* A flag is read as its form says it, a number as pflag or reflect.Convert *)
(* has made it (kit/input.go:109-131, 206-208).                             *)
LEMMA FlagRead ==
    ASSUME NEW p, Readable(p), p.kind = "flag", ~p.inherit,
           p.type = "int" /\ p.def # EmptyWord => p.def \in Numerals,
           NEW v \in Seq(Words), p.type # "slice" => Len(v) <= 1,
           NEW form \in Forms, NEW loose, NEW limit,
           p.type = "slice" /\ form # "tool" => Unsplit(v)
    PROVE  BindFlag(p, RawOf(form, loose, p, v), limit)
             = IF v = <<>> THEN Default(p)
               ELSE IF p.type = "slice" THEN Good(v) ELSE FromString(p.type, Said(form, p, v[1]))
<1>. DEFINE raw == RawOf(form, loose, p, v)
            Taken(x) == IF p.type # "slice" THEN FromString(p.type, Said("cli", p, x[1]))
                       ELSE IF Unsplit(x) THEN Good(x) ELSE Good(Commas[x[1]])
            Want == IF p.type = "slice" THEN Good(v) ELSE FromString(p.type, Said(form, p, v[1]))
<1>1. BindFlag(p, raw, limit) = IF raw = Absent THEN Default(p) ELSE SetAny(p.type, raw)
    BY DEF BindFlag
<1>2. \A w : Text(w) # Absent /\ Typed(w) # Absent /\ List(w) # Absent /\ Json(w) # Absent
    BY DEF Text, Typed, Json, List, Absent
<1>3. p.type \in {"slice", "int", "string"} /\ p.def \in Words \cup {EmptyWord}
    BY DEF Readable
<1>4. v # <<>> /\ p.type # "slice" => Len(v) = 1 /\ v = <<v[1]>>
    BY OneWord
<1>10. /\ p.type # "int" => \A f, w : Said(f, p, w) = w
       /\ p.type = "int" => \A w : Said("cli", p, w) = IF w \in DOMAIN FlagInt THEN FlagInt[w] ELSE w
       /\ form \in HttpForms => \A w : Said(form, p, w) = w
       /\ form \in ToolForms /\ p.type = "int" =>
             \A w : Said(form, p, w) = IF w \in Numbers THEN Converted[w] ELSE w
    BY DEF Said, HttpForms, ToolForms
<1>11. \A w \in DOMAIN FlagInt : FlagInt[w] \in Numerals
    BY WordsAssumption
<1>5. ASSUME NEW x \in Seq(Words), x # <<>>, p.type # "slice" => Len(x) <= 1,
             p.type = "slice" /\ ~Unsplit(x) => Len(x) = 1
      PROVE  /\ CliRaw(p, x) # Absent
             /\ SetAny(p.type, CliRaw(p, x)) = Taken(x)
  <2>1. CASE p.type = "slice"
    <3>. DEFINE Q == Seq(Words)
                seqs == [i \in DOMAIN x |-> Commas[x[i]]]
    <3>1. Len(x) \in Nat /\ DOMAIN x = 1..Len(x) /\ \A i \in 1..Len(x) : x[i] \in Words
        BY <1>5
    <3>2. \A i \in 1..Len(x) : Commas[x[i]] \in Q
        BY <3>1, WordsAssumption
    <3>3. seqs \in Seq(Q) /\ Len(seqs) = Len(x)
      <4>. HIDE DEF Q
      <4>. QED BY <3>1, <3>2
    <3>4. \A i \in 1..Len(x) : seqs[i] = Commas[x[i]]
        BY <3>1
    <3>5. CliRaw(p, x) = List(FlattenSeq(seqs))
        BY <2>1 DEF CliRaw
    <3>. HIDE DEF seqs
    <3>6. SetAny(p.type, CliRaw(p, x)) = Good(FlattenSeq(seqs)) /\ CliRaw(p, x) # Absent
        BY <1>2, <2>1, <3>5, ReadList
    <3>7. CASE Unsplit(x)
      <4>1. \A i \in 1..Len(x) : seqs[i] = <<x[i]>>
          BY <3>1, <3>4, <3>7 DEF Unsplit
      <4>2. FlattenSeq(seqs) = x
          BY <1>5, <3>3, <4>1, Singles
      <4>. QED BY <2>1, <3>6, <3>7, <4>2
    <3>8. CASE ~Unsplit(x)
      <4>1. Len(x) = 1 /\ Len(seqs) = 1 /\ seqs[1] = Commas[x[1]] /\ Commas[x[1]] \in Seq(Words)
          BY <1>5, <2>1, <3>1, <3>2, <3>3, <3>4, <3>8
      <4>2. FlattenSeq(seqs) = Commas[x[1]]
          BY <3>3, <4>1, OnlyPart
      <4>. QED BY <2>1, <3>6, <3>8, <4>2
    <3>. QED BY <3>7, <3>8
  <2>2. CASE p.type # "slice"
    <3>1. CASE p.type = "int" /\ x[1] \in DOMAIN FlagInt
      <4>1. CliRaw(p, x) = Typed(FlagInt[x[1]]) /\ FlagInt[x[1]] \in Numerals
          BY <1>11, <2>2, <3>1 DEF CliRaw
      <4>2. Taken(x) = FromString("int", FlagInt[x[1]])
          BY <1>10, <2>2, <3>1
      <4>. HIDE DEF Taken
      <4>. QED BY <1>2, <2>2, <3>1, <4>1, <4>2, ReadTyped
    <3>2. CASE ~(p.type = "int" /\ x[1] \in DOMAIN FlagInt)
      <4>1. CliRaw(p, x) = Text(x[1])
          BY <2>2, <3>2 DEF CliRaw
      <4>2. Taken(x) = FromString(p.type, x[1])
          BY <1>10, <2>2, <3>2
      <4>. HIDE DEF Taken
      <4>. QED BY <1>2, <2>2, <4>1, <4>2, ReadText
    <3>. QED BY <3>1, <3>2
  <2>. QED BY <2>1, <2>2
<1>6. CASE form = "cli"
  <2>. DEFINE x == Shown(p, v)
  <2>1. raw = IF x = <<>> THEN Absent ELSE CliRaw(p, x)
      BY <1>6 DEF RawOf
  <2>2. CASE v # <<>>
    <3>1. x = v
        BY <2>2 DEF Shown
    <3>2. raw # Absent /\ SetAny(p.type, raw) = Want
        BY <1>5, <1>6, <2>1, <2>2, <3>1
    <3>. QED BY <1>1, <2>2, <3>2
  <2>3. CASE v = <<>> /\ p.def = EmptyWord
    <3>1. x = <<>>
        BY <2>3 DEF Shown
    <3>. QED BY <1>1, <2>1, <2>3, <3>1
  <2>4. CASE v = <<>> /\ p.def # EmptyWord
    <3>. DEFINE d == p.def
    <3>1. x = <<d>> /\ d \in Words
        BY <1>3, <2>4 DEF Shown
    <3>2. <<d>> \in Seq(Words) /\ Len(<<d>>) = 1 /\ <<d>>[1] = d /\ <<d>> # <<>> /\ DOMAIN <<d>> = {1}
        BY <3>1
    <3>3. Default(p) = FromString(p.type, d)
        BY <2>4 DEF Default
    <3>. HIDE DEF d, x
    <3>. DEFINE o == <<d>>
    <3>4. o \in Seq(Words) /\ Len(o) = 1 /\ o[1] = d /\ o # <<>> /\ DOMAIN o = {1} /\ x = o
        BY <3>1, <3>2
    <3>. HIDE DEF o
    <3>5. CliRaw(p, o) # Absent /\ SetAny(p.type, CliRaw(p, o)) = Taken(o)
      <4>1. Len(o) <= 1
          BY <3>4
      <4>. HIDE DEF Taken
      <4>. QED BY <1>5, <3>4, <4>1
    <3>6. p.type = "slice" => FromString(p.type, d) = Good(Commas[d])
        BY DEF FromString
    <3>7. Unsplit(o) => Commas[d] = o
        BY <3>4 DEF o, Unsplit
    <3>9. Said("cli", p, d) = d
      <4>1. p.type = "int" => d \in Numerals
          BY <2>4 DEF d
      <4>. QED BY <1>10, <4>1, WordsAssumption
    <3>8. SetAny(p.type, CliRaw(p, o)) = Default(p)
        BY <3>3, <3>4, <3>5, <3>6, <3>7, <3>9
    <3>. QED BY <1>1, <2>1, <2>4, <3>4, <3>5, <3>8
  <2>. QED BY <2>2, <2>3, <2>4
<1>7. ASSUME form # "cli", v = <<>> PROVE raw = Absent
  <2>1. form \in HttpForms \/ form \in ToolForms
      BY <1>7 DEF Forms
  <2>. QED BY <1>7, <2>1 DEF RawOf
<1>8. ASSUME form \in HttpForms, v # <<>> PROVE raw # Absent /\ SetAny(p.type, raw) = Want
  <2>1. raw = QueryRaw(p, v)
    <3>1. form # "cli"
        BY <1>8 DEF HttpForms
    <3>. QED BY <1>8, <3>1 DEF RawOf
  <2>2. CASE Len(v) = 1
    <3>1. raw = Text(v[1])
        BY <2>1, <2>2 DEF QueryRaw
    <3>2. SetAny(p.type, raw) = FromString(p.type, v[1]) /\ raw # Absent /\ Said(form, p, v[1]) = v[1]
        BY <1>2, <1>8, <1>10, <3>1, ReadText
    <3>3. p.type = "slice" => FromString(p.type, v[1]) = Good(v)
      <4>1. Len(v) <= 1 /\ 1 \in DOMAIN v /\ v = <<v[1]>>
          BY <1>8, <2>2, OneWord
      <4>2. form # "tool"
          BY <1>8 DEF HttpForms
      <4>3. p.type = "slice" => Commas[v[1]] = v
          BY <4>1, <4>2 DEF Unsplit
      <4>. QED BY <4>3 DEF FromString
    <3>. QED BY <3>2, <3>3
  <2>3. CASE Len(v) # 1
    <3>1. p.type = "slice" /\ raw = List(v)
        BY <1>4, <1>8, <2>1, <2>3 DEF QueryRaw
    <3>. QED BY <1>2, <3>1, ReadList
  <2>. QED BY <2>2, <2>3
<1>9. ASSUME form \in ToolForms, v # <<>> PROVE raw # Absent /\ SetAny(p.type, raw) = Want
  <2>1. raw = JsonRaw(p, v, form = "bare")
    <3>1. form # "cli" /\ form \notin HttpForms
        BY <1>9 DEF ToolForms, HttpForms
    <3>. QED BY <1>9, <3>1 DEF RawOf
  <2>2. CASE p.type = "slice" /\ form = "bare" /\ Len(v) = 1
    <3>1. raw = Text(v[1])
        BY <2>1, <2>2 DEF JsonRaw
    <3>2. SetAny(p.type, raw) = FromString(p.type, v[1]) /\ raw # Absent
        BY <1>2, <3>1, ReadText
    <3>3. Len(v) <= 1 /\ 1 \in DOMAIN v /\ v = <<v[1]>>
        BY <1>9, <2>2, OneWord
    <3>4. Commas[v[1]] = v
        BY <2>2, <3>3 DEF Unsplit
    <3>5. FromString(p.type, v[1]) = Good(v)
        BY <2>2, <3>4 DEF FromString
    <3>. QED BY <2>2, <3>2, <3>5
  <2>3. CASE p.type = "slice" /\ ~(form = "bare" /\ Len(v) = 1)
    <3>1. raw = List(v)
        BY <2>1, <2>3 DEF JsonRaw
    <3>. QED BY <1>2, <2>3, <3>1, ReadList
  <2>4. CASE p.type # "slice" /\ p.type = "int" /\ v[1] \in Numbers
    <3>1. raw = Json(v[1])
        BY <2>1, <2>4 DEF JsonRaw
    <3>2. Said(form, p, v[1]) = Converted[v[1]]
        BY <1>9, <1>10, <2>4
    <3>. QED BY <1>2, <2>4, <3>1, <3>2, ReadJson
  <2>5. CASE p.type # "slice" /\ ~(p.type = "int" /\ v[1] \in Numbers)
    <3>1. raw = Text(v[1])
        BY <2>1, <2>5 DEF JsonRaw
    <3>2. Said(form, p, v[1]) = v[1]
        BY <1>9, <1>10, <2>5
    <3>. QED BY <1>2, <2>5, <3>1, <3>2, ReadText
  <2>. QED BY <2>2, <2>3, <2>4, <2>5
<1>. HIDE DEF raw
<1>. QED BY <1>1, <1>6, <1>7, <1>8, <1>9 DEF Forms, raw

(* The cursor of a parameter is the number of arguments before it, none of *)
(* which takes all the words that are left.                                *)
LEMMA CursorAt ==
    ASSUME NEW ps, NEW given, NEW n, Asks(ps, given, n), NEW k \in ArgsOf(ps), NEW args
    PROVE  Cursor(ps, k, args) = Cardinality(Upto(ArgsOf(ps), k - 1))
<1>. DEFINE A == ArgsOf(ps)
            before == {j \in A : j < k}
<1>1. n \in Nat /\ k \in 1..n /\ (\A j \in A : j \in 1..n) /\ \A j \in A : j < k => ~ps[j].variadic
    BY Known
<1>. HIDE DEF A
<1>2. before = Upto(A, k - 1)
  <2>1. \A j \in A : j < k <=> j <= k - 1
      BY <1>1
  <2>. QED BY <2>1 DEF Upto
<1>3. Cursor(ps, k, args) = Cardinality(before)
    BY <1>1 DEF Cursor, A
<1>. QED BY <1>2, <1>3 DEF A

(* Where the words of one argument are, from the cursor on. *)
InPlace(p, part, F, at) ==
    /\ F \in Seq(Words) /\ at \in Nat
    /\ part = <<>> => Len(F) <= at
    /\ part # <<>> => at < Len(F) /\ F[at + 1] = part[1]
    /\ p.variadic => SubSeq(F, at + 1, Len(F)) = part

(* Where the words of each argument stand in what a form sends. *)
LEMMA WordsPlaced ==
    ASSUME NEW ps, NEW given, NEW n, Asks(ps, given, n), NEW form \in {"cli", "path", "tool", "bare"},
           ~Gap(ps, given), form = "path" => ~Slashed(ps, given), NEW k \in ArgsOf(ps)
    PROVE  InPlace(ps[k], PartsOf(form, ps, given)[k], FlattenSeq(PartsOf(form, ps, given)),
                   Cursor(ps, k, FlattenSeq(PartsOf(form, ps, given))))
<1>. DEFINE A == ArgsOf(ps)
            parts == PartsOf(form, ps, given)
            F == FlattenSeq(parts)
            at == Cardinality(Upto(A, k - 1))
<1>1. /\ n \in Nat /\ DOMAIN ps = 1..n /\ A \in SUBSET (1..n) /\ (\A j \in A : j \in 1..n)
      /\ \A j, l \in A : j < l => ~ps[j].variadic
    BY Known
<1>2. ~Gap(ps, given) /\ (form = "path" => ~Slashed(ps, given))
    OBVIOUS
<1>3. /\ parts \in Seq(Seq(Words)) /\ Len(parts) = n
      /\ \A j \in 1..n : j \notin A \/ given[j] = <<>> => parts[j] = <<>>
      /\ \A j \in A : ~ps[j].variadic /\ given[j] # <<>> =>
             parts[j] = <<Said(form, ps[j], given[j][1])>>
  <2>1. Carried(form, ps, given, n, parts)
      BY <1>2, PartsFit
  <2>. HIDE DEF parts
  <2>. QED BY <2>1 DEF Carried
<1>4. \A s : Len(<<s>>) = 1 /\ <<s>> # <<>> /\ Len(<<>>) = 0
    OBVIOUS
<1>5. Cursor(ps, k, F) = at
    BY CursorAt
<1>. HIDE DEF A, parts
<1>6. k \in A
    BY DEF A
<1>7. ASSUME NEW j \in A, j < k PROVE Len(parts[j]) <= 1
  <2>1. ~ps[j].variadic /\ j \in 1..n
      BY <1>1, <1>6, <1>7
  <2>2. CASE given[j] = <<>>
    <3>1. parts[j] = <<>>
        BY <1>3, <2>1, <2>2
    <3>. QED BY <1>4, <3>1
  <2>3. CASE given[j] # <<>>
    <3>. DEFINE s == Said(form, ps[j], given[j][1])
    <3>1. parts[j] = <<s>>
        BY <1>3, <2>1, <2>3
    <3>. HIDE DEF s
    <3>. QED BY <1>4, <3>1
  <2>. QED BY <2>2, <2>3
<1>8. ASSUME NEW j \in A, NEW l \in A, j < l, parts[j] = <<>> PROVE parts[l] = <<>>
  <2>1. ~ps[j].variadic /\ l \in 1..n
      BY <1>1, <1>8
  <2>2. given[j] = <<>>
      BY <1>3, <1>4, <1>8, <2>1
  <2>3. given[l] = <<>>
      BY <1>2, <1>8, <2>2 DEF Gap, A
  <2>. QED BY <1>3, <2>1, <2>3
<1>9. ASSUME ps[k].variadic, NEW j \in A PROVE j <= k
  <2>1. ~(k < j)
      BY <1>1, <1>6, <1>9
  <2>. QED BY <1>1, <1>6, <2>1
<1>10. /\ F \in Seq(Words) /\ at \in Nat
       /\ parts[k] = <<>> => Len(F) <= at
       /\ parts[k] # <<>> => at < Len(F) /\ F[at + 1] = parts[k][1]
       /\ (\A j \in A : j <= k) => SubSeq(F, at + 1, Len(F)) = parts[k]
  <2>1. A \in SUBSET (1..Len(parts)) /\ \A j \in 1..Len(parts) : j \notin A => parts[j] = <<>>
      BY <1>1, <1>3
  <2>2. (\A j \in A : j < k => Len(parts[j]) <= 1)
        /\ \A j, l \in A : j < l /\ parts[j] = <<>> => parts[l] = <<>>
      BY <1>7, <1>8
  <2>. QED BY <1>3, <1>6, <2>1, <2>2, Placed
<1>. HIDE DEF F, at
<1>11. InPlace(ps[k], parts[k], F, at)
    BY <1>9, <1>10 DEF InPlace
<1>. QED BY <1>5, <1>11 DEF parts, F

(* How bind reads an argument over every form (kit/input.go:60-108). *)
LEMMA ArgRead ==
    ASSUME NEW ps, NEW given, NEW n, Asks(ps, given, n), NEW form \in Forms, NEW decl,
           ~Strays(form, ps, decl, given), NEW in, NEW k \in ArgsOf(ps),
           in.flags[k] = RawOf(form, ByName(form, decl), ps[k], given[k]),
           in.args = IF ByName(form, decl) THEN <<>> ELSE FlattenSeq(PartsOf(form, ps, given))
    PROVE  /\ given[k] = <<>> => BindArg(ps, k, in) = Good(<<>>)
           /\ given[k] # <<>> /\ ~ps[k].variadic =>
                  BindArg(ps, k, in) = FromString(ps[k].type, Said(form, ps[k], given[k][1]))
           /\ ps[k].variadic /\ ~(form = "bare" /\ Comma(ps, given, "arg")) =>
                  BindArg(ps, k, in) = Good(given[k])
<1>. DEFINE v == given[k]
            p == ps[k]
            named == in.flags[k]
            at == Cursor(ps, k, in.args)
            rest == SubSeq(in.args, at + 1, Len(in.args))
<1>1. /\ k \in 1..n /\ p.kind = "arg" /\ (p.variadic <=> p.type = "slice")
      /\ v \in Seq(Words) /\ (p.type # "slice" => Len(v) <= 1)
    BY Known
<1>2. BindArg(ps, k, in)
        = IF p.variadic
          THEN SetSlice(p.type, IF rest = <<>> THEN NamedList(named) ELSE rest)
          ELSE IF at < Len(in.args) THEN FromString(p.type, in.args[at + 1])
          ELSE IF named.form = "string" /\ named.words # <<EmptyWord>>
               THEN FromString(p.type, named.words[1]) ELSE Good(<<>>)
    BY DEF BindArg
<1>3. NamedList(Absent) = <<>> /\ Absent.form # "string"
    BY DEF NamedList, Absent
<1>6. (form = "cli" \/ form = "path" => ~ByName(form, decl)) /\ (form = "query" => ByName(form, decl))
    BY DEF ByName
<1>4. CASE ~ByName(form, decl)
  <2>. DEFINE parts == PartsOf(form, ps, given)
              F == FlattenSeq(parts)
  <2>1. form \in {"cli", "path", "tool", "bare"} /\ in.args = F
      BY <1>4, <1>6 DEF Forms, HttpForms, ToolForms
  <2>2. named = Absent
    <3>1. form = "cli" \/ form \in HttpForms \/ form \in ToolForms
        BY DEF Forms
    <3>. QED BY <1>1, <1>4, <3>1 DEF RawOf
  <2>9. ~Gap(ps, given) /\ (form = "path" => ~Slashed(ps, given))
      BY <1>4 DEF Strays
  <2>3. /\ at \in Nat /\ Len(F) \in Nat
        /\ parts[k] = <<>> => Len(F) <= at
        /\ parts[k] # <<>> => at < Len(F) /\ F[at + 1] = parts[k][1]
        /\ p.variadic => rest = parts[k]
    <3>0. InPlace(p, parts[k], F, at)
        BY <2>1, <2>9, WordsPlaced
    <3>1. F \in Seq(Words)
        BY <3>0 DEF InPlace
    <3>2. Len(F) \in Nat
      <4>. HIDE DEF F
      <4>. QED BY <3>1
    <3>. QED BY <2>1, <3>0, <3>2 DEF InPlace
  <2>4. /\ k \notin ArgsOf(ps) \/ v = <<>> => parts[k] = <<>>
        /\ ~p.variadic /\ v # <<>> => parts[k] = <<Said(form, p, v[1])>>
        /\ p.variadic /\ ~(form = "bare" /\ Comma(ps, given, "arg")) => parts[k] = v
    <3>2. Carried(form, ps, given, n, parts)
        BY <2>1, <2>9, PartsFit
    <3>. HIDE DEF parts
    <3>. QED BY <1>1, <3>2 DEF Carried
  <2>. HIDE DEF parts, F, v, p, named, at, rest
  <2>5. CASE p.variadic
    <3>1. BindArg(ps, k, in) = SetSlice(p.type, parts[k])
        BY <1>2, <1>3, <2>2, <2>3, <2>5
    <3>2. BindArg(ps, k, in) = Good(parts[k])
        BY <1>1, <2>5, <3>1, ReadList
    <3>. QED BY <2>4, <2>5, <3>2 DEF v, p
  <2>6. CASE ~p.variadic /\ v = <<>>
    <3>1. ~(at < Len(F))
        BY <2>3, <2>4, <2>6
    <3>. QED BY <1>2, <1>3, <2>1, <2>2, <2>6, <3>1 DEF v, p
  <2>7. CASE ~p.variadic /\ v # <<>>
    <3>. DEFINE s == Said(form, p, v[1])
    <3>1. parts[k] = <<s>>
        BY <2>4, <2>7
    <3>. HIDE DEF s
    <3>2. parts[k] # <<>> /\ parts[k][1] = s
        BY <3>1
    <3>3. BindArg(ps, k, in) = FromString(p.type, s)
        BY <1>2, <2>1, <2>3, <2>7, <3>2
    <3>. QED BY <2>7, <3>3 DEF v, p, s
  <2>. QED BY <2>5, <2>6, <2>7
<1>5. CASE ByName(form, decl)
  <2>1. in.args = <<>> /\ at \in Nat
    <3>1. at = Cardinality(Upto(ArgsOf(ps), k - 1))
        BY CursorAt
    <3>2. n \in Nat /\ ArgsOf(ps) \in SUBSET (1..n) /\ k - 1 \in Nat
        BY <1>1, Known
    <3>3. Cardinality(Upto(ArgsOf(ps), k - 1)) \in Nat
        BY <3>2, CountUp
    <3>. QED BY <1>5, <3>1, <3>3
  <2>2. rest = <<>> /\ ~(at < Len(in.args))
    <3>. HIDE DEF at
    <3>1. ~(at + 1 <= 0) /\ Len(<<>>) = 0
        BY <2>1
    <3>. QED BY <2>1, <3>1
  <2>3. v # <<>> => v # <<EmptyWord>> /\ (Len(v) = 1 => v[1] # EmptyWord /\ v = <<v[1]>>)
    <3>1. EmptyWord \notin ToSet(v)
        BY <1>5 DEF Strays, Blank
    <3>. HIDE DEF v
    <3>. SUFFICES ASSUME v # <<>> PROVE v # <<EmptyWord>> /\ (Len(v) = 1 => v[1] # EmptyWord /\ v = <<v[1]>>)
        OBVIOUS
    <3>2. Len(v) \in Nat /\ Len(v) # 0 /\ DOMAIN v = 1..Len(v)
        BY <1>1, EmptySeq
    <3>3. 1 \in DOMAIN v
        BY <3>2
    <3>4. v[1] # EmptyWord
        BY <3>1, <3>3 DEF ToSet
    <3>5. Len(v) = 1 => v = <<v[1]>>
        BY <1>1, <3>2, OneWord
    <3>6. \A s : <<s>>[1] = s
        OBVIOUS
    <3>. QED BY <3>4, <3>5, <3>6
  <2>4. /\ form = "query" \/ form \in ToolForms
        /\ form \in ToolForms /\ p.type = "int" /\ v # <<>> => v[1] \notin Numbers
    <3>1. form = "query" \/ form \in ToolForms
        BY <1>5 DEF ByName, ToolForms
    <3>2. form \in ToolForms => form # "query"
        BY DEF ToolForms
    <3>. QED BY <1>5, <3>1, <3>2 DEF Strays, Dropped
  <2>5. named = IF v = <<>> THEN Absent
                ELSE IF form = "query" THEN QueryRaw(p, v) ELSE JsonRaw(p, v, form = "bare")
    <3>1. CASE form = "query"
      <4>1. form # "cli" /\ form \in HttpForms
          BY <3>1 DEF HttpForms
      <4>. QED BY <1>1, <1>5, <3>1, <4>1 DEF RawOf
    <3>2. CASE form \in ToolForms
      <4>1. form # "cli" /\ form \notin HttpForms /\ form # "query"
          BY <3>2 DEF ToolForms, HttpForms
      <4>. QED BY <1>1, <1>5, <3>2, <4>1 DEF RawOf
    <3>. QED BY <2>4, <3>1, <3>2
  <2>6. v = <<>> => named = Absent
      BY <2>5
  <2>7. v # <<>> => \/ Len(v) = 1 /\ named = Text(v[1])
                    \/ p.type = "slice" /\ named = List(v)
    <3>. SUFFICES ASSUME v # <<>>
                  PROVE  (Len(v) = 1 /\ named = Text(v[1])) \/ (p.type = "slice" /\ named = List(v))
        OBVIOUS
    <3>1. p.type # "slice" => Len(v) = 1
        BY <1>1, OneWord
    <3>2. CASE form = "query"
        BY <2>5, <3>1, <3>2 DEF QueryRaw
    <3>3. CASE form # "query"
      <4>1. p.type = "int" => v[1] \notin Numbers
          BY <2>4, <3>3
      <4>. QED BY <2>5, <3>1, <3>3, <4>1 DEF JsonRaw
    <3>. QED BY <3>2, <3>3
  <2>8. v # <<>> => Said(form, p, v[1]) = v[1]
    <3>1. form = "query" => Said(form, p, v[1]) = v[1]
        BY DEF Said
    <3>2. form \in ToolForms /\ v # <<>> => Said(form, p, v[1]) = v[1]
        BY <2>4 DEF Said, ToolForms
    <3>. QED BY <2>4, <3>1, <3>2
  <2>. HIDE DEF at, rest, named
  <2>10. CASE p.variadic
    <3>1. NamedList(named) = v
      <4>1. CASE v = <<>>
          BY <1>3, <2>6, <4>1
      <4>2. CASE v # <<>> /\ Len(v) = 1 /\ named = Text(v[1])
        <5>1. named # Text(EmptyWord) /\ named.form # "number" /\ named.words = v
          <6>1. named.words = <<v[1]>> /\ Text(EmptyWord).words = <<EmptyWord>> /\ named.form = "string"
              BY <4>2 DEF Text
          <6>. QED BY <2>3, <4>2, <6>1
        <5>. QED BY <5>1 DEF NamedList
      <4>3. CASE v # <<>> /\ named = List(v)
        <5>1. named.form = "list" /\ named.words = v /\ Text(EmptyWord).form = "string"
            BY <4>3 DEF List, Text
        <5>2. named # Text(EmptyWord) /\ named.form # "number"
            BY <5>1
        <5>. QED BY <5>1, <5>2 DEF NamedList
      <4>. QED BY <2>7, <4>1, <4>2, <4>3
    <3>2. BindArg(ps, k, in) = Good(v)
        BY <1>1, <1>2, <2>2, <2>10, <3>1, ReadList
    <3>. QED BY <2>10, <3>2
  <2>11. CASE ~p.variadic /\ v = <<>>
      BY <1>2, <1>3, <2>2, <2>6, <2>11
  <2>12. CASE ~p.variadic /\ v # <<>>
    <3>1. Len(v) = 1 /\ named = Text(v[1]) /\ v[1] # EmptyWord
        BY <1>1, <2>3, <2>7, <2>12
    <3>2. named.form = "string" /\ named.words = <<v[1]>> /\ named.words[1] = v[1] /\ <<v[1]>> # <<EmptyWord>>
      <4>1. \A s, t : <<s>>[1] = s /\ (<<s>> = <<t>> => s = t)
          OBVIOUS
      <4>. QED BY <3>1, <4>1 DEF Text
    <3>. HIDE DEF v, p
    <3>3. BindArg(ps, k, in) = FromString(p.type, v[1])
        BY <1>2, <2>2, <2>12, <3>2
    <3>. QED BY <2>8, <2>12, <3>3 DEF v, p
  <2>. QED BY <2>10, <2>11, <2>12
<1>. QED BY <1>4, <1>5

(* What a form hands to bind: the positional words, and what it has under *)
(* each name.                                                             *)
Sends(form, ps, decl, given, in) ==
    /\ \A k \in DOMAIN ps : in.flags[k] = RawOf(form, ByName(form, decl), ps[k], given[k])
    /\ in.args = IF ByName(form, decl) THEN <<>> ELSE FlattenSeq(PartsOf(form, ps, given))

(* What a form says is one word where one was given. *)
SaidOf(form, p, v, u) ==
    /\ u \in Seq(Words) /\ (p.type # "slice" => Len(u) <= 1)
    /\ p.type # "int" => u = v
    /\ v = <<>> <=> u = <<>>
    /\ v # <<>> /\ p.type # "slice" => u[1] = Said(form, p, v[1]) /\ u = <<Said(form, p, v[1])>>

(* The call a form says asks of the same parameters. *)
LEMMA HeardFits ==
    ASSUME NEW ps, NEW given, NEW n, Asks(ps, given, n), NEW form \in Forms
    PROVE  /\ Asks(ps, Heard(form, ps, given), n)
           /\ \A k \in 1..n : SaidOf(form, ps[k], given[k], Heard(form, ps, given)[k])
<1>. DEFINE h == Heard(form, ps, given)
<1>1. /\ n \in Nat /\ DOMAIN ps = 1..n
      /\ \A k \in 1..n : /\ Readable(ps[k]) /\ given[k] \in Seq(Words)
                         /\ ps[k].type # "slice" => Len(given[k]) <= 1
    BY Known
<1>2. ASSUME NEW k \in 1..n PROVE SaidOf(form, ps[k], given[k], h[k])
  <2>. DEFINE v == given[k]
              p == ps[k]
              s == Said(form, p, v[1])
              u == h[k]
  <2>1. v \in Seq(Words) /\ (p.type # "slice" => Len(v) <= 1)
      BY <1>1
  <2>2. u = IF p.type = "int" /\ v # <<>> THEN <<s>> ELSE v
      BY <1>1 DEF Heard
  <2>3. p.type # "int" => s = v[1]
      BY DEF Said
  <2>4. v # <<>> => s \in Words
    <3>1. v # <<>> => v[1] \in Words
      <4>. HIDE DEF v
      <4>. QED BY <2>1, SeqMonotonic
    <3>2. s = v[1] \/ s \in Numerals \/ s \in Words
      <4>1. \A w \in DOMAIN FlagInt : FlagInt[w] \in Numerals
          BY WordsAssumption
      <4>2. \A w \in Numbers : Sprinted[w] \in Words /\ Converted[w] \in Numerals
          BY WordsAssumption
      <4>. HIDE DEF v, p
      <4>. QED BY <4>1, <4>2 DEF Said
    <3>3. Numerals \subseteq Words
        BY WordsAssumption
    <3>. HIDE DEF s
    <3>. QED BY <3>1, <3>2, <3>3
  <2>5. v # <<>> /\ p.type # "slice" => v = <<v[1]>>
    <3>. HIDE DEF v
    <3>. QED BY <2>1, OneWord
  <2>. HIDE DEF v, p, s, u
  <2>6. \A x : <<x>> # <<>> /\ <<x>>[1] = x /\ Len(<<x>>) = 1 /\ (x \in Words => <<x>> \in Seq(Words))
      OBVIOUS
  <2>7. CASE p.type = "int" /\ v # <<>>
    <3>1. u = <<s>> /\ s \in Words
        BY <2>2, <2>4, <2>7
    <3>2. u \in Seq(Words) /\ Len(u) <= 1 /\ u # <<>> /\ u[1] = s
        BY <2>6, <3>1
    <3>. QED BY <2>7, <3>1, <3>2 DEF SaidOf, s, u, p, v
  <2>8. CASE ~(p.type = "int" /\ v # <<>>)
    <3>1. u = v
        BY <2>2, <2>8
    <3>2. v # <<>> /\ p.type # "slice" => u[1] = s /\ u = <<s>>
        BY <2>3, <2>5, <2>8, <3>1
    <3>. QED BY <2>1, <2>8, <3>1, <3>2 DEF SaidOf, s, u, p, v
  <2>. QED BY <2>7, <2>8
<1>3. Fits(ps, h)
  <2>1. h = [k \in 1..n |-> h[k]]
      BY <1>1 DEF Heard
  <2>. HIDE DEF h
  <2>2. \A k \in 1..n : h[k] \in Seq(Words) /\ (ps[k].type # "slice" => Len(h[k]) <= 1)
                        /\ (given[k] = <<>> => h[k] = <<>>)
      BY <1>2 DEF SaidOf
  <2>. DEFINE Q == Seq(Words)
  <2>3. h \in [1..n -> Q]
    <3>1. \A k \in 1..n : h[k] \in Q
        BY <2>2
    <3>. HIDE DEF Q
    <3>. QED BY <2>1, <3>1
  <2>4. \A k \in 1..n : ps[k].kind = "inject" \/ (ps[k].kind = "flag" /\ ps[k].inherit) => given[k] = <<>>
      BY <1>1 DEF Asks, Fits
  <2>. QED BY <1>1, <2>2, <2>3, <2>4 DEF Fits
<1>. HIDE DEF h
<1>4. Asks(ps, h, n)
    BY <1>3 DEF Asks
<1>. QED BY <1>2, <1>4 DEF h

(* A value that is not the number its parameter wants. *)
Wrong(p, v) == p.type = "int" /\ ToSet(v) \notin SUBSET Numerals

(* What a value given for a parameter is, when it is no number at all or the *)
(* number it should be (kit/input.go:186-252).                               *)
LEMMA ScalarRead ==
    ASSUME NEW p, p.type # "slice", NEW v \in Seq(Words), Len(v) <= 1, v # <<>>
    PROVE  FromString(p.type, v[1]) = IF Wrong(p, v) THEN Bad ELSE Good(Scalar(v[1]))
<1>1. Len(v) = 1 /\ DOMAIN v = {1}
  <2>1. Len(v) = 1 /\ DOMAIN v = 1..Len(v)
      BY OneWord
  <2>. QED BY <2>1
<1>2. ToSet(v) = {v[1]}
    BY <1>1 DEF ToSet
<1>. QED BY <1>2 DEF FromString, Wrong

(* A default is always a value of its parameter. *)
LEMMA DefaultRead ==
    ASSUME NEW p, p.type = "int" /\ p.def # EmptyWord => p.def \in Numerals
    PROVE  Default(p) = Good(Default(p).v)
BY DEF Default, FromString, Good, Bad

(* So is what kit injects. *)
LEMMA InjectRead ==
    ASSUME NEW p, NEW handles
    PROVE  Inject(p, handles) = Good(Inject(p, handles).v)
<1>1. \E x : Inject(p, handles) = Good(x)
    BY DEF Inject
<1>2. \A x : Good(x) = Good(Good(x).v)
    BY DEF Good
<1>. QED BY <1>1, <1>2

(* What bind makes of one parameter, when the form can carry the call. *)
LEMMA OneBound ==
    ASSUME NEW ps, NEW decl, NEW given, NEW n, Asks(ps, given, n), NEW form \in Forms,
           ~Hard(form, ps, decl, given), NEW in, Sends(form, ps, decl, given, in),
           NEW k \in DOMAIN ps, NEW rt
    PROVE  BindOne(ps, k, in, rt)
             = IF Wrong(ps[k], Heard(form, ps, given)[k]) THEN Bad
               ELSE Good(Intended(ps, Heard(form, ps, given), rt)[k])
<1>. DEFINE p == ps[k]
            v == given[k]
            h == Heard(form, ps, given)
            u == h[k]
            meant == Intended(ps, h, rt)[k]
            loose == ByName(form, decl)
<1>0. SaidOf(form, p, v, u)
  <2>1. k \in 1..n
      BY Known
  <2>. QED BY <2>1, HeardFits
<1>12. /\ u \in Seq(Words) /\ (p.type # "slice" => Len(u) <= 1) /\ (v = <<>> <=> u = <<>>)
       /\ p.type = "slice" => u = v
       /\ v # <<>> /\ p.type # "slice" => u[1] = Said(form, p, v[1])
    BY <1>0 DEF SaidOf
<1>1. /\ k \in 1..n /\ Readable(p) /\ v \in Seq(Words) /\ (p.type # "slice" => Len(v) <= 1)
    BY Known
<1>2. p.kind \in {"arg", "flag", "inject"} /\ p.inherit \in BOOLEAN
    BY <1>1 DEF Readable
<1>3. /\ p.kind = "inject" \/ (p.kind = "flag" /\ p.inherit) => v = <<>>
      /\ p.type = "int" /\ p.def # EmptyWord => p.def \in Numerals
    BY DEF Asks, Fits, Conventional
<1>4. /\ in.flags[k] = RawOf(form, loose, p, v)
      /\ in.args = IF ByName(form, decl) THEN <<>> ELSE FlattenSeq(PartsOf(form, ps, given))
    BY DEF Sends
<1>5. meant = CASE p.kind = "inject" -> Inject(p, rt.handles).v
                [] p.kind = "flag" /\ p.inherit -> IF p.name = "limit" THEN rt.limit ELSE <<>>
                [] OTHER -> IF u = <<>> THEN IF p.kind = "flag" THEN Default(p).v ELSE <<>>
                            ELSE IF p.type = "slice" THEN u ELSE Scalar(u[1])
    BY DEF Intended
<1>6. u = <<>> => ~Wrong(p, u)
  <2>1. ToSet(<<>>) = {}
      BY DEF ToSet
  <2>. QED BY <2>1 DEF Wrong
<1>. HIDE DEF meant, u, h, loose
<1>7. CASE p.kind = "inject"
  <2>1. BindOne(ps, k, in, rt) = Inject(p, rt.handles) /\ meant = Inject(p, rt.handles).v
      BY <1>5, <1>7 DEF BindOne
  <2>. QED BY <1>3, <1>6, <1>7, <1>12, <2>1, InjectRead DEF meant, u, h
<1>8. CASE p.kind = "flag" /\ p.inherit
  <2>1. BindOne(ps, k, in, rt) = Good(meant)
      BY <1>5, <1>8 DEF BindOne, BindFlag
  <2>. QED BY <1>3, <1>6, <1>8, <1>12, <2>1 DEF meant, u, h
<1>9. CASE p.kind = "flag" /\ ~p.inherit
  <2>1. p.type = "slice" /\ form # "tool" => Unsplit(v)
      BY <1>9 DEF Hard, Comma, Unsplit
  <2>2. BindOne(ps, k, in, rt) = BindFlag(p, RawOf(form, loose, p, v), rt.limit)
      BY <1>4, <1>9 DEF BindOne
  <2>3. BindFlag(p, RawOf(form, loose, p, v), rt.limit)
          = IF v = <<>> THEN Default(p)
            ELSE IF p.type = "slice" THEN Good(v) ELSE FromString(p.type, Said(form, p, v[1]))
    <3>. HIDE DEF p, v
    <3>. QED BY <1>1, <1>3, <1>9, <2>1, FlagRead
  <2>4. meant = IF u = <<>> THEN Default(p).v ELSE IF p.type = "slice" THEN u ELSE Scalar(u[1])
      BY <1>5, <1>9
  <2>. HIDE DEF p, v
  <2>5. CASE v = <<>>
      BY <1>3, <1>6, <1>12, <2>2, <2>3, <2>4, <2>5, DefaultRead DEF meant, p, u, h
  <2>6. CASE v # <<>> /\ p.type = "slice"
      BY <1>12, <2>2, <2>3, <2>4, <2>6 DEF meant, p, u, h, Wrong
  <2>7. CASE v # <<>> /\ p.type # "slice"
    <3>1. FromString(p.type, u[1]) = IF Wrong(p, u) THEN Bad ELSE Good(Scalar(u[1]))
        BY <1>12, <2>7, ScalarRead
    <3>. QED BY <1>12, <2>2, <2>3, <2>4, <2>7, <3>1 DEF meant, p, u, h
  <2>. QED BY <2>5, <2>6, <2>7
<1>10. CASE p.kind = "arg"
  <2>1. k \in ArgsOf(ps)
      BY <1>10 DEF ArgsOf
  <2>2. p.variadic <=> p.type = "slice"
      BY <2>1, Known
  <2>3. ~Strays(form, ps, decl, given) /\ ~(form = "bare" /\ Comma(ps, given, "arg"))
      BY DEF Hard
  <2>4. BindOne(ps, k, in, rt) = BindArg(ps, k, in)
      BY <1>10 DEF BindOne
  <2>5. /\ v = <<>> => BindArg(ps, k, in) = Good(<<>>)
        /\ v # <<>> /\ ~p.variadic => BindArg(ps, k, in) = FromString(p.type, Said(form, p, v[1]))
        /\ p.variadic => BindArg(ps, k, in) = Good(v)
      BY <1>4, <2>1, <2>3, ArgRead DEF loose
  <2>7. meant = IF u = <<>> THEN <<>> ELSE IF p.type = "slice" THEN u ELSE Scalar(u[1])
      BY <1>5, <1>10
  <2>. HIDE DEF p, v
  <2>8. CASE v = <<>>
      BY <1>6, <1>12, <2>4, <2>5, <2>7, <2>8 DEF meant, p, u, h
  <2>9. CASE v # <<>> /\ p.type = "slice"
      BY <1>12, <2>2, <2>4, <2>5, <2>7, <2>9 DEF meant, p, u, h, Wrong
  <2>10. CASE v # <<>> /\ p.type # "slice"
    <3>1. FromString(p.type, u[1]) = IF Wrong(p, u) THEN Bad ELSE Good(Scalar(u[1]))
        BY <1>12, <2>10, ScalarRead
    <3>. QED BY <1>12, <2>2, <2>4, <2>5, <2>7, <2>10, <3>1 DEF meant, p, u, h
  <2>. QED BY <2>8, <2>9, <2>10
<1>. QED BY <1>2, <1>7, <1>8, <1>9, <1>10

(* What bind makes of the call. *)
LEMMA AllBound ==
    ASSUME NEW ps, NEW decl, NEW given, NEW n, Asks(ps, given, n), NEW form \in Forms,
           ~Hard(form, ps, decl, given), NEW in, Sends(form, ps, decl, given, in), NEW rt
    PROVE  BindAll(ps, in, rt)
             = IF Mistyped(ps, Heard(form, ps, given)) THEN Failure
               ELSE [ok |-> TRUE, vals |-> Intended(ps, Heard(form, ps, given), rt)]
<1>. DEFINE got == [k \in DOMAIN ps |-> BindOne(ps, k, in, rt)]
            h == Heard(form, ps, given)
            meant == Intended(ps, h, rt)
<1>1. \A k \in DOMAIN ps : got[k] = IF Wrong(ps[k], h[k]) THEN Bad ELSE Good(meant[k])
    BY OneBound
<1>. HIDE DEF h
<1>2. Mistyped(ps, h) <=> \E k \in DOMAIN ps : Wrong(ps[k], h[k])
    BY DEF Mistyped, Wrong
<1>3. BindAll(ps, in, rt) = IF \E k \in DOMAIN ps : ~got[k].ok THEN Failure
                            ELSE [ok |-> TRUE, vals |-> [k \in DOMAIN ps |-> got[k].v]]
    BY DEF BindAll
<1>4. meant = [k \in DOMAIN ps |-> meant[k]]
    BY DEF Intended
<1>5. ~Bad.ok /\ \A x : Good(x).ok /\ Good(x).v = x
    BY DEF Bad, Good
<1>. HIDE DEF got, meant
<1>6. \A k \in DOMAIN ps : got[k].ok <=> ~Wrong(ps[k], h[k])
    BY <1>1, <1>5
<1>7. ~Mistyped(ps, h) => [k \in DOMAIN ps |-> got[k].v] = meant
    BY <1>1, <1>2, <1>4, <1>5
<1>. QED BY <1>2, <1>3, <1>6, <1>7 DEF meant, h

(* What a form says of a number fails the call when it is none, however *)
(* little else the form can carry.                                      *)
LEMMA BadBound ==
    ASSUME NEW ps, NEW decl, NEW given, NEW n, Asks(ps, given, n), NEW form \in Forms,
           ~Strays(form, ps, decl, given), NEW in, Sends(form, ps, decl, given, in), NEW rt,
           Mistyped(ps, Heard(form, ps, given))
    PROVE  BindAll(ps, in, rt) = Failure
<1>. SUFFICES \E k \in DOMAIN ps : ~BindOne(ps, k, in, rt).ok
    BY DEF BindAll
<1>. DEFINE h == Heard(form, ps, given)
<1>1. PICK k \in DOMAIN ps : ps[k].type = "int" /\ ToSet(h[k]) \notin SUBSET Numerals
    BY DEF Mistyped
<1>. DEFINE p == ps[k]
            v == given[k]
            u == h[k]
            s == Said(form, p, v[1])
<1>2. /\ k \in 1..n /\ Readable(p) /\ v \in Seq(Words) /\ (p.type # "slice" => Len(v) <= 1)
      /\ SaidOf(form, p, v, u)
    BY Known, HeardFits
<1>3. /\ p.kind = "inject" \/ (p.kind = "flag" /\ p.inherit) => v = <<>>
      /\ p.type = "int" /\ p.def # EmptyWord => p.def \in Numerals
    BY DEF Asks, Fits, Conventional
<1>4. /\ in.flags[k] = RawOf(form, ByName(form, decl), p, v)
      /\ in.args = IF ByName(form, decl) THEN <<>> ELSE FlattenSeq(PartsOf(form, ps, given))
    BY DEF Sends
<1>. HIDE DEF h
<1>5. p.type = "int" /\ v # <<>> /\ s \notin Numerals
  <2>1. ToSet(<<>>) = {} /\ \A x : ToSet(<<x>>) = {x}
    <3>1. \A x : DOMAIN <<x>> = {1} /\ <<x>>[1] = x
        OBVIOUS
    <3>2. \A x : ToSet(<<x>>) = {x}
        BY <3>1 DEF ToSet
    <3>. QED BY <3>2 DEF ToSet
  <2>2. v # <<>> => u = <<s>>
      BY <1>1, <1>2 DEF SaidOf
  <2>3. v = <<>> => u = <<>>
      BY <1>2 DEF SaidOf
  <2>. HIDE DEF s, v
  <2>. QED BY <1>1, <2>1, <2>2, <2>3
<1>6. FromString("int", s) = Bad /\ ~Bad.ok
    BY <1>5 DEF FromString, Bad
<1>7. CASE p.kind = "flag"
  <2>1. BindOne(ps, k, in, rt) = BindFlag(p, RawOf(form, ByName(form, decl), p, v), rt.limit)
      BY <1>4, <1>7 DEF BindOne
  <2>2. ~p.inherit
      BY <1>2, <1>3, <1>5, <1>7 DEF Readable
  <2>. DEFINE loose == ByName(form, decl)
  <2>. HIDE DEF p, v, loose
  <2>3. BindFlag(p, RawOf(form, loose, p, v), rt.limit)
          = IF v = <<>> THEN Default(p)
            ELSE IF p.type = "slice" THEN Good(v) ELSE FromString(p.type, Said(form, p, v[1]))
      BY <1>2, <1>3, <1>5, <1>7, <2>2, FlagRead
  <2>. QED BY <1>5, <1>6, <2>1, <2>3 DEF p, v, loose
<1>8. CASE p.kind = "arg"
  <2>1. k \in ArgsOf(ps)
      BY <1>8 DEF ArgsOf
  <2>2. ~p.variadic
      BY <1>5, <2>1, Known
  <2>3. BindOne(ps, k, in, rt) = BindArg(ps, k, in)
      BY <1>8 DEF BindOne
  <2>4. BindArg(ps, k, in) = FromString(p.type, Said(form, p, v[1]))
      BY <1>4, <1>5, <2>1, <2>2, ArgRead
  <2>. QED BY <1>5, <1>6, <2>3, <2>4
<1>9. p.kind # "inject" /\ p.kind \in {"arg", "flag", "inject"}
    BY <1>2, <1>3, <1>5 DEF Readable
<1>. QED BY <1>7, <1>8, <1>9

(* ---- A call, from the words it is made of to the values it is bound to -- *)

(* The parameters of an operation are numbered. *)
LEMMA ParamsCounted ==
    ASSUME NEW m \in Metas
    PROVE  \E n \in Nat : DOMAIN ParamsOf[m] = 1..n
<1>. DEFINE fields == FieldsOf[m]
            bound == {i \in DOMAIN fields : fields[i].exported /\ fields[i].tagged}
<1>1. \E n : n = Cardinality(bound) /\ DOMAIN ParamsOf[m] = 1..n
    BY DEF ParamsOf, ReflectIn
<1>2. DOMAIN fields = 1..Len(fields) /\ Len(fields) \in Nat
    BY FieldsAssumption
<1>. HIDE DEF fields
<1>3. bound \in SUBSET (1..Len(fields))
    BY <1>2
<1>. HIDE DEF bound
<1>4. Cardinality(bound) \in Nat
  <2>1. IsFiniteSet(1..Len(fields))
      BY <1>2, FS_Interval
  <2>2. IsFiniteSet(bound)
      BY <1>3, <2>1, FS_Subset
  <2>. QED BY <2>2, FS_CardinalityType
<1>. QED BY <1>1, <1>4

(* The call that reaches its operation is one that asks something of it. *)
LEMMA CallAsks ==
    ASSUME SurfacesIInv, Reached
    PROVE  \E n \in Nat : Asks(Params, call.given, n)
<1>1. Mine \in Metas /\ call.given \in Givens[Mine] /\ Conventional(Params)
    BY CallMade DEF Reached
<1>2. PICK n \in Nat : DOMAIN Params = 1..n
    BY <1>1, ParamsCounted DEF Params
<1>3. \A k \in DOMAIN Params : Readable(Params[k])
    BY <1>1, ParamsRead DEF Params
<1>4. Fits(Params, call.given)
    BY <1>1, GivensAssumption DEF Params
<1>. QED BY <1>1, <1>2, <1>3, <1>4 DEF Asks

Rest == Find(call.form, Mine, call.given, call.allow).rest

(* The words left to a call that reaches its operation are its arguments. *)
LEMMA RestFound ==
    ASSUME SurfacesIInv, Made, Itself
    PROVE  /\ call.form = "cli" => Rest = CliWords(Params, call.given)
           /\ call.form = "path" => Rest = PathWords(Params, call.given)
           /\ call.form = "query" => Rest = <<>>
<1>. DEFINE r == Route(Mine)
            C == CliWords(Params, call.given)
            W == PathWords(Params, call.given)
<1>1. /\ call.op \in DOMAIN ops /\ Mine \in Metas /\ C \in Seq(STRING) /\ W \in Seq(STRING)
      /\ call.ran = Find(call.form, Mine, call.given, call.allow).ran
    BY CallMade
<1>2. RegistryFits /\ call.ran = Ran("op", call.op) /\ Mine = ops[call.op]
    BY DEF SurfacesIInv, Itself, Mine
<1>3. r \in Seq(STRING)
  <2>1. Mine \in Metas
      BY <1>1
  <2>. QED BY <2>1, RouteType
<1>4. CASE call.form = "cli"
  <2>1. Find(call.form, Mine, call.given, call.allow) = CliFind(r \o C)
      BY <1>4 DEF Find, Params, ToolForms
  <2>. HIDE DEF C
  <2>2. CliFind(Route(ops[call.op]) \o C).rest = C
      BY <1>1, <1>2, <2>1, CliFindRest
  <2>. QED BY <1>2, <1>4, <2>1, <2>2 DEF Rest, C
<1>5. ASSUME NEW path, Find(call.form, Mine, call.given, call.allow) = HttpFind(path, call.allow)
      PROVE  Rest = SubSeq(path, Len(r) + 1, Len(path))
  <2>1. HttpFind(path, call.allow).ran = Ran("op", call.op)
      BY <1>1, <1>2, <1>5
  <2>2. Ran("op", call.op) # Ran("unknown", 0) /\ \A b : Ran("op", call.op) = Ran("op", b) => b = call.op
      BY DEF Ran
  <2>3. HttpFind(path, call.allow).rest = SubSeq(path, Len(Route(ops[call.op])) + 1, Len(path))
    <3>. DEFINE found == HttpFind(path, call.allow)
                hit == {i \in Served(call.allow) : Prefix(Route(ops[i]), path)}
    <3>1. \/ hit = {} /\ found.ran = Ran("unknown", 0)
          \/ \E b \in hit : /\ \A j \in hit : Len(Route(ops[j])) <= Len(Route(ops[b]))
                            /\ found.ran = Ran("op", b)
                            /\ found.rest = SubSeq(path, Len(Route(ops[b])) + 1, Len(path))
        BY <1>2, HttpFindsLongest
    <3>. HIDE DEF hit, found
    <3>2. PICK b \in hit : /\ found.ran = Ran("op", b)
                           /\ found.rest = SubSeq(path, Len(Route(ops[b])) + 1, Len(path))
        BY <2>1, <2>2, <3>1 DEF found
    <3>3. b = call.op
        BY <2>1, <2>2, <3>2 DEF found
    <3>. QED BY <3>2, <3>3 DEF found
  <2>. QED BY <1>2, <1>5, <2>3 DEF Rest
<1>6. CASE call.form = "path"
  <2>1. Find(call.form, Mine, call.given, call.allow) = HttpFind(r \o W, call.allow)
      BY <1>6 DEF Find, Params, ToolForms
  <2>2. Rest = SubSeq(r \o W, Len(r) + 1, Len(r \o W))
      BY <1>5, <2>1
  <2>. HIDE DEF r, W
  <2>3. W \in Seq(STRING) /\ r \in Seq(STRING)
      BY <1>1, <1>3 DEF W
  <2>4. SubSeq(r \o W, Len(r) + 1, Len(r \o W)) = W
      BY <2>3, RestOfPath
  <2>. QED BY <1>6, <2>2, <2>4 DEF W
<1>7. CASE call.form = "query"
  <2>1. Find(call.form, Mine, call.given, call.allow) = HttpFind(r, call.allow)
      BY <1>7 DEF Find, ToolForms
  <2>2. Rest = SubSeq(r, Len(r) + 1, Len(r))
      BY <1>5, <2>1
  <2>. HIDE DEF r
  <2>3. <<>> \in Seq(STRING) /\ r \o <<>> = r
      BY <1>3, ConcatEmptySeq
  <2>4. Rest = <<>>
      BY <1>3, <2>2, <2>3, RestOfPath
  <2>. QED BY <1>7, <2>4
<1>. QED BY <1>4, <1>6, <1>7

(* What the surface hands to bind for the call, and what the call is bound to. *)
LEMMA CallSends ==
    ASSUME SurfacesIInv, Reached
    PROVE  \E in : /\ Sends(call.form, Params, Decl, call.given, in)
                   /\ call.bound = IF call.form = "cli" /\ ~Admits(Decl, Len(CliWords(Params, call.given)))
                                   THEN Failure ELSE BindAll(Params, in, call.rt)
<1>. DEFINE in == InputOf(call.form, Params, Decl, call.given, Rest)
<1>1. /\ Made /\ Itself /\ call.form \in Forms
      /\ call.bound = BoundBy(call.form, Mine, call.given, Rest, call.rt)
    BY CallMade DEF Reached, Rest
<1>2. /\ call.form = "cli" => Rest = CliWords(Params, call.given)
      /\ call.form = "path" => Rest = PathWords(Params, call.given)
      /\ call.form = "query" => Rest = <<>>
  <2>1. Made /\ Itself
      BY <1>1
  <2>. QED BY <2>1, RestFound
<1>. DEFINE form == call.form
            given == call.given
            rest == Rest
            ps == Params
            decl == Decl
<1>0. in = InputOf(form, ps, decl, given, rest)
    OBVIOUS
<1>9. PICK n \in Nat : Asks(ps, given, n)
    BY CallAsks
<1>10. Shaped(form, ps, decl)
  <2>1. Mine \in Metas
      BY CallMade DEF Reached
  <2>2. DeclOf[Mine] \in Seq(Declarations)
      BY <2>1, DeclAssumption DEF Declarations
  <2>. QED BY <1>1, <2>2 DEF Shaped, Reached, Decl
<1>7. /\ form \in Forms
      /\ form = "cli" => rest = CliWords(ps, given)
      /\ form = "path" => rest = PathWords(ps, given)
      /\ form = "query" => rest = <<>>
    BY <1>1, <1>2
<1>. HIDE DEF form, given, rest, ps, decl, in
<1>3. \A k \in DOMAIN ps : in.flags[k] = RawOf(form, ByName(form, decl), ps[k], given[k])
    BY <1>0, <1>9, <1>10, FlagsAre
<1>4. in.args = IF ByName(form, decl) THEN <<>> ELSE FlattenSeq(PartsOf(form, ps, given))
    BY <1>0, <1>7, <1>9, <1>10, ArgsAre
<1>6. call.bound = IF call.form = "cli" /\ ~Admits(Decl, Len(CliWords(Params, call.given)))
                   THEN Failure ELSE BindAll(Params, in, call.rt)
    BY <1>1, <1>2 DEF BoundBy, Params, Decl, in
<1>8. Sends(form, ps, decl, given, in)
    BY <1>3, <1>4 DEF Sends
<1>. QED BY <1>6, <1>8 DEF form, ps, given, decl

(* A call a form can carry means the same whatever the form (BindsAsMeant). *)
LEMMA BindsMeant == SurfacesIInv => BindsAsMeant
<1>. SUFFICES ASSUME SurfacesIInv, Reached, ~Hard(call.form, Params, Decl, call.given),
                     call.form = "cli" => Admits(Decl, Len(CliWords(Params, call.given)))
              PROVE  call.bound = Meant
    BY DEF BindsAsMeant
<1>1. PICK n \in Nat : Asks(Params, call.given, n)
    BY CallAsks
<1>2. PICK in : /\ Sends(call.form, Params, Decl, call.given, in)
                /\ call.bound = BindAll(Params, in, call.rt)
    BY CallSends
<1>3. call.form \in Forms
    BY CallMade DEF Reached
<1>4. BindAll(Params, in, call.rt)
        = IF Mistyped(Params, Sent) THEN Failure
          ELSE [ok |-> TRUE, vals |-> Intended(Params, Sent, call.rt)]
  <2>. DEFINE form == call.form
              given == call.given
              rt == call.rt
              ps == Params
              decl == Decl
  <2>1. /\ Asks(ps, given, n) /\ form \in Forms /\ ~Hard(form, ps, decl, given)
        /\ Sends(form, ps, decl, given, in) /\ Sent = Heard(form, ps, given)
      BY <1>1, <1>2, <1>3 DEF Sent
  <2>. HIDE DEF form, given, rt, ps, decl
  <2>2. BindAll(ps, in, rt) = IF Mistyped(ps, Heard(form, ps, given)) THEN Failure
                              ELSE [ok |-> TRUE, vals |-> Intended(ps, Heard(form, ps, given), rt)]
      BY <2>1, AllBound
  <2>. QED BY <2>1, <2>2 DEF form, given, rt, ps, decl
<1>. QED BY <1>2, <1>4 DEF Meant

(* Where Meta.Args lines up with the struct and is empty there are no arguments. *)
LEMMA NoneToLineUp ==
    ASSUME NEW ps, NEW n \in Nat, DOMAIN ps = 1..n, LinesUp(ps, <<>>)
    PROVE  ArgsOf(ps) = {}
<1>1. Cardinality(ArgsOf(ps)) = 0
    BY DEF LinesUp
<1>2. IsFiniteSet(ArgsOf(ps))
  <2>1. IsFiniteSet(1..n)
      BY FS_Interval
  <2>. QED BY <2>1, FS_Subset DEF ArgsOf
<1>. QED BY <1>1, <1>2, FS_EmptySet

(* With every required argument there is no gap (SchemaKeepsPlaces). *)
LEMMA SchemaMeant == SurfacesIInv => SchemaKeepsPlaces
<1>. SUFFICES ASSUME SurfacesIInv, Reached, By({"tool"}), LinesUp(Params, Decl),
                     \A k \in SchemaRequires(Params) : call.given[k] # <<>>
              PROVE  call.bound = Meant
    BY DEF SchemaKeepsPlaces
<1>1. PICK n \in Nat : Asks(Params, call.given, n)
    BY CallAsks
<1>2. ~Gap(Params, call.given)
  <2>. SUFFICES ASSUME NEW j \in ArgsOf(Params), NEW k \in ArgsOf(Params), j < k, call.given[j] = <<>>
                PROVE  FALSE
      BY DEF Gap
  <2>1. ~Params[j].variadic
      BY <1>1, Known
  <2>. QED BY <2>1 DEF SchemaRequires
<1>3. call.form = "tool"
    BY DEF By
<1>4. ByName(call.form, Decl) => ArgsOf(Params) = {}
  <2>1. DOMAIN Params = 1..n
      BY <1>1, Known
  <2>. QED BY <1>3, <2>1, NoneToLineUp DEF ByName
<1>5. ~Hard(call.form, Params, Decl, call.given)
    BY <1>2, <1>3, <1>4 DEF Hard, Strays, Blank, Dropped
<1>. QED BY <1>3, <1>5, BindsMeant DEF BindsAsMeant

(* What is no number when a form has said it is refused (BadNumbersRefused). *)
LEMMA BadRefused == SurfacesIInv => BadNumbersRefused
<1>. SUFFICES ASSUME SurfacesIInv, Reached, ~Strays(call.form, Params, Decl, call.given),
                     Mistyped(Params, Sent)
              PROVE  ~call.bound.ok
    BY DEF BadNumbersRefused
<1>1. PICK n \in Nat : Asks(Params, call.given, n)
    BY CallAsks
<1>2. PICK in : /\ Sends(call.form, Params, Decl, call.given, in)
                /\ call.bound = IF call.form = "cli" /\ ~Admits(Decl, Len(CliWords(Params, call.given)))
                                THEN Failure ELSE BindAll(Params, in, call.rt)
    BY CallSends
<1>3. call.form \in Forms
    BY CallMade DEF Reached
<1>4. BindAll(Params, in, call.rt) = Failure
    BY <1>1, <1>2, <1>3, BadBound DEF Sent
<1>. QED BY <1>2, <1>4 DEF Failure

(* ---- The positional words in order -------------------------------------- *)

(* The arguments as they were given, one part a parameter. *)
AsGiven(ps, given, n) == [k \in 1..n |-> IF k \in ArgsOf(ps) THEN given[k] ELSE <<>>]
WholeWords == Words \ {EmptyWord}

(* On a command line they are so written. *)
LEMMA PlainWords ==
    ASSUME NEW ps, NEW given, NEW n, Asks(ps, given, n)
    PROVE  CliWords(ps, given) = FlattenSeq(AsGiven(ps, given, n))
<1>. DEFINE flat == FlatParts(ps, given, Whole)
<1>1. CliWords(ps, given) = FlattenSeq(flat)
    BY DEF CliWords, Flat, FlatParts
<1>2. /\ n \in Nat /\ (\A k \in ArgsOf(ps) : k \in 1..n) /\ \A k \in 1..n : given[k] \in Seq(Words)
    BY Known
<1>3. Whole \in [Words -> Seq(Words)]
    BY DEF Whole
<1>4. ASSUME NEW k \in ArgsOf(ps), NEW i \in DOMAIN given[k]
      PROVE  Whole[given[k][i]] = <<given[k][i]>>
  <2>. DEFINE v == given[k]
  <2>1. v \in Seq(Words) /\ i \in DOMAIN v
      BY <1>2
  <2>. HIDE DEF v
  <2>2. v[i] \in Words
      BY <2>1
  <2>. QED BY <2>2 DEF Whole, v
<1>5. Keeps(Whole, ps, given)
    BY <1>4 DEF Keeps
<1>6. /\ flat \in Seq(Seq(Words)) /\ Len(flat) = n
      /\ \A k \in 1..n : flat[k] = IF k \in ArgsOf(ps) THEN given[k] ELSE <<>>
    BY <1>3, <1>5, FlatFits
<1>. HIDE DEF flat
<1>7. flat = [k \in 1..n |-> flat[k]]
    BY <1>2, <1>6
<1>8. flat = AsGiven(ps, given, n)
    BY <1>6, <1>7 DEF AsGiven
<1>. QED BY <1>1, <1>8

(* With no slash in a path the words are those the form says. *)
LEMMA PartsPlain ==
    ASSUME NEW ps, NEW given, NEW n, Asks(ps, given, n), NEW form \in {"cli", "path", "tool"},
           form = "path" => ~Slashed(ps, given)
    PROVE  PartsOf(form, ps, given) = AsGiven(ps, Heard(form, ps, given), n)
<1>. DEFINE parts == PartsOf(form, ps, given)
            A == ArgsOf(ps)
            h == Heard(form, ps, given)
<1>1. Carried(form, ps, given, n, parts)
    BY PartsFit
<1>2. /\ n \in Nat
      /\ \A k \in A : k \in 1..n /\ (ps[k].variadic <=> ps[k].type = "slice")
    BY Known
<1>3. \A k \in 1..n : SaidOf(form, ps[k], given[k], h[k])
  <2>1. form \in Forms
      BY DEF Forms, HttpForms, ToolForms
  <2>. QED BY <2>1, HeardFits
<1>. HIDE DEF parts, A, h
<1>4. ASSUME NEW k \in A PROVE parts[k] = h[k]
  <2>. DEFINE v == given[k]
  <2>1. k \in 1..n /\ SaidOf(form, ps[k], v, h[k]) /\ form # "bare"
      BY <1>2, <1>3, <1>4
  <2>2. CASE ps[k].variadic
    <3>1. parts[k] = v
        BY <1>1, <1>4, <2>1, <2>2 DEF Carried, A
    <3>. QED BY <1>2, <1>4, <2>1, <2>2, <3>1 DEF SaidOf
  <2>3. CASE v = <<>>
    <3>1. parts[k] = <<>>
        BY <1>1, <2>1, <2>3 DEF Carried
    <3>. QED BY <2>1, <2>3, <3>1 DEF SaidOf
  <2>4. CASE ~ps[k].variadic /\ v # <<>>
    <3>1. parts[k] = <<Said(form, ps[k], v[1])>>
        BY <1>1, <1>4, <2>4 DEF Carried, A
    <3>. QED BY <1>2, <1>4, <2>1, <2>4, <3>1 DEF SaidOf
  <2>. QED BY <2>2, <2>3, <2>4
<1>5. \A k \in 1..n : k \notin A => parts[k] = <<>>
    BY <1>1 DEF Carried, A
<1>6. parts = [k \in 1..n |-> parts[k]]
  <2>1. parts \in Seq(Seq(Words)) /\ Len(parts) = n
      BY <1>1 DEF Carried
  <2>. QED BY <1>2, <2>1
<1>7. [k \in 1..n |-> parts[k]] = AsGiven(ps, h, n)
    BY <1>4, <1>5 DEF AsGiven, A
<1>. QED BY <1>6, <1>7 DEF parts, h

(* No form makes a blank of a word. *)
LEMMA NoneBlank ==
    ASSUME NEW ps, NEW given, NEW n, Asks(ps, given, n), NEW form \in Forms, ~Blank(ps, given)
    PROVE  ~Blank(ps, Heard(form, ps, given))
<1>. DEFINE h == Heard(form, ps, given)
<1>. SUFFICES ASSUME NEW k \in ArgsOf(ps) PROVE EmptyWord \notin ToSet(h[k])
    BY DEF Blank
<1>. DEFINE p == ps[k]
            v == given[k]
            u == h[k]
            s == Said(form, p, v[1])
<1>1. p.kind = "arg" /\ SaidOf(form, p, v, u) /\ v \in Seq(Words)
    BY Known, HeardFits
<1>2. EmptyWord \notin ToSet(v)
    BY DEF Blank
<1>3. p.type = "int" \/ u = v
    BY <1>1 DEF SaidOf
<1>4. ASSUME p.type = "int", u # v PROVE EmptyWord \notin ToSet(u)
  <2>1. v # <<>> /\ u = <<s>>
      BY <1>1, <1>4 DEF SaidOf
  <2>2. v[1] # EmptyWord
    <3>. HIDE DEF v
    <3>1. Len(v) \in Nat /\ Len(v) # 0 /\ DOMAIN v = 1..Len(v)
        BY <1>1, <2>1, EmptySeq
    <3>2. 1 \in DOMAIN v
        BY <3>1
    <3>. QED BY <1>2, <3>2 DEF ToSet
  <2>3. s = v[1] \/ \E w \in Numbers : s = Sprinted[w]
    <3>. HIDE DEF v, p
    <3>. QED BY <1>1 DEF Said
  <2>4. \A w \in Numbers : Sprinted[w] # EmptyWord
      BY WordsAssumption
  <2>. HIDE DEF v, s, u
  <2>5. s # EmptyWord
      BY <2>2, <2>3, <2>4
  <2>6. DOMAIN <<s>> = {1} /\ <<s>>[1] = s
      OBVIOUS
  <2>. QED BY <2>1, <2>5, <2>6 DEF ToSet
<1>. QED BY <1>2, <1>3, <1>4

(* And none of them is blank. *)
LEMMA GivenWhole ==
    ASSUME NEW ps, NEW given, NEW n, Asks(ps, given, n), ~Blank(ps, given)
    PROVE  /\ AsGiven(ps, given, n) \in Seq(Seq(WholeWords)) /\ Len(AsGiven(ps, given, n)) = n
           /\ FlattenSeq(AsGiven(ps, given, n)) \in Seq(WholeWords)
<1>. DEFINE G == AsGiven(ps, given, n)
            Q == Seq(WholeWords)
            A == ArgsOf(ps)
<1>1. n \in Nat /\ (\A k \in A : k \in 1..n) /\ \A k \in 1..n : given[k] \in Seq(Words)
    BY Known
<1>2. ASSUME NEW k \in A PROVE given[k] \in Q
  <2>. DEFINE v == given[k]
  <2>1. v \in Seq(Words) /\ EmptyWord \notin ToSet(v)
      BY <1>1, <1>2 DEF Blank
  <2>. HIDE DEF v
  <2>2. \A i \in DOMAIN v : v[i] # EmptyWord
      BY <2>1 DEF ToSet
  <2>3. DOMAIN v = 1..Len(v) /\ Len(v) \in Nat /\ \A i \in 1..Len(v) : v[i] \in Words
      BY <2>1
  <2>4. \A i \in 1..Len(v) : v[i] \in WholeWords
      BY <2>2, <2>3 DEF WholeWords
  <2>5. v = [i \in 1..Len(v) |-> v[i]]
      BY <2>1
  <2>. HIDE DEF Q
  <2>6. v \in Seq(WholeWords)
      BY <2>3, <2>4, <2>5
  <2>. QED BY <2>6 DEF v, Q
<1>3. <<>> \in Q
    OBVIOUS
<1>4. G \in Seq(Q) /\ Len(G) = n
  <2>. HIDE DEF Q, A
  <2>1. \A k \in 1..n : (IF k \in A THEN given[k] ELSE <<>>) \in Q
      BY <1>2, <1>3
  <2>. QED BY <1>1, <2>1 DEF AsGiven, A
<1>5. FlattenSeq(G) \in Seq(WholeWords)
  <2>. HIDE DEF G
  <2>1. PICK g \in [0..Len(G) -> Seq(WholeWords)] : Runs(G, g) /\ FlattenSeq(G) = g[Len(G)]
      BY <1>4, FlattenRun
  <2>2. Len(G) \in 0..Len(G)
      BY <1>1, <1>4
  <2>. QED BY <2>1, <2>2
<1>. QED BY <1>4, <1>5

(* What bind makes of an argument, wherever its words came from. *)
LEMMA ArgTaken ==
    ASSUME NEW ps, NEW decl, NEW given, NEW n, Asks(ps, given, n), NEW form \in {"cli", "path", "tool"},
           form = "tool" => LinesUp(ps, decl),
           NEW in, Sends(form, ps, decl, given, in), in.args \in Seq(WholeWords), NEW k \in ArgsOf(ps),
           BindArg(ps, k, in).ok
    PROVE  /\ ps[k].variadic => BindArg(ps, k, in).v
                = SubSeq(in.args, Cardinality(Upto(ArgsOf(ps), k - 1)) + 1, Len(in.args))
           /\ ~ps[k].variadic => Dealt(in.args, ArgsOf(ps), BindArg(ps, k, in).v, k)
<1>. DEFINE p == ps[k]
            named == in.flags[k]
            F == in.args
            at == Cursor(ps, k, F)
            rest == SubSeq(F, at + 1, Len(F))
<1>1. k \in 1..n /\ n \in Nat /\ DOMAIN ps = 1..n /\ p.kind = "arg" /\ (p.variadic <=> p.type = "slice")
      /\ Readable(p) /\ ArgsOf(ps) \in SUBSET (1..n)
    BY Known
<1>2. named = Absent
  <2>1. ~ByName(form, decl)
    <3>1. form = "tool" => decl # <<>>
      <4>1. DOMAIN ps = 1..n /\ n \in Nat
          BY <1>1
      <4>. QED BY <4>1, NoneToLineUp
    <3>. QED BY <3>1 DEF ByName
  <2>2. named = RawOf(form, ByName(form, decl), p, given[k])
      BY <1>1 DEF Sends
  <2>3. form = "cli" \/ form \in HttpForms \/ form \in ToolForms
      BY DEF HttpForms, ToolForms
  <2>. QED BY <1>1, <2>1, <2>2, <2>3 DEF RawOf
<1>3. at = Cardinality(Upto(ArgsOf(ps), k - 1)) /\ at \in Nat
  <2>1. at = Cardinality(Upto(ArgsOf(ps), k - 1))
      BY CursorAt
  <2>2. k - 1 \in Nat
      BY <1>1
  <2>. HIDE DEF at
  <2>. QED BY <1>1, <2>1, <2>2, CountUp
<1>4. BindArg(ps, k, in)
        = IF p.variadic
          THEN SetSlice(p.type, IF rest = <<>> THEN NamedList(named) ELSE rest)
          ELSE IF at < Len(F) THEN FromString(p.type, F[at + 1])
          ELSE IF named.form = "string" /\ named.words # <<EmptyWord>>
               THEN FromString(p.type, named.words[1]) ELSE Good(<<>>)
    BY DEF BindArg
<1>5. NamedList(Absent) = <<>> /\ Absent.form # "string"
    BY DEF NamedList, Absent
<1>. HIDE DEF named, at, rest, p
<1>6. CASE p.variadic
  <2>1. BindArg(ps, k, in) = SetSlice(p.type, rest)
      BY <1>2, <1>4, <1>5, <1>6
  <2>2. BindArg(ps, k, in) = Good(rest)
      BY <1>1, <1>6, <2>1, ReadList
  <2>3. BindArg(ps, k, in).v = rest
      BY <2>2 DEF Good
  <2>. QED BY <1>3, <1>6, <2>3 DEF rest, p
<1>7. CASE ~p.variadic /\ at < Len(F)
  <2>. DEFINE w == F[at + 1]
  <2>1. w # EmptyWord
    <3>1. Len(F) \in Nat
        OBVIOUS
    <3>2. at + 1 \in 1..Len(F)
        BY <1>3, <1>7, <3>1
    <3>3. F[at + 1] \in WholeWords
        BY <3>2
    <3>. QED BY <3>3 DEF WholeWords
  <2>2. BindArg(ps, k, in) = FromString(p.type, w)
      BY <1>4, <1>7
  <2>. HIDE DEF w
  <2>3. BindArg(ps, k, in) = Good(<<w>>)
    <3>1. ~Bad.ok
        BY DEF Bad
    <3>. QED BY <1>1, <1>7, <2>1, <2>2, <3>1 DEF FromString, Scalar
  <2>4. BindArg(ps, k, in).v = <<w>>
      BY <2>3 DEF Good
  <2>. QED BY <1>3, <1>7, <2>4 DEF Dealt, w, p
<1>8. CASE ~p.variadic /\ ~(at < Len(F))
  <2>1. BindArg(ps, k, in) = Good(<<>>)
      BY <1>2, <1>4, <1>5, <1>8
  <2>2. BindArg(ps, k, in).v = <<>>
      BY <2>1 DEF Good
  <2>. QED BY <1>3, <1>8, <2>2 DEF Dealt, p
<1>. QED BY <1>6, <1>7, <1>8

(* Without a list among the arguments there is a word for each at most. *)
LEMMA WordsCounted ==
    ASSUME NEW ps, NEW given, NEW n, Asks(ps, given, n), ~Blank(ps, given),
           \A k \in ArgsOf(ps) : ~ps[k].variadic
    PROVE  Len(FlattenSeq(AsGiven(ps, given, n))) <= Cardinality(ArgsOf(ps))
<1>. DEFINE G == AsGiven(ps, given, n)
            A == ArgsOf(ps)
            S == WholeWords
<1>1. G \in Seq(Seq(S)) /\ Len(G) = n
    BY GivenWhole
<1>2. n \in Nat /\ A \in SUBSET (1..n) /\ \A k \in A : k \in 1..n /\ ps[k].type # "slice" /\ Len(given[k]) <= 1
  <2>1. /\ n \in Nat /\ A \in SUBSET (1..n)
        /\ \A k \in A : k \in 1..n /\ ps[k].type # "slice"
        /\ \A k \in 1..n : ps[k].type # "slice" => Len(given[k]) <= 1
      BY Known
  <2>. QED BY <2>1
<1>3. (\A j \in 1..n : j \notin A => G[j] = <<>>) /\ \A j \in A : G[j] = given[j]
    BY <1>2 DEF AsGiven
<1>. HIDE DEF G, A, S
<1>4. PICK g \in [0..Len(G) -> Seq(S)] : Runs(G, g) /\ FlattenSeq(G) = g[Len(G)]
    BY <1>1, FlattenRun
<1>5. \A j \in A : j <= n => Len(G[j]) <= 1
    BY <1>2, <1>3
<1>6. n \in 0..Len(G) /\ A \in SUBSET (1..Len(G)) /\ \A j \in 1..Len(G) : j \notin A => G[j] = <<>>
    BY <1>1, <1>2, <1>3
<1>7. Len(g[n]) <= Cardinality(Upto(A, n))
    BY <1>1, <1>4, <1>5, <1>6, RunCounts
<1>8. Upto(A, n) = A
    BY <1>2, CountUp
<1>. QED BY <1>1, <1>4, <1>7, <1>8 DEF G, A

(* What the arguments are bound to, in order. *)
BoundArgs(ps, vals) == [k \in DOMAIN ps |-> IF k \in ArgsOf(ps) THEN vals[k] ELSE <<>>]

(* The calls whose positional words have an order that is kept. *)
Ordered(form, ps, decl, given) ==
    /\ form \in {"cli", "path", "tool"} /\ (form = "tool" => LinesUp(ps, decl))
    /\ ~Slashed(ps, given) /\ ~Blank(ps, given)

(* They are the words given, each once and in order, even with a gap. *)
LEMMA ArgsInOrder ==
    ASSUME NEW ps, NEW decl, NEW given, NEW n, Asks(ps, given, n), NEW form,
           Ordered(form, ps, decl, given), NEW in, Sends(form, ps, decl, given, in), NEW rt, BindAll(ps, in, rt).ok
    PROVE  FlattenSeq(BoundArgs(ps, BindAll(ps, in, rt).vals)) = CliWords(ps, Heard(form, ps, given))
<1>. DEFINE h == Heard(form, ps, given)
            G == AsGiven(ps, h, n)
            F == in.args
            A == ArgsOf(ps)
            S == WholeWords
            L == {k \in A : ps[k].variadic}
            got(k) == BindOne(ps, k, in, rt)
            H == BoundArgs(ps, BindAll(ps, in, rt).vals)
<1>. USE DEF Ordered
<1>0. Asks(ps, h, n) /\ ~Blank(ps, h)
  <2>1. form \in Forms
      BY DEF Forms, HttpForms, ToolForms
  <2>. QED BY <2>1, HeardFits, NoneBlank
<1>1. F = FlattenSeq(G) /\ F \in Seq(S) /\ CliWords(ps, h) = F
  <2>1. PartsOf(form, ps, given) = G
      BY PartsPlain
  <2>. HIDE DEF h
  <2>2. CliWords(ps, h) = FlattenSeq(G) /\ FlattenSeq(G) \in Seq(S)
      BY <1>0, PlainWords, GivenWhole
  <2>3. CASE ~ByName(form, decl)
    <3>1. F = FlattenSeq(PartsOf(form, ps, given))
        BY <2>3 DEF Sends
    <3>. QED BY <2>1, <2>2, <3>1
  <2>4. CASE ByName(form, decl)
    <3>1. F = <<>>
        BY <2>4 DEF Sends
    <3>2. ArgsOf(ps) = {}
      <4>1. decl = <<>> /\ LinesUp(ps, decl)
          BY <2>4 DEF ByName
      <4>2. n \in Nat /\ DOMAIN ps = 1..n
          BY Known
      <4>. QED BY <4>1, <4>2, NoneToLineUp
    <3>3. Len(FlattenSeq(G)) <= 0
      <4>1. Cardinality(ArgsOf(ps)) = 0
          BY <3>2, FS_EmptySet
      <4>2. Len(FlattenSeq(G)) <= Cardinality(ArgsOf(ps))
          BY <1>0, <3>2, WordsCounted
      <4>. QED BY <4>1, <4>2
    <3>. DEFINE flat == FlattenSeq(G)
    <3>4. flat = <<>>
      <4>1. flat \in Seq(S) /\ Len(flat) <= 0
          BY <2>2, <3>3
      <4>. HIDE DEF flat, S
      <4>2. Len(flat) \in Nat
          BY <4>1
      <4>3. Len(flat) = 0
          BY <4>1, <4>2
      <4>. QED BY <4>1, <4>3, EmptySeq
    <3>. QED BY <2>2, <3>1, <3>4
  <2>. QED BY <2>3, <2>4
<1>2. /\ n \in Nat /\ DOMAIN ps = 1..n /\ A \in SUBSET (1..n)
      /\ \A k \in A : k \in 1..n /\ ps[k].kind = "arg"
      /\ \A j, k \in A : j < k => ~ps[j].variadic
      /\ \A k \in 1..n : Readable(ps[k])
    BY Known
<1>3. ASSUME NEW k \in A PROVE H[k] = BindArg(ps, k, in).v /\ BindArg(ps, k, in).ok
  <2>1. k \in DOMAIN ps /\ got(k) = BindArg(ps, k, in)
      BY <1>2, <1>3 DEF BindOne
  <2>2. /\ \A j \in DOMAIN ps : got(j).ok
        /\ BindAll(ps, in, rt).vals = [j \in DOMAIN ps |-> got(j).v]
    <3>1. ~Failure.ok
        BY DEF Failure
    <3>2. BindAll(ps, in, rt) = IF \E j \in DOMAIN ps : ~got(j).ok THEN Failure
                                ELSE [ok |-> TRUE, vals |-> [j \in DOMAIN ps |-> got(j).v]]
        BY DEF BindAll
    <3>. HIDE DEF got
    <3>. QED BY <3>1, <3>2
  <2>3. H[k] = BindAll(ps, in, rt).vals[k]
      BY <1>3, <2>1 DEF BoundArgs
  <2>. HIDE DEF got, H
  <2>. QED BY <2>1, <2>2, <2>3
<1>4. \A k \in 1..n : k \notin A => H[k] = <<>>
    BY <1>2 DEF BoundArgs
<1>5. H = [k \in 1..n |-> H[k]]
    BY <1>2 DEF BoundArgs
<1>. HIDE DEF H, F, G, A, h
<1>6. ASSUME NEW k \in A
      PROVE  /\ ps[k].variadic => H[k] = SubSeq(F, Cardinality(Upto(A, k - 1)) + 1, Len(F))
             /\ ~ps[k].variadic => Dealt(F, A, H[k], k)
  <2>1. H[k] = BindArg(ps, k, in).v /\ BindArg(ps, k, in).ok
      BY <1>3, <1>6
  <2>. QED BY <1>1, <1>6, <2>1, ArgTaken DEF F, A
<1>7. ASSUME NEW k \in A PROVE H[k] \in Seq(S)
  <2>. DEFINE at == Cardinality(Upto(A, k - 1))
  <2>1. at \in Nat /\ Len(F) \in Nat
    <3>1. k - 1 \in Nat
        BY <1>2, <1>7
    <3>2. at \in Nat
        BY <1>2, <3>1, CountUp
    <3>. QED BY <1>1, <3>2
  <2>. HIDE DEF at
  <2>2. CASE ps[k].variadic
    <3>1. H[k] = SubSeq(F, at + 1, Len(F))
        BY <1>6, <1>7, <2>2 DEF at
    <3>2. \A i \in at + 1..Len(F) : F[i] \in S
        BY <1>1, <2>1
    <3>3. at + 1 \in Int /\ Len(F) \in Int
        BY <2>1
    <3>. QED BY <3>1, <3>2, <3>3, SubSeqProperties
  <2>3. CASE ~ps[k].variadic
    <3>1. H[k] = IF at < Len(F) THEN <<F[at + 1]>> ELSE <<>>
        BY <1>6, <1>7, <2>3 DEF Dealt, at
    <3>2. at < Len(F) => F[at + 1] \in S
        BY <1>1, <2>1
    <3>. DEFINE x == F[at + 1]
    <3>3. x \in S => <<x>> \in Seq(S)
      <4>. HIDE DEF x
      <4>. QED OBVIOUS
    <3>. HIDE DEF S
    <3>. QED BY <3>1, <3>2, <3>3
  <2>. QED BY <2>2, <2>3
<1>8. H \in Seq(Seq(S)) /\ Len(H) = n
  <2>. DEFINE Q == Seq(S)
  <2>1. <<>> \in Q
      OBVIOUS
  <2>. HIDE DEF Q
  <2>2. \A k \in 1..n : H[k] \in Q
      BY <1>4, <1>7, <2>1 DEF Q
  <2>3. H \in Seq(Q) /\ Len(H) = n
      BY <1>2, <1>5, <2>2
  <2>. QED BY <2>3 DEF Q
<1>9. Shares(F, A, L, H)
  <2>1. NoneElse(A, H)
      BY <1>4, <1>8 DEF NoneElse
  <2>2. ASSUME NEW k \in L, NEW j \in A PROVE j <= k
    <3>1. ~(k < j)
        BY <1>2, <2>2
    <3>2. j \in 1..n /\ k \in 1..n
        BY <1>2, <2>2
    <3>. QED BY <3>1, <3>2
  <2>3. (\A j \in A \ L : Dealt(F, A, H[j], j))
        /\ \A k \in L : H[k] = SubSeq(F, Cardinality(Upto(A, k - 1)) + 1, Len(F))
      BY <1>6
  <2>4. ASSUME L = {} PROVE Len(F) <= Cardinality(A)
    <3>1. \A k \in ArgsOf(ps) : ~ps[k].variadic
        BY <2>4 DEF A
    <3>. QED BY <1>0, <1>1, <3>1, WordsCounted DEF G, A
  <2>. HIDE DEF L
  <2>. QED BY <2>1, <2>2, <2>3, <2>4 DEF Shares
<1>10. FlattenSeq(H) = F
  <2>1. L \in SUBSET A /\ A \in SUBSET (1..Len(H))
      BY <1>2, <1>8
  <2>. HIDE DEF L, S
  <2>. QED BY <1>1, <1>8, <1>9, <2>1, Regrouped
<1>. QED BY <1>1, <1>10 DEF H, h

(* No positional word is lost, invented or reordered (WordsKeepOrder). *)
LEMMA WordsOrdered == SurfacesIInv => WordsKeepOrder
<1>. DEFINE form == call.form
            given == call.given
            rt == call.rt
            ps == Params
            decl == Decl
<1>. SUFFICES ASSUME SurfacesIInv, Reached, By({"cli", "path", "tool"}), call.bound.ok,
                     form = "tool" => LinesUp(ps, decl), ~Slashed(ps, given), ~Blank(ps, given)
              PROVE  FlattenSeq(BoundArgs(ps, call.bound.vals)) = CliWords(ps, Sent)
    BY DEF WordsKeepOrder, BoundArgs
<1>1. PICK n \in Nat : Asks(ps, given, n)
    BY CallAsks
<1>2. PICK in : /\ Sends(form, ps, decl, given, in)
                /\ call.bound = IF form = "cli" /\ ~Admits(decl, Len(CliWords(ps, given)))
                                THEN Failure ELSE BindAll(ps, in, rt)
    BY CallSends
<1>3. call.bound = BindAll(ps, in, rt)
    BY <1>2 DEF Failure
<1>4. form \in {"cli", "path", "tool"} /\ Sent = Heard(form, ps, given)
    BY DEF By, Sent
<1>. HIDE DEF form, given, rt, ps, decl
<1>5. Sends(form, ps, decl, given, in) /\ BindAll(ps, in, rt).ok
    BY <1>2, <1>3
<1>6. Ordered(form, ps, decl, given)
    BY <1>4 DEF Ordered
<1>7. FlattenSeq(BoundArgs(ps, BindAll(ps, in, rt).vals)) = CliWords(ps, Heard(form, ps, given))
    BY <1>1, <1>5, <1>6, ArgsInOrder
<1>. QED BY <1>3, <1>4, <1>7

(* What becomes of the calls a form cannot carry, as far as it is known. *)
LEMMA LossesKnown == SurfacesIInv => LossesAreKnown
BY SchemaMeant, BadRefused, WordsOrdered DEF LossesAreKnown

(* ---- What the calls come to --------------------------------------------- *)

(* One call means the same over the command line, a path, a query and a tool *)
(* call: it is bound to the values given, with numbers as the form says      *)
(* them, and refused when what it says is no number; but for the calls the   *)
(* form cannot carry (BindsAsMeant).                                         *)
THEOREM CallsBindAsMeant == SurfacesSpec => []BindsAsMeant
<1>. QED BY SurfacesStay, BindsMeant, PTL

(* Arguments that satisfy the schema keep their places, what is no number    *)
(* when a form has said it is refused unless it went astray, and a gap       *)
(* loses, invents or reorders no positional word (LossesAreKnown).           *)
THEOREM LossesStayKnown == SurfacesSpec => []LossesAreKnown
<1>. QED BY SurfacesStay, LossesKnown, PTL
=============================================================================
