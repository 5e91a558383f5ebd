---------------------------- MODULE RecordStream ----------------------------
(***************************************************************************)
(* What one invocation of an operation promises to whoever reads its       *)
(* records, on every surface of kit: the terminal, an HTTP body or an MCP  *)
(* tool result.  The records arrive in the order the handler produced      *)
(* them, none is skipped, repeated or delivered after the end, the row     *)
(* limit is never exceeded, and the verdict fits what was delivered.       *)
(***************************************************************************)
EXTENDS Integers, Sequences

CONSTANTS Calls,        \* the invocations
          LimitValues   \* the row limits an invocation may run under, integers

Wants == [limit : LimitValues \union {0}, single : BOOLEAN]

VARIABLES phase,    \* [Calls -> {"none", "open", "ended"}]
          want,     \* [Calls -> Wants], the limit and the Single mark
          out,      \* [Calls -> Seq(Nat)], the records delivered
          verdict   \* [Calls -> {"none", "complete", "empty", "error"}]

streamVars == <<phase, want, out, verdict>>

Nothing == [limit |-> 0, single |-> FALSE]

Init == /\ phase = [c \in Calls |-> "none"]
        /\ want = [c \in Calls |-> Nothing]
        /\ out = [c \in Calls |-> <<>>]
        /\ verdict = [c \in Calls |-> "none"]

(* A call that cannot be bound ends before it has begun. *)
Reject(c) == /\ phase[c] = "none"
             /\ phase' = [phase EXCEPT ![c] = "ended"]
             /\ verdict' = [verdict EXCEPT ![c] = "error"]
             /\ UNCHANGED <<want, out>>

Open(c, w) == /\ phase[c] = "none"
              /\ phase' = [phase EXCEPT ![c] = "open"]
              /\ want' = [want EXCEPT ![c] = w]
              /\ UNCHANGED <<out, verdict>>

(* The next record, unless a positive limit has been reached. *)
Deliver(c) == /\ phase[c] = "open"
              /\ want[c].limit > 0 => Len(out[c]) < want[c].limit
              /\ out' = [out EXCEPT ![c] = Append(@, Len(@) + 1)]
              /\ UNCHANGED <<phase, want, verdict>>

Fits(c, v) == CASE v = "empty"    -> out[c] = <<>>
                [] v = "complete" -> want[c].single \/ out[c] # <<>>
                [] v = "error"    -> TRUE

End(c, v) == /\ phase[c] = "open"
             /\ Fits(c, v)
             /\ phase' = [phase EXCEPT ![c] = "ended"]
             /\ verdict' = [verdict EXCEPT ![c] = v]
             /\ UNCHANGED <<want, out>>

Next == \E c \in Calls : \/ Reject(c)
                         \/ \E w \in Wants : Open(c, w)
                         \/ Deliver(c)
                         \/ \E v \in {"complete", "empty", "error"} : End(c, v)

Spec == Init /\ [][Next]_streamVars
=============================================================================
