------------------------------ MODULE SyncCall ------------------------------
(***************************************************************************)
(* What the client library promises of a synchronous OTAI call: calls are  *)
(* made one at a time, each takes effect in syncd at most once and before  *)
(* it returns, and a status other than a failure of the channel is the     *)
(* one with which this very call took effect.  From the first call that is *)
(* given up while its answer is under way nothing is promised any more.    *)
(***************************************************************************)
EXTENDS Naturals, Sequences

CONSTANTS
  Thread,   \* threads of the client
  MaxCalls  \* bound: calls made

(* What executing a call can say: the vendor's SUCCESS or its refusal. *)
Verdict == {"SUCCESS", "refused"}

VARIABLES
  current,   \* the number of the call each thread is in, or 0
  calls,     \* number of calls made so far
  effects,   \* calls that took effect, in order, each with its verdict
  abandoned, \* a call was given up while its answer was under way
  result     \* what each thread's last call returned

vars == <<current, calls, effects, abandoned, result>>

Init ==
  /\ current = [c \in Thread |-> 0]
  /\ calls = 0
  /\ effects = <<>>
  /\ abandoned = FALSE
  /\ result = [c \in Thread |-> "none"]

Call(c) ==
  /\ \A d \in Thread : current[d] = 0
  /\ calls < MaxCalls                                           \* bound
  /\ calls' = calls + 1
  /\ current' = [current EXCEPT ![c] = calls']
  /\ result' = [result EXCEPT ![c] = "none"]
  /\ UNCHANGED effects

HasEffect(n) == \E i \in 1 .. Len(effects) : effects[i][1] = n

Effect(c) ==
  /\ current[c] # 0 /\ ~HasEffect(current[c])
  /\ \E s \in Verdict : effects' = Append(effects, <<current[c], s>>)
  /\ UNCHANGED <<current, calls, result>>

(* The channel may fail at any time, with or without effect. *)
Return(c) ==
  /\ current[c] # 0
  /\ \E s \in Verdict \cup {"FAILURE"} :
       /\ s # "FAILURE" => \E i \in 1 .. Len(effects) : effects[i] = <<current[c], s>>
       /\ result' = [result EXCEPT ![c] = s]
  /\ current' = [current EXCEPT ![c] = 0]
  /\ UNCHANGED <<calls, effects>>

(* The client dies and starts again; it never learns how the call ended.   *)
Restart ==
  /\ current' = [c \in Thread |-> 0]
  /\ result' = [c \in Thread |-> "none"]
  /\ UNCHANGED <<calls, effects>>

Next ==
  \/ abandoned'
  \/ ~abandoned' /\ (Restart \/ \E c \in Thread : Call(c) \/ Effect(c) \/ Return(c))

Spec == Init /\ [][Next]_vars

=============================================================================
