----------------------------- MODULE ApiChannel -----------------------------
(***************************************************************************)
(* The way of a call from a thread of the client to syncd and back: the    *)
(* API mutex (Otai), the list of requests and the list of answers in redis *)
(* (RedisChannel, RedisSelectableChannel), the wait with its timeout, and  *)
(* syncd taking requests, executing and answering them.  Requests and      *)
(* answers carry no number; the numbers here are seen by properties only.  *)
(***************************************************************************)
EXTENDS Naturals, Sequences, SequencesExt

CONSTANTS
  Thread,    \* threads of the client
  Nobody,    \* the API mutex is free
  MaxCalls   \* bound: calls made

ASSUME ThreadAssumption == Nobody \notin Thread
ASSUME MaxCallsAssumption == MaxCalls \in Nat

(* Create, remove and set are answered by a status alone, get by a status  *)
(* and values; stats stands for get_stats and clear_stats, which syncd     *)
(* does not know.                                                          *)
Op == {"set", "get", "stats"}
Number == 1 .. MaxCalls
Request == [number : Number, op : Op]
Verdict == {"SUCCESS", "refused"}
Answer == [number : Number, status : Verdict, values : BOOLEAN]
NoRequest == [number |-> 0, op |-> "set"]

VARIABLES
  mutex,      \* the API mutex: the thread that holds it
  current,    \* the request each thread waits for, NoRequest outside a call
  calls,      \* number of requests sent so far
  result,     \* what the last call of each thread returned
  answerOf,   \* the number of the request whose answer it took, 0 if none
  abandoned,  \* a call was given up while its answer was under way
  requests,   \* redis: the list of requests
  answers,    \* redis: the list of answers
  syncd,      \* "down", "idle", "popped" or "executed"
  buffer,     \* requests that syncd took from redis; the first is in work
  verdict,    \* the vendor's verdict on it
  effects     \* what syncd executed, in order

client  == <<mutex, current, calls, result, answerOf, abandoned>>
server  == <<syncd, buffer, verdict, effects>>
vars    == <<client, server, requests, answers>>

TypeOK ==
  /\ mutex \in Thread \cup {Nobody}
  /\ current \in [Thread -> Request \cup {NoRequest}]
  /\ calls \in 0 .. MaxCalls
  /\ result \in [Thread -> Verdict \cup {"none", "FAILURE", "throws"}]
  /\ answerOf \in [Thread -> 0 .. MaxCalls]
  /\ abandoned \in BOOLEAN
  /\ requests \in Seq(Request)
  /\ answers \in Seq(Answer)
  /\ syncd \in {"down", "idle", "popped", "executed"}
  /\ buffer \in Seq(Request)
  /\ verdict \in Verdict
  /\ effects \in Seq(Number \X Verdict)
  /\ syncd \in {"popped", "executed"} => buffer # <<>>

Init ==
  /\ mutex = Nobody
  /\ current = [c \in Thread |-> NoRequest]
  /\ calls = 0
  /\ result = [c \in Thread |-> "none"]
  /\ answerOf = [c \in Thread |-> 0]
  /\ abandoned = FALSE
  /\ requests = <<>> /\ answers = <<>>
  /\ syncd = "down" /\ buffer = <<>> /\ verdict = "SUCCESS"
  /\ effects = <<>>

-----------------------------------------------------------------------------
(* The client. *)

(* Mutant of MayLock: a call without MUTEX. *)
MayLockAnyway == TRUE

MayLock == mutex = Nobody

(* Lock the API mutex and push the request.  A call that Meta turns down   *)
(* in between leaves no trace.                                             *)
Send(c) ==
  /\ MayLock /\ current[c] = NoRequest
  /\ calls < MaxCalls                                           \* bound
  /\ mutex' = c
  /\ calls' = calls + 1
  /\ \E op \in Op :
       LET r == [number |-> calls', op |-> op] IN
       current' = [current EXCEPT ![c] = r] /\ requests' = Append(requests, r)
  /\ result' = [result EXCEPT ![c] = "none"]
  /\ answerOf' = [answerOf EXCEPT ![c] = 0]
  /\ UNCHANGED <<abandoned, server, answers>>

(* The call returns, or throws, and the lock_guard unlocks. *)
EndCall(c, r) ==
  /\ result' = [result EXCEPT ![c] = r]
  /\ current' = [current EXCEPT ![c] = NoRequest]
  /\ mutex' = Nobody
  /\ UNCHANGED <<calls, requests, server>>

(* Mutant of Taken: the oldest answer. *)
TakenFirst == Head(answers)

(* pops empties the list and back() takes the newest. *)
Taken == Last(answers)

(* "logic error states = success, get response returned 0 values!" and     *)
(* "wrong number of counters".                                             *)
Throws(r, a) == r.op \in {"get", "stats"} /\ a.status = "SUCCESS" /\ ~a.values

TakeAnswer(c) ==
  /\ current[c] # NoRequest
  /\ answers # <<>>
  /\ answerOf' = [answerOf EXCEPT ![c] = Taken.number]
  /\ answers' = <<>>
  /\ UNCHANGED abandoned
  /\ EndCall(c, IF Throws(current[c], Taken) THEN "throws" ELSE Taken.status)

(* Whether the answer to request r is still on its way. *)
UnderWay(r) ==
  \/ \E i \in DOMAIN requests : requests[i] = r
  \/ \E i \in DOMAIN buffer : buffer[i] = r
  \/ \E i \in DOMAIN answers : answers[i].number = r.number

(* A call that waits is given up. *)
GiveUp(c) == abandoned' = (abandoned \/ UnderWay(current[c]))

(* Mutant of Timeout: select without a timeout while syncd is down. *)
TimeoutWhileUp(c) ==
  /\ current[c] # NoRequest
  /\ answers = <<>> /\ syncd # "down"
  /\ GiveUp(c)
  /\ UNCHANGED <<answerOf, answers>>
  /\ EndCall(c, "FAILURE")

(* select timed out, whether an answer will come or not. *)
Timeout(c) ==
  /\ current[c] # NoRequest
  /\ answers = <<>>
  /\ GiveUp(c)
  /\ UNCHANGED <<answerOf, answers>>
  /\ EndCall(c, "FAILURE")

(* The client dies and starts again; both lists stay in redis. *)
ClientRestarts ==
  /\ mutex # Nobody
  /\ GiveUp(mutex)
  /\ mutex' = Nobody
  /\ current' = [c \in Thread |-> NoRequest]
  /\ result' = [c \in Thread |-> "none"]
  /\ answerOf' = [c \in Thread |-> 0]
  /\ UNCHANGED <<calls, server, requests, answers>>

-----------------------------------------------------------------------------
(* syncd. *)

SyncdStarts ==
  /\ syncd = "down"
  /\ syncd' = "idle"
  /\ UNCHANGED <<client, buffer, verdict, effects, requests, answers>>

(* Mutant of Fetch: the requests stay in redis until they are answered. *)
FetchPeeks(k) == UNCHANGED requests

Fetch(k) == requests' = SubSeq(requests, k + 1, Len(requests))

(* Mutant of Batch: the check for an event without a key is missing. *)
BatchOrNothing(q) == 0 .. Len(q)

(* How many requests the consumer may take at once; a pop that finds none  *)
(* gives an event without a key, which is skipped.                         *)
Batch(q) == 1 .. Len(q)

(* processEvent: the consumer takes some requests from redis at once and   *)
(* hands them out one by one.                                              *)
Pop ==
  /\ syncd = "idle"
  /\ IF buffer # <<>>
       THEN UNCHANGED <<buffer, requests>>
       ELSE \E k \in Batch(requests) :
              buffer' = SubSeq(requests, 1, k) /\ Fetch(k)
  /\ syncd' = "popped"
  /\ UNCHANGED <<client, verdict, effects, answers>>

(* The vendor call. *)
Execute ==
  /\ syncd = "popped" /\ Head(buffer).op # "stats"
  /\ verdict' \in Verdict
  /\ effects' = Append(effects, <<Head(buffer).number, verdict'>>)
  /\ syncd' = "executed"
  /\ UNCHANGED <<client, buffer, requests, answers>>

(* sendApiResponse and sendGetResponse. *)
SendResponse ==
  /\ syncd = "executed"
  /\ answers' = Append(answers,
       [number |-> Head(buffer).number, status |-> verdict,
        values |-> Head(buffer).op = "get" /\ verdict = "SUCCESS"])
  /\ buffer' = Tail(buffer)
  /\ syncd' = "idle"
  /\ UNCHANGED <<client, verdict, effects, requests>>

Exit ==
  /\ syncd' = "down" /\ buffer' = <<>> /\ verdict' = "SUCCESS"
  /\ UNCHANGED <<client, effects, requests, answers>>

(* "event op '%s' is not implemented, FIXME". *)
UnknownOpThrows == syncd = "popped" /\ Head(buffer).op = "stats" /\ Exit

(* A crash, an exception of a handler, or the exit after a restart query,  *)
(* which comes when all that was fetched is handled.                       *)
SyncdEnds == syncd # "down" /\ Exit

(* The linecard goes inactive: requests that were fetched are thrown away  *)
(* unanswered.  How many the library has fetched is its own affair.        *)
Drain ==
  /\ syncd = "idle" /\ buffer = <<>>
  /\ \E k \in 1 .. Len(requests) : requests' = SubSeq(requests, k + 1, Len(requests))
  /\ UNCHANGED <<client, server, answers>>

ServerStep == SyncdStarts \/ Pop \/ Execute \/ SendResponse \/ UnknownOpThrows

Next ==
  \/ \E c \in Thread : Send(c) \/ TakeAnswer(c) \/ Timeout(c)
  \/ ServerStep \/ SyncdEnds \/ Drain \/ ClientRestarts

Spec == Init /\ [][Next]_vars

(* The select of a waiting thread returns, at the latest by its timeout. *)
FairSpec ==
  /\ Spec
  /\ \A c \in Thread : WF_vars(TakeAnswer(c) \/ Timeout(c))
  /\ WF_vars(ServerStep)

-----------------------------------------------------------------------------
(* Properties. *)

(* Until a call is given up while its answer is under way the channel is a *)
(* synchronous call: whatever syncd loses or throws, a status that a call  *)
(* returns is the one with which this call, and no other, took effect      *)
(* before it returned.                                                     *)
Promise ==
  INSTANCE SyncCall WITH
    current <- [c \in Thread |-> current[c].number]
Synchronous == Promise!Spec

(* "Since we have only one get at a time, we don't have to serialize       *)
(* object type and object id": an answer that a call takes is its own.     *)
AnswersAreOwn ==
  [][\A c \in Thread :
       answerOf'[c] # 0 /\ current[c] # NoRequest /\ current'[c] = NoRequest
         => answerOf'[c] = current[c].number]_vars

(* Late answers, crashes and restarts notwithstanding, no request is       *)
(* executed twice and none overtakes another.                              *)
AtMostOnceInOrder ==
  \A i \in DOMAIN effects, j \in DOMAIN effects : i < j => effects[i][1] < effects[j][1]

(* A call whose own answer has arrived takes it, and not a leftover.       *)
OwnAnswerPreferred ==
  [][\A c \in Thread :
       current[c] # NoRequest /\ answerOf'[c] # answerOf[c]
         /\ (\E i \in DOMAIN answers : answers[i].number = current[c].number)
         => answerOf'[c] = current[c].number]_vars

(* Every call returns, and gives the API mutex back, also when syncd is    *)
(* down or has lost the request.                                           *)
CallsReturn == \A c \in Thread : current[c] # NoRequest ~> current[c] = NoRequest

=============================================================================
