------------------------- MODULE ApiChannel_proofs -------------------------
(***************************************************************************)
(* Proofs about ApiChannel, for every set of threads and every number of   *)
(* calls: type correctness, that requests are executed at most once and in *)
(* order, and that the channel implements SyncCall.                        *)
(***************************************************************************)
EXTENDS ApiChannel, SequenceTheorems, TLAPS

(* A thread is in a call exactly while it holds the API mutex, and that    *)
(* call is the last one made.                                              *)
CallInv ==
  \A c \in Thread :
    /\ current[c] # NoRequest <=> mutex = c
    /\ current[c] # NoRequest => current[c].number = calls /\ answerOf[c] = 0

Increasing(s) == \A i, j \in 1 .. Len(s) : i < j => s[i].number < s[j].number

(* Requests keep their order from redis through syncd's buffer to their    *)
(* effect, and the first of the buffer has its own only once executed.     *)
BufferFirst ==
  \A i \in 1 .. Len(buffer), j \in 1 .. Len(requests) : buffer[i].number < requests[j].number
EffectsFirst ==
  \A e \in 1 .. Len(effects), j \in 1 .. Len(requests) : effects[e][1] < requests[j].number
EffectsBehind ==
  \A e \in 1 .. Len(effects), i \in 1 .. Len(buffer) :
    \/ effects[e][1] < buffer[i].number
    \/ syncd = "executed" /\ effects[e][1] <= buffer[i].number
Bounded ==
  /\ \A i \in 1 .. Len(requests) : requests[i].number <= calls
  /\ \A i \in 1 .. Len(buffer) : buffer[i].number <= calls
  /\ \A e \in 1 .. Len(effects) : effects[e][1] <= calls

OrderInv ==
  /\ AtMostOnceInOrder /\ Increasing(buffer) /\ Increasing(requests)
  /\ Bounded /\ BufferFirst /\ EffectsFirst /\ EffectsBehind

(* Answers come in the order of the calls, before all that is not executed *)
(* yet; what syncd is about to answer has taken effect.                    *)
AnswerInv ==
  /\ Increasing(answers)
  /\ \A i \in 1 .. Len(answers) : answers[i].number <= calls
  /\ \A i \in 1 .. Len(answers), j \in 1 .. Len(buffer) : answers[i].number < buffer[j].number
  /\ \A i \in 1 .. Len(answers), j \in 1 .. Len(requests) :
       answers[i].number < requests[j].number

HasEffect(n, status) == \E e \in 1 .. Len(effects) : effects[e] = <<n, status>>

ExecutedInv ==
  syncd = "executed" => Head(buffer).op # "stats" /\ HasEffect(Head(buffer).number, verdict)

ChannelInv == TypeOK /\ CallInv /\ OrderInv /\ AnswerInv /\ ExecutedInv

(* A part of an increasing sequence is increasing. *)
LEMMA PartIncreases ==
  ASSUME NEW s, NEW t, NEW k \in Nat, Len(s) \in Nat, Len(t) \in Nat, Increasing(s),
         \A i \in 1 .. Len(t) : t[i] = s[k + i] /\ k + i \in 1 .. Len(s)
  PROVE  Increasing(t)
<1> SUFFICES ASSUME NEW i \in 1 .. Len(t), NEW j \in 1 .. Len(t), i < j
             PROVE  t[i].number < t[j].number
  BY DEF Increasing
<1>1. k + i < k + j /\ k + i \in 1 .. Len(s) /\ k + j \in 1 .. Len(s)
  OBVIOUS
<1> QED
  BY <1>1 DEF Increasing

LEMMA TypeOKIsInductive == TypeOK /\ [Next]_vars => TypeOK'
<1> SUFFICES ASSUME TypeOK, [Next]_vars PROVE TypeOK'
  OBVIOUS
<1> USE MaxCallsAssumption DEF TypeOK, client, server, Verdict
<1>1. CASE UNCHANGED vars
  BY <1>1 DEF vars
<1>2. ASSUME NEW c \in Thread, Send(c) PROVE TypeOK'
  <2>1. PICK op \in Op : LET r == [number |-> calls + 1, op |-> op] IN
          current' = [current EXCEPT ![c] = r] /\ requests' = Append(requests, r)
    BY <1>2 DEF Send
  <2>2. [number |-> calls + 1, op |-> op] \in Request
    BY <1>2 DEF Send, Request, Number
  <2>3. requests' \in Seq(Request)
    BY <2>1, <2>2
  <2>4. current' \in [Thread -> Request \cup {NoRequest}]
    BY <2>1, <2>2
  <2> QED
    BY <1>2, <2>3, <2>4 DEF Send
<1>3. ASSUME NEW c \in Thread, TakeAnswer(c) PROVE TypeOK'
  <2>1. Taken \in Answer
    BY <1>3 DEF TakeAnswer, Taken, Last
  <2>2. Taken.number \in 0 .. MaxCalls /\ Taken.status \in Verdict
    BY <2>1 DEF Answer, Number
  <2>3. <<>> \in Seq(Answer)
    OBVIOUS
  <2> QED
    BY <1>3, <2>2, <2>3 DEF TakeAnswer, EndCall
<1>4. ASSUME NEW c \in Thread, Timeout(c) PROVE TypeOK'
  <2>1. abandoned' \in BOOLEAN
    BY <1>4 DEF Timeout, GiveUp
  <2> QED
    BY <1>4, <2>1 DEF Timeout, EndCall
<1>5. CASE ClientRestarts
  <2>1. abandoned' \in BOOLEAN
    BY <1>5 DEF ClientRestarts, GiveUp
  <2> QED
    BY <1>5, <2>1 DEF ClientRestarts
<1>6. CASE SyncdStarts
  BY <1>6 DEF SyncdStarts
<1>7. CASE Pop
  <2>1. CASE buffer # <<>>
    BY <1>7, <2>1 DEF Pop
  <2>2. CASE buffer = <<>>
    <3>1. PICK k \in 1 .. Len(requests) :
            buffer' = SubSeq(requests, 1, k) /\ requests' = SubSeq(requests, k + 1, Len(requests))
      BY <1>7, <2>2 DEF Pop, Batch, Fetch
    <3>2. buffer' \in Seq(Request) /\ Len(buffer') = k /\ requests' \in Seq(Request)
      BY <3>1, SubSeqProperties
    <3>3. buffer' # <<>>
      BY <3>2
    <3> QED
      BY <1>7, <3>2, <3>3 DEF Pop
  <2> QED
    BY <2>1, <2>2
<1>8. CASE Execute
  <2>1. Head(buffer).number \in Number
    <3>1. Head(buffer) \in Request
      BY <1>8 DEF Execute
    <3> QED
      BY <3>1 DEF Request
  <2>2. effects' \in Seq(Number \X Verdict)
    BY <1>8, <2>1 DEF Execute
  <2> QED
    BY <1>8, <2>2 DEF Execute
<1>9. CASE SendResponse
  <2>1. Head(buffer).number \in Number /\ Tail(buffer) \in Seq(Request)
    <3>1. Head(buffer) \in Request /\ Tail(buffer) \in Seq(Request)
      BY <1>9 DEF SendResponse
    <3> QED
      BY <3>1 DEF Request
  <2>2. [number |-> Head(buffer).number, status |-> verdict,
         values |-> Head(buffer).op = "get" /\ verdict = "SUCCESS"] \in Answer
    BY <2>1 DEF Answer
  <2>3. answers' \in Seq(Answer)
    BY <1>9, <2>2 DEF SendResponse
  <2> QED
    BY <1>9, <2>1, <2>3 DEF SendResponse
<1>10. CASE UnknownOpThrows \/ SyncdEnds
  <2>1. <<>> \in Seq(Request)
    OBVIOUS
  <2> QED
    BY <1>10, <2>1 DEF UnknownOpThrows, SyncdEnds, Exit
<1>11. CASE Drain
  <2>1. requests' \in Seq(Request)
    BY <1>11, SubSeqProperties DEF Drain
  <2> QED
    BY <1>11, <2>1 DEF Drain
<1> QED
  BY <1>1, <1>2, <1>3, <1>4, <1>5, <1>6, <1>7, <1>8, <1>9, <1>10, <1>11 DEF Next, ServerStep

LEMMA CallInvIsInductive == TypeOK /\ CallInv /\ [Next]_vars => CallInv'
<1> SUFFICES ASSUME TypeOK, CallInv, [Next]_vars PROVE CallInv'
  OBVIOUS
<1> USE MaxCallsAssumption, ThreadAssumption DEF TypeOK, CallInv, client, server
<1>1. CASE UNCHANGED client
  BY <1>1
<1>2. ASSUME NEW c \in Thread, Send(c) PROVE CallInv'
  <2>1. PICK r \in Request : current' = [current EXCEPT ![c] = r] /\ r.number = calls + 1
    <3>1. PICK op \in Op :
            current' = [current EXCEPT ![c] = [number |-> calls + 1, op |-> op]]
      BY <1>2 DEF Send
    <3>2. [number |-> calls + 1, op |-> op] \in Request
      BY <1>2 DEF Send, Request, Number
    <3> QED
      BY <3>1, <3>2
  <2>2. r # NoRequest
    BY <2>1 DEF NoRequest
  <2> QED
    BY <1>2, <2>1, <2>2 DEF Send, MayLock
<1>3. ASSUME NEW c \in Thread, TakeAnswer(c) \/ Timeout(c) PROVE CallInv'
  <2>1. /\ current[c] # NoRequest /\ mutex' = Nobody /\ calls' = calls
        /\ current' = [current EXCEPT ![c] = NoRequest]
    BY <1>3 DEF TakeAnswer, Timeout, EndCall
  <2>2. \A d \in Thread : current'[d] = NoRequest
    BY <2>1
  <2> QED
    BY <2>1, <2>2
<1>4. CASE ClientRestarts
  BY <1>4 DEF ClientRestarts, NoRequest
<1> QED
  BY <1>1, <1>2, <1>3, <1>4 DEF Next, ServerStep, vars, SyncdStarts, Pop, Execute,
     SendResponse, UnknownOpThrows, SyncdEnds, Exit, Drain

LEMMA OrderInvIsInductive == TypeOK /\ OrderInv /\ [Next]_vars => OrderInv'
<1> SUFFICES ASSUME TypeOK, OrderInv, [Next]_vars PROVE OrderInv'
  OBVIOUS
<1>0. /\ calls \in Nat
      /\ \A i \in 1 .. Len(buffer) : buffer[i] \in Request /\ buffer[i].number \in Nat
      /\ \A i \in 1 .. Len(requests) : requests[i] \in Request /\ requests[i].number \in Nat
      /\ \A e \in 1 .. Len(effects) : effects[e][1] \in Nat
  <2> USE MaxCallsAssumption DEF TypeOK
  <2>1. \A i \in 1 .. Len(buffer) : buffer[i] \in Request
    OBVIOUS
  <2>2. \A i \in 1 .. Len(requests) : requests[i] \in Request
    OBVIOUS
  <2>3. \A e \in 1 .. Len(effects) : effects[e] \in Number \X Verdict
    OBVIOUS
  <2>4. \A r \in Request : r.number \in Nat
    BY DEF Request, Number
  <2>5. \A x \in Number \X Verdict : x[1] \in Nat
    BY DEF Number
  <2> QED
    BY <2>1, <2>2, <2>3, <2>4, <2>5
<1>a. Len(buffer) \in Nat /\ Len(requests) \in Nat /\ Len(effects) \in Nat
      /\ DOMAIN effects = 1 .. Len(effects)
  BY DEF TypeOK
<1> USE DEF OrderInv, Increasing, AtMostOnceInOrder, Bounded, BufferFirst,
    EffectsFirst, EffectsBehind
<1>1. CASE UNCHANGED <<calls, requests, buffer, effects, syncd>>
  BY <1>1
<1>2. ASSUME NEW c \in Thread, Send(c) PROVE OrderInv'
  <2>1. PICK r : /\ r.number = calls + 1
                 /\ requests' = Append(requests, r) /\ calls' = calls + 1
    BY <1>2 DEF Send
  <2>2. /\ Len(requests') = Len(requests) + 1
        /\ \A i \in 1 .. Len(requests) : requests'[i] = requests[i]
        /\ requests'[Len(requests) + 1].number = calls + 1
    BY <2>1 DEF TypeOK
  <2>3. UNCHANGED <<buffer, effects, syncd>>
    BY <1>2 DEF Send, server
  <2> QED
    BY <1>0, <1>a, <2>1, <2>2, <2>3
<1>3. CASE Pop
  <2>1. CASE buffer # <<>>
    BY <1>3, <2>1 DEF Pop, client
  <2>2. CASE buffer = <<>>
    <3>1. PICK k \in 1 .. Len(requests) :
            buffer' = SubSeq(requests, 1, k) /\ requests' = SubSeq(requests, k + 1, Len(requests))
      BY <1>3, <2>2 DEF Pop, Batch, Fetch
    <3>2. Len(buffer') = k /\ \A i \in 1 .. k : buffer'[i] = requests[i] /\ i \in 1 .. Len(requests)
      BY <3>1, SubSeqProperties DEF TypeOK
    <3>3. /\ Len(requests') = Len(requests) - k
          /\ \A i \in 1 .. Len(requests) - k :
               requests'[i] = requests[k + i] /\ k + i \in 1 .. Len(requests)
      BY <3>1, SubSeqProperties DEF TypeOK
    <3>4. UNCHANGED <<calls, effects>>
      BY <1>3 DEF Pop, client
    <3>5. AtMostOnceInOrder'
      BY <1>0, <1>a, <2>2, <3>2, <3>3, <3>4
    <3>6. Increasing(buffer)' /\ Increasing(requests)'
      <4> HIDE DEF Increasing
      <4>0. Increasing(requests) /\ Len(buffer') \in Nat /\ Len(requests') \in Nat
            /\ 0 \in Nat /\ k \in Nat
        BY <1>a, <3>2, <3>3
      <4>1. Increasing(buffer')
        <5>1. \A i \in 1 .. Len(buffer') :
                buffer'[i] = requests[0 + i] /\ 0 + i \in 1 .. Len(requests)
          BY <3>2
        <5> QED
          BY ONLY <1>a, <4>0, <5>1, PartIncreases
      <4>2. Increasing(requests')
        <5>1. \A i \in 1 .. Len(requests') :
                requests'[i] = requests[k + i] /\ k + i \in 1 .. Len(requests)
          BY <3>3
        <5> QED
          BY ONLY <1>a, <4>0, <5>1, PartIncreases
      <4> QED
        BY <4>1, <4>2 DEF Increasing
    <3>7. Bounded'
      BY <1>0, <1>a, <2>2, <3>2, <3>3, <3>4
    <3>8. BufferFirst'
      BY <1>0, <1>a, <2>2, <3>2, <3>3, <3>4
    <3>9. EffectsFirst'
      BY <1>0, <1>a, <2>2, <3>2, <3>3, <3>4
    <3>10. EffectsBehind'
      BY <1>0, <1>a, <2>2, <3>2, <3>3, <3>4
    <3> QED
      BY <3>5, <3>6, <3>7, <3>8, <3>9, <3>10
  <2> QED
    BY <2>1, <2>2
<1>4. CASE Execute
  <2>1. buffer # <<>> /\ Head(buffer) = buffer[1] /\ syncd = "popped" /\ syncd' = "executed"
    BY <1>4 DEF Execute, TypeOK
  <2>2. /\ Len(effects') = Len(effects) + 1
        /\ \A e \in 1 .. Len(effects) : effects'[e] = effects[e]
        /\ effects'[Len(effects) + 1][1] = buffer[1].number
    BY <1>4, <2>1 DEF Execute, TypeOK
  <2>3. UNCHANGED <<calls, buffer, requests>>
    BY <1>4 DEF Execute, client
  <2>4. 1 \in 1 .. Len(buffer)
    BY <2>1 DEF TypeOK
  <2>5. AtMostOnceInOrder'
    BY <1>0, <1>a, <2>1, <2>2, <2>3, <2>4
  <2>6. Increasing(buffer)' /\ Increasing(requests)'
    BY <1>0, <1>a, <2>1, <2>2, <2>3, <2>4
  <2>7. Bounded'
    BY <1>0, <1>a, <2>1, <2>2, <2>3, <2>4
  <2>8. BufferFirst'
    BY <1>0, <1>a, <2>1, <2>2, <2>3, <2>4
  <2>9. EffectsFirst'
    <3>1. \A j \in 1 .. Len(requests) : buffer[1].number < requests[j].number
      BY <1>0, <2>4
    <3>2. \A e \in 1 .. Len(effects), j \in 1 .. Len(requests) : effects[e][1] < requests[j].number
      BY <1>0
    <3>3. \A e \in 1 .. Len(effects'), j \in 1 .. Len(requests) : effects'[e][1] < requests[j].number
      BY ONLY <1>a, <2>2, <3>1, <3>2
    <3> QED
      BY <2>3, <3>3
  <2>10. EffectsBehind'
    <3>1. \A e \in 1 .. Len(effects), i \in 1 .. Len(buffer) : effects[e][1] < buffer[i].number
      BY <2>1
    <3>2. \A i \in 1 .. Len(buffer) : buffer[1].number <= buffer[i].number
      BY <1>0, <1>a, <2>4
    <3>3. \A e \in 1 .. Len(effects'), i \in 1 .. Len(buffer) : effects'[e][1] <= buffer[i].number
      BY ONLY <1>0, <1>a, <2>2, <3>1, <3>2
    <3> QED
      BY <2>1, <2>3, <3>3
  <2> QED
    BY <2>5, <2>6, <2>7, <2>8, <2>9, <2>10
<1>5. CASE SendResponse
  <2>1. /\ Len(buffer') = Len(buffer) - 1
        /\ \A i \in 1 .. Len(buffer) - 1 :
             buffer'[i] = buffer[i + 1] /\ i + 1 \in 1 .. Len(buffer)
    BY <1>5 DEF SendResponse, TypeOK
  <2>2. UNCHANGED <<calls, effects, requests>> /\ syncd' = "idle" /\ 1 \in 1 .. Len(buffer)
    BY <1>5 DEF SendResponse, client, TypeOK
  <2>3. AtMostOnceInOrder'
    BY <1>0, <1>a, <2>1, <2>2
  <2>4. Increasing(buffer)' /\ Increasing(requests)'
    <3> HIDE DEF Increasing
    <3>1. \A i \in 1 .. Len(buffer') : buffer'[i] = buffer[1 + i] /\ 1 + i \in 1 .. Len(buffer)
      BY <1>a, <2>1
    <3>0. Increasing(buffer) /\ Len(buffer') \in Nat /\ 1 \in Nat
      BY <1>a, <2>1, <2>2
    <3>2. Increasing(buffer')
      BY ONLY <1>a, <3>0, <3>1, PartIncreases
    <3> QED
      BY <2>2, <3>2 DEF Increasing
  <2>5. Bounded'
    BY <1>0, <1>a, <2>1, <2>2
  <2>6. BufferFirst'
    BY <1>0, <1>a, <2>1, <2>2
  <2>7. EffectsFirst'
    BY <1>0, <1>a, <2>1, <2>2
  <2>8. EffectsBehind'
    <3>1. \A e \in 1 .. Len(effects) : effects[e][1] <= buffer[1].number
      BY <1>0, <1>a, <2>2
    <3>2. \A i \in 1 .. Len(buffer) - 1 : buffer[1].number < buffer[i + 1].number
      BY <1>0, <1>a, <2>2
    <3>3. \A e \in 1 .. Len(effects), i \in 1 .. Len(buffer) - 1 :
            effects[e][1] < buffer[i + 1].number
      <4>1. \A x, y, z \in Nat : x <= y /\ y < z => x < z
        OBVIOUS
      <4>2. /\ \A e \in 1 .. Len(effects) : effects[e][1] \in Nat
            /\ \A i \in 1 .. Len(buffer) : buffer[i].number \in Nat
        BY <1>0, <1>a
      <4> QED
        BY ONLY <2>1, <2>2, <3>1, <3>2, <4>1, <4>2
    <3> QED
      BY <1>a, <2>1, <2>2, <3>3
  <2> QED
    BY <2>3, <2>4, <2>5, <2>6, <2>7, <2>8
<1>6. CASE UnknownOpThrows \/ SyncdEnds
  <2>1. buffer' = <<>> /\ UNCHANGED <<calls, effects, requests>>
    BY <1>6 DEF UnknownOpThrows, SyncdEnds, Exit, client
  <2> QED
    BY <2>1
<1>7. CASE Drain
  <2>1. PICK k \in 1 .. Len(requests) : requests' = SubSeq(requests, k + 1, Len(requests))
    BY <1>7 DEF Drain
  <2>2. /\ Len(requests') = Len(requests) - k
        /\ \A i \in 1 .. Len(requests) - k :
             requests'[i] = requests[k + i] /\ k + i \in 1 .. Len(requests)
    BY <2>1, SubSeqProperties DEF TypeOK
  <2>3. UNCHANGED <<calls, effects, buffer, syncd>>
    BY <1>7 DEF Drain, client, server
  <2>4. AtMostOnceInOrder'
    BY <1>0, <1>a, <2>2, <2>3
  <2>5. Increasing(buffer)' /\ Increasing(requests)'
    <3> HIDE DEF Increasing
    <3>0. Increasing(requests) /\ Len(requests') \in Nat /\ k \in Nat
      BY <1>a, <2>2
    <3>1. \A i \in 1 .. Len(requests') :
            requests'[i] = requests[k + i] /\ k + i \in 1 .. Len(requests)
      BY <2>2
    <3>2. Increasing(requests')
      BY ONLY <1>a, <3>0, <3>1, PartIncreases
    <3> QED
      BY <2>3, <3>2 DEF Increasing
  <2>6. Bounded'
    BY <1>0, <1>a, <2>2, <2>3
  <2>7. BufferFirst'
    BY <1>0, <1>a, <2>2, <2>3
  <2>8. EffectsFirst'
    BY <1>0, <1>a, <2>2, <2>3
  <2>9. EffectsBehind'
    BY <1>0, <1>a, <2>2, <2>3
  <2> QED
    BY <2>4, <2>5, <2>6, <2>7, <2>8, <2>9
<1>8. CASE SyncdStarts
  BY <1>0, <1>8 DEF SyncdStarts, client
<1> QED
  BY <1>1, <1>2, <1>3, <1>4, <1>5, <1>6, <1>7, <1>8 DEF Next, ServerStep, vars, client, server,
     TakeAnswer, Timeout, EndCall, ClientRestarts

LEMMA AnswerInvIsInductive == ChannelInv /\ [Next]_vars => AnswerInv'
<1> SUFFICES ASSUME ChannelInv, [Next]_vars PROVE AnswerInv'
  OBVIOUS
<1>0. /\ calls \in Nat
      /\ \A i \in 1 .. Len(buffer) : buffer[i].number \in Nat
      /\ \A i \in 1 .. Len(requests) : requests[i].number \in Nat
      /\ \A i \in 1 .. Len(answers) : answers[i].number \in Nat
  <2> USE MaxCallsAssumption DEF ChannelInv, TypeOK
  <2>1. \A i \in 1 .. Len(buffer) : buffer[i] \in Request
    OBVIOUS
  <2>2. \A i \in 1 .. Len(requests) : requests[i] \in Request
    OBVIOUS
  <2>3. \A i \in 1 .. Len(answers) : answers[i] \in Answer
    OBVIOUS
  <2>4. \A r \in Request \cup Answer : r.number \in Nat
    BY DEF Request, Answer, Number
  <2> QED
    BY <2>1, <2>2, <2>3, <2>4
<1>a. Len(buffer) \in Nat /\ Len(requests) \in Nat /\ Len(answers) \in Nat
  BY DEF ChannelInv, TypeOK
<1> USE DEF ChannelInv, AnswerInv, OrderInv, Bounded, BufferFirst
<1>1. CASE UNCHANGED <<calls, requests, buffer, answers>>
  BY <1>1 DEF Increasing
<1>2. ASSUME NEW c \in Thread, Send(c) PROVE AnswerInv'
  <2>1. PICK r : /\ r.number = calls + 1
                 /\ requests' = Append(requests, r) /\ calls' = calls + 1
    BY <1>2 DEF Send
  <2>2. /\ Len(requests') = Len(requests) + 1
        /\ \A i \in 1 .. Len(requests) : requests'[i] = requests[i]
        /\ requests'[Len(requests) + 1].number = calls + 1
    BY <2>1 DEF TypeOK
  <2>3. UNCHANGED <<buffer, answers>>
    BY <1>2 DEF Send, server
  <2> QED
    BY <1>0, <1>a, <2>1, <2>2, <2>3 DEF Increasing
<1>3. CASE Pop
  <2>1. CASE buffer # <<>>
    BY <1>3, <2>1 DEF Pop, client, Increasing
  <2>2. CASE buffer = <<>>
    <3>1. PICK k \in 1 .. Len(requests) :
            buffer' = SubSeq(requests, 1, k) /\ requests' = SubSeq(requests, k + 1, Len(requests))
      BY <1>3, <2>2 DEF Pop, Batch, Fetch
    <3>2. Len(buffer') = k /\ \A i \in 1 .. k : buffer'[i] = requests[i] /\ i \in 1 .. Len(requests)
      BY <3>1, SubSeqProperties DEF TypeOK
    <3>3. /\ Len(requests') = Len(requests) - k
          /\ \A i \in 1 .. Len(requests) - k :
               requests'[i] = requests[k + i] /\ k + i \in 1 .. Len(requests)
      BY <3>1, SubSeqProperties DEF TypeOK
    <3>4. UNCHANGED <<calls, answers>>
      BY <1>3 DEF Pop, client
    <3> QED
      BY <1>0, <1>a, <3>2, <3>3, <3>4 DEF Increasing
  <2> QED
    BY <2>1, <2>2
<1>4. CASE SendResponse
  <2>1. /\ Len(buffer') = Len(buffer) - 1 /\ 1 \in 1 .. Len(buffer)
        /\ \A i \in 1 .. Len(buffer) - 1 :
             buffer'[i] = buffer[i + 1] /\ i + 1 \in 1 .. Len(buffer)
    BY <1>4 DEF SendResponse, TypeOK
  <2>2. /\ Len(answers') = Len(answers) + 1
        /\ \A i \in 1 .. Len(answers) : answers'[i] = answers[i]
        /\ answers'[Len(answers) + 1].number = buffer[1].number
    <3>1. buffer # <<>> /\ Head(buffer) = buffer[1]
      BY <1>4 DEF SendResponse, TypeOK
    <3> QED
      BY <1>4, <3>1 DEF SendResponse, TypeOK
  <2>3. UNCHANGED <<calls, requests>>
    BY <1>4 DEF SendResponse, client
  <2>4. \A i \in 1 .. Len(buffer) - 1 : buffer[1].number < buffer[i + 1].number
    BY <1>0, <1>a, <2>1 DEF Increasing
  <2>5. \A i \in 1 .. Len(answers') : answers'[i].number \in Nat /\ answers'[i].number <= buffer[1].number
    BY <1>0, <1>a, <2>1, <2>2
  <2>6. Increasing(answers)'
    <3>1. /\ \A i, j \in 1 .. Len(answers) : i < j => answers[i].number < answers[j].number
          /\ \A i \in 1 .. Len(answers) : answers[i].number < buffer[1].number
      BY <1>0, <2>1 DEF Increasing
    <3>2. \A i, j \in 1 .. Len(answers') : i < j => answers'[i].number < answers'[j].number
      <4>1. ASSUME NEW i \in 1 .. Len(answers'), NEW j \in 1 .. Len(answers'), i < j
            PROVE  answers'[i].number < answers'[j].number
        <5>1. i \in 1 .. Len(answers) /\ answers'[i] = answers[i]
          BY ONLY <1>a, <2>2, <4>1
        <5>2. CASE j \in 1 .. Len(answers)
          BY ONLY <2>2, <3>1, <4>1, <5>1, <5>2
        <5>3. CASE j = Len(answers) + 1
          BY ONLY <2>2, <3>1, <5>1, <5>3
        <5> QED
          BY ONLY <1>a, <2>2, <5>2, <5>3
      <4> QED
        BY <4>1
    <3> QED
      BY <3>2 DEF Increasing
  <2>a. buffer[1].number \in Nat /\ buffer[1].number <= calls
        /\ \A j \in 1 .. Len(requests) : buffer[1].number < requests[j].number
    BY <1>0, <1>a, <2>1
  <2>b. \A i \in 1 .. Len(buffer) - 1 : buffer[i + 1].number \in Nat
    BY <1>0, <1>a, <2>1
  <2>7. \A i \in 1 .. Len(answers'), j \in 1 .. Len(buffer') : answers'[i].number < buffer'[j].number
    <3> TAKE i \in 1 .. Len(answers'), j \in 1 .. Len(buffer')
    <3>1. j \in 1 .. Len(buffer) - 1 /\ buffer'[j] = buffer[j + 1]
      BY <2>1
    <3>2. buffer[1].number < buffer[j + 1].number /\ buffer[j + 1].number \in Nat
      BY ONLY <3>1, <2>4, <2>b
    <3>3. answers'[i].number \in Nat /\ answers'[i].number <= buffer[1].number
      BY ONLY <2>5
    <3> QED
      BY ONLY <3>1, <3>2, <3>3, <2>a
  <2>8. \A i \in 1 .. Len(answers'), j \in 1 .. Len(requests') : answers'[i].number < requests'[j].number
    BY ONLY <1>0, <2>3, <2>5, <2>a
  <2>9. \A i \in 1 .. Len(answers') : answers'[i].number <= calls'
    BY ONLY <1>0, <2>3, <2>5, <2>a
  <2> QED
    BY <2>6, <2>7, <2>8, <2>9
<1>5. CASE UnknownOpThrows \/ SyncdEnds
  <2>1. buffer' = <<>> /\ UNCHANGED <<calls, answers, requests>>
    BY <1>5 DEF UnknownOpThrows, SyncdEnds, Exit, client
  <2> QED
    BY <2>1 DEF Increasing
<1>6. CASE Drain
  <2>1. PICK k \in 1 .. Len(requests) : requests' = SubSeq(requests, k + 1, Len(requests))
    BY <1>6 DEF Drain
  <2>2. /\ Len(requests') = Len(requests) - k
        /\ \A i \in 1 .. Len(requests) - k :
             requests'[i] = requests[k + i] /\ k + i \in 1 .. Len(requests)
    BY <2>1, SubSeqProperties DEF TypeOK
  <2>3. UNCHANGED <<calls, answers, buffer>>
    BY <1>6 DEF Drain, client, server
  <2> QED
    BY <1>0, <1>a, <2>2, <2>3 DEF Increasing
<1>7. ASSUME NEW c \in Thread, TakeAnswer(c) PROVE AnswerInv'
  <2>1. answers' = <<>>
    BY <1>7 DEF TakeAnswer
  <2> QED
    BY <2>1 DEF Increasing
<1> QED
  BY <1>1, <1>2, <1>3, <1>4, <1>5, <1>6, <1>7 DEF Next, ServerStep, vars, client, server,
     Timeout, EndCall, ClientRestarts, SyncdStarts, Execute

LEMMA ExecutedInvIsInductive == ChannelInv /\ [Next]_vars => ExecutedInv'
<1> SUFFICES ASSUME ChannelInv, [Next]_vars PROVE ExecutedInv'
  OBVIOUS
<1> USE DEF ChannelInv, ExecutedInv, HasEffect
<1>1. CASE UNCHANGED <<syncd, buffer, verdict, effects>>
  BY <1>1
<1>2. CASE Execute
  <2>1. effects' = Append(effects, <<Head(buffer).number, verdict'>>)
    BY <1>2 DEF Execute
  <2>2. Len(effects') = Len(effects) + 1
        /\ effects'[Len(effects) + 1] = <<Head(buffer).number, verdict'>>
        /\ Len(effects) \in Nat
    BY <2>1 DEF TypeOK
  <2> QED
    BY <1>2, <2>2 DEF Execute
<1> QED
  BY <1>1, <1>2 DEF Next, ServerStep, vars, client, server, Send, TakeAnswer, Timeout, EndCall,
     ClientRestarts, SyncdStarts, Pop, SendResponse, UnknownOpThrows, SyncdEnds, Exit, Drain

LEMMA ChannelInvIsInvariant == Spec => []ChannelInv
<1>1. Init => ChannelInv
  <2> SUFFICES ASSUME Init PROVE ChannelInv
    OBVIOUS
  <2>1. TypeOK
    <3>1. <<>> \in Seq(Request) /\ <<>> \in Seq(Answer) /\ <<>> \in Seq(Number \X Verdict)
      OBVIOUS
    <3>2. calls \in 0 .. MaxCalls /\ answerOf \in [Thread -> 0 .. MaxCalls]
      BY MaxCallsAssumption DEF Init
    <3> QED
      BY <3>1, <3>2 DEF Init, TypeOK, Verdict
  <2>2. CallInv
    BY ThreadAssumption DEF Init, CallInv, NoRequest
  <2>3. OrderInv
    BY DEF Init, OrderInv, Increasing, AtMostOnceInOrder, Bounded, BufferFirst,
       EffectsFirst, EffectsBehind
  <2>4. AnswerInv /\ ExecutedInv
    BY DEF Init, AnswerInv, ExecutedInv, Increasing
  <2> QED
    BY <2>1, <2>2, <2>3, <2>4 DEF ChannelInv
<1>2. ChannelInv /\ [Next]_vars => ChannelInv'
  BY TypeOKIsInductive, CallInvIsInductive, OrderInvIsInductive, AnswerInvIsInductive,
     ExecutedInvIsInductive
  DEF ChannelInv
<1> QED
  BY <1>1, <1>2, PTL DEF Spec

(* Until a call is given up while its answer is under way, all that is in  *)
(* redis and in syncd belongs to the call that holds the mutex.            *)
Own(r) == mutex # Nobody /\ r = current[mutex]

OwnAnswer(a) ==
  /\ mutex # Nobody
  /\ a.number = current[mutex].number /\ current[mutex].op # "stats"
  /\ a.values = (current[mutex].op = "get" /\ a.status = "SUCCESS")
  /\ HasEffect(a.number, a.status)

AllOwn ==
  /\ \A i \in 1 .. Len(requests) : Own(requests[i])
  /\ \A i \in 1 .. Len(buffer) : Own(buffer[i])
  /\ \A i \in 1 .. Len(answers) : OwnAnswer(answers[i])

PromiseInv == ~abandoned => AllOwn

(* ApiChannel's state is well-typed for every set of threads.              *)
THEOREM TypeCorrect == Spec => []TypeOK
BY ChannelInvIsInvariant, PTL DEF ChannelInv

(* Whatever is lost, late, thrown away or restarted, syncd executes no     *)
(* request twice and none before an earlier one.                           *)
THEOREM AtMostOnceInOrderAlways == Spec => []AtMostOnceInOrder
BY ChannelInvIsInvariant, PTL DEF ChannelInv, OrderInv

(* A call whose own answer has arrived takes that one: answers come in the *)
(* order of the calls, the own one is the last, and the client takes it    *)
(* from the back of the list.                                              *)
THEOREM OwnAnswerPreferredAlways == Spec => OwnAnswerPreferred
<1> DEFINE Preferred(c) ==
      current[c] # NoRequest /\ answerOf'[c] # answerOf[c]
        /\ (\E i \in DOMAIN answers : answers[i].number = current[c].number)
        => answerOf'[c] = current[c].number
<1>1. ASSUME ChannelInv, [Next]_vars, NEW c \in Thread PROVE Preferred(c)
  <2> USE <1>1 DEF ChannelInv
  <2>0. current[c] # NoRequest => mutex = c /\ current[c].number = calls /\ answerOf[c] = 0
    BY DEF CallInv
  <2>1. CASE UNCHANGED answerOf
    BY <2>1
  <2>2. ASSUME NEW d \in Thread, Send(d) PROVE Preferred(c)
    BY <2>0, <2>2, ThreadAssumption DEF Send, MayLock
  <2>3. ASSUME NEW d \in Thread, TakeAnswer(d) PROVE Preferred(c)
    <3> SUFFICES ASSUME current[c] # NoRequest,
                        NEW i \in DOMAIN answers, answers[i].number = current[c].number
                 PROVE  answerOf'[c] = current[c].number
      OBVIOUS
    <3>1. d = c
      BY <2>0, <2>3 DEF CallInv, TakeAnswer
    <3>2. answers # <<>> /\ answerOf'[c] = Last(answers).number
      BY <2>3, <3>1 DEF TakeAnswer, Taken, TypeOK
    <3>3. Len(answers) \in Nat /\ DOMAIN answers = 1 .. Len(answers)
      BY DEF TypeOK
    <3>4. Last(answers) = answers[Len(answers)] /\ Len(answers) \in 1 .. Len(answers)
      BY <3>2, <3>3 DEF Last, TypeOK
    <3>5. answers[Len(answers)].number <= calls /\ answers[Len(answers)].number \in Nat
      <4>1. \A j \in 1 .. Len(answers) : answers[j] \in Answer
        BY DEF TypeOK
      <4> QED
        BY <3>4, <4>1 DEF AnswerInv, Answer, Number
    <3>6. i = Len(answers) \/ answers[i].number < answers[Len(answers)].number
      BY <3>3, <3>4 DEF AnswerInv, Increasing
    <3>7. calls \in Nat
      BY MaxCallsAssumption DEF TypeOK
    <3> QED
      BY <2>0, <3>2, <3>4, <3>5, <3>6, <3>7
  <2>4. CASE ClientRestarts
    BY <2>0, <2>4 DEF ClientRestarts
  <2> QED
    BY <1>1, <2>1, <2>2, <2>3, <2>4 DEF Next, ServerStep, vars, client, SyncdStarts, Pop, Execute,
       SendResponse, UnknownOpThrows, SyncdEnds, Exit, Drain, Timeout
<1>2. ChannelInv /\ [Next]_vars => [\A c \in Thread : Preferred(c)]_vars
  BY <1>1
<1> QED
  BY <1>2, ChannelInvIsInvariant, PTL DEF Spec, OwnAnswerPreferred

LEMMA PromiseInvIsInductive == ChannelInv /\ PromiseInv /\ [Next]_vars => PromiseInv'
<1> SUFFICES ASSUME ChannelInv, PromiseInv, [Next]_vars, ~abandoned' PROVE AllOwn'
  BY DEF PromiseInv
<1>0. /\ Len(buffer) \in Nat /\ Len(requests) \in Nat /\ Len(answers) \in Nat
      /\ Len(effects) \in Nat
      /\ DOMAIN buffer = 1 .. Len(buffer) /\ DOMAIN requests = 1 .. Len(requests)
      /\ DOMAIN answers = 1 .. Len(answers)
  BY DEF ChannelInv, TypeOK
<1>a. ~abandoned /\ AllOwn
  <2>1. ~abandoned
    BY DEF Next, ServerStep, vars, client, server, Send, TakeAnswer, Timeout, GiveUp,
       ClientRestarts, SyncdStarts, Pop, Execute, SendResponse, UnknownOpThrows, SyncdEnds, Exit, Drain
  <2> QED
    BY <2>1 DEF PromiseInv
<1>b. \A n, status : HasEffect(n, status) => HasEffect(n, status)'
  <2>1. CASE UNCHANGED effects
    BY <2>1 DEF HasEffect
  <2>2. CASE Execute
    <3>1. Len(effects') = Len(effects) + 1
          /\ \A e \in 1 .. Len(effects) : effects'[e] = effects[e]
      BY <2>2 DEF Execute, ChannelInv, TypeOK
    <3> QED
      BY <1>0, <3>1 DEF HasEffect
  <2> QED
    BY <2>1, <2>2 DEF Next, ServerStep, vars, client, server, Send, TakeAnswer, Timeout, EndCall,
       ClientRestarts, SyncdStarts, Pop, SendResponse, UnknownOpThrows, SyncdEnds, Exit, Drain
<1>1. CASE UNCHANGED <<mutex, current, requests, buffer, answers>>
  BY <1>1, <1>a, <1>b DEF AllOwn, Own, OwnAnswer
<1>2. ASSUME NEW c \in Thread, Send(c) PROVE AllOwn'
  <2>1. mutex = Nobody /\ mutex' = c /\ mutex' # Nobody
    BY <1>2, ThreadAssumption DEF Send, MayLock
  <2>2. Len(requests) = 0 /\ Len(buffer) = 0 /\ Len(answers) = 0
    BY <1>0, <1>a, <2>1 DEF AllOwn, Own, OwnAnswer
  <2>3. PICK r : current' = [current EXCEPT ![c] = r] /\ requests' = Append(requests, r)
    BY <1>2 DEF Send
  <2>4. current'[mutex'] = r
    BY <2>1, <2>3 DEF ChannelInv, TypeOK
  <2>5. Len(requests') = 1 /\ requests'[1] = r
    BY <2>2, <2>3 DEF ChannelInv, TypeOK
  <2>6. UNCHANGED <<buffer, answers>>
    BY <1>2 DEF Send, server
  <2> QED
    BY <2>1, <2>2, <2>4, <2>5, <2>6 DEF AllOwn, Own
<1>3. ASSUME NEW c \in Thread, TakeAnswer(c) PROVE AllOwn'
  <2>1. answers # <<>> /\ answers' = <<>> /\ UNCHANGED <<requests, buffer>>
    BY <1>3 DEF TakeAnswer, EndCall, server
  <2>2. 1 \in 1 .. Len(answers)
    BY <2>1 DEF ChannelInv, TypeOK
  <2>3. answers[1].number = current[mutex].number /\ answers[1].number \in Nat
    <3>1. answers[1] \in Answer
      BY <2>2 DEF ChannelInv, TypeOK
    <3> QED
      BY <1>a, <2>2, <3>1 DEF AllOwn, OwnAnswer, Answer, Number
  <2>4. 1 .. Len(requests) = {} /\ 1 .. Len(buffer) = {}
    BY <1>a, <2>2, <2>3 DEF AllOwn, Own, ChannelInv, AnswerInv
  <2> QED
    BY <2>1, <2>4 DEF AllOwn
<1>4. ASSUME NEW c \in Thread, Timeout(c) PROVE AllOwn'
  <2>1. mutex = c /\ answers = <<>> /\ UNCHANGED <<requests, buffer, answers>>
    BY <1>4 DEF Timeout, EndCall, server, ChannelInv, CallInv
  <2>2. ~UnderWay(current[mutex])
    BY <1>4, <2>1 DEF Timeout, GiveUp
  <2>3. 1 .. Len(requests) = {} /\ 1 .. Len(buffer) = {}
    BY <1>0, <1>a, <2>2 DEF UnderWay, AllOwn, Own
  <2> QED
    BY <2>1, <2>3 DEF AllOwn
<1>5. CASE ClientRestarts
  <2>1. UNCHANGED <<requests, buffer, answers>> /\ ~UnderWay(current[mutex])
    BY <1>5 DEF ClientRestarts, GiveUp, server
  <2>2. 1 .. Len(requests) = {} /\ 1 .. Len(buffer) = {} /\ 1 .. Len(answers) = {}
    BY <1>0, <1>a, <2>1 DEF UnderWay, AllOwn, Own, OwnAnswer
  <2> QED
    BY <2>1, <2>2 DEF AllOwn
<1>6. CASE Pop
  <2>1. UNCHANGED <<mutex, current, answers>>
    BY <1>6 DEF Pop, client
  <2>2. CASE buffer # <<>>
    BY <1>1, <1>6, <2>1, <2>2 DEF Pop
  <2>3. CASE buffer = <<>>
    <3>1. PICK k \in 1 .. Len(requests) :
            buffer' = SubSeq(requests, 1, k) /\ requests' = SubSeq(requests, k + 1, Len(requests))
      BY <1>6, <2>3 DEF Pop, Batch, Fetch
    <3>2. Len(buffer') = k /\ \A i \in 1 .. k : buffer'[i] = requests[i] /\ i \in 1 .. Len(requests)
      BY <3>1, SubSeqProperties DEF ChannelInv, TypeOK
    <3>3. /\ Len(requests') = Len(requests) - k
          /\ \A i \in 1 .. Len(requests) - k :
               requests'[i] = requests[k + i] /\ k + i \in 1 .. Len(requests)
      BY <3>1, SubSeqProperties DEF ChannelInv, TypeOK
    <3> QED
      BY <1>a, <1>b, <2>1, <3>2, <3>3 DEF AllOwn, Own, OwnAnswer
  <2> QED
    BY <2>2, <2>3
<1>7. CASE SendResponse
  <2>1. /\ Len(buffer') = Len(buffer) - 1 /\ 1 \in 1 .. Len(buffer)
        /\ \A i \in 1 .. Len(buffer) - 1 :
             buffer'[i] = buffer[i + 1] /\ i + 1 \in 1 .. Len(buffer)
        /\ Head(buffer) = buffer[1]
    BY <1>7 DEF SendResponse, ChannelInv, TypeOK
  <2>2. UNCHANGED <<mutex, current, requests, effects, verdict>>
    BY <1>7 DEF SendResponse, client
  <2> DEFINE a == [number |-> Head(buffer).number, status |-> verdict,
                   values |-> Head(buffer).op = "get" /\ verdict = "SUCCESS"]
  <2>3. /\ Len(answers') = Len(answers) + 1
        /\ \A i \in 1 .. Len(answers) : answers'[i] = answers[i]
        /\ answers'[Len(answers) + 1] = a
    BY <1>7 DEF SendResponse, ChannelInv, TypeOK
  <2>4. OwnAnswer(a)
    <3>1. mutex # Nobody /\ Head(buffer) = current[mutex]
      BY <1>a, <2>1 DEF AllOwn, Own
    <3>2. Head(buffer).op # "stats" /\ HasEffect(Head(buffer).number, verdict)
      BY <1>7 DEF SendResponse, ChannelInv, ExecutedInv
    <3> QED
      BY <3>1, <3>2 DEF OwnAnswer
  <2>5. \A i \in 1 .. Len(answers') : OwnAnswer(answers'[i])
    <3> HIDE DEF a
    <3> QED
      BY <1>0, <1>a, <2>3, <2>4 DEF AllOwn
  <2>6. \A i \in 1 .. Len(answers') : OwnAnswer(answers[i])'
    BY <1>b, <2>2, <2>5 DEF OwnAnswer
  <2>7. \A i \in 1 .. Len(buffer') : Own(buffer'[i])
    BY <1>0, <1>a, <2>1 DEF AllOwn
  <2> QED
    BY <1>a, <2>2, <2>6, <2>7 DEF AllOwn, Own
<1>8. CASE UnknownOpThrows \/ SyncdEnds
  <2>1. buffer' = <<>> /\ UNCHANGED <<mutex, current, answers, requests>>
    BY <1>8 DEF UnknownOpThrows, SyncdEnds, Exit, client
  <2> QED
    BY <1>a, <1>b, <2>1 DEF AllOwn, Own, OwnAnswer
<1>9. CASE Drain
  <2>1. PICK k \in 1 .. Len(requests) : requests' = SubSeq(requests, k + 1, Len(requests))
    BY <1>9 DEF Drain
  <2>2. /\ Len(requests') = Len(requests) - k
        /\ \A i \in 1 .. Len(requests) - k :
             requests'[i] = requests[k + i] /\ k + i \in 1 .. Len(requests)
    BY <2>1, SubSeqProperties DEF ChannelInv, TypeOK
  <2>3. UNCHANGED <<mutex, current, answers, buffer>>
    BY <1>9 DEF Drain, client, server
  <2> QED
    BY <1>a, <1>b, <2>2, <2>3 DEF AllOwn, Own, OwnAnswer
<1> QED
  BY <1>1, <1>2, <1>3, <1>4, <1>5, <1>6, <1>7, <1>8, <1>9 DEF Next, ServerStep, vars, client,
     server, SyncdStarts, Execute

LEMMA PromiseInvIsInvariant == Spec => [](ChannelInv /\ PromiseInv)
<1>1. Init => PromiseInv
  BY DEF Init, PromiseInv, AllOwn
<1> QED
  BY <1>1, PromiseInvIsInductive, ChannelInvIsInvariant, PTL DEF Spec

(* Every step of the channel is a step of the synchronous call or none.    *)
LEMMA StepSimulates ==
  ChannelInv /\ PromiseInv /\ [Next]_vars => [Promise!Next]_Promise!vars
<1> SUFFICES ASSUME ChannelInv, PromiseInv, [Next]_vars, ~abandoned'
             PROVE  [Promise!Next]_Promise!vars
  BY DEF Promise!Next, ChannelInv, TypeOK
<1> DEFINE number == [c \in Thread |-> current[c].number]
<1>0. /\ current \in [Thread -> Request \cup {NoRequest}] /\ calls \in Nat
      /\ NoRequest.number = 0
      /\ \A r \in Request : r.number \in Nat /\ r.number # 0
      /\ \A c \in Thread : current[c] # NoRequest => mutex = c
      /\ \A c \in Thread : mutex = c => current[c] # NoRequest
  BY MaxCallsAssumption DEF ChannelInv, TypeOK, CallInv, Request, Number, NoRequest
<1>a. ~abandoned /\ AllOwn
  <2>1. ~abandoned
    BY DEF Next, ServerStep, vars, client, server, Send, TakeAnswer, Timeout, GiveUp,
       ClientRestarts, SyncdStarts, Pop, Execute, SendResponse, UnknownOpThrows, SyncdEnds, Exit, Drain
  <2> QED
    BY <2>1 DEF PromiseInv
<1>1. CASE UNCHANGED <<current, calls, effects, abandoned, result>>
  BY <1>1 DEF Promise!vars
<1>2. ASSUME NEW c \in Thread, Send(c) PROVE Promise!Call(c)
  <2>1. PICK r \in Request : r.number = calls + 1 /\ current' = [current EXCEPT ![c] = r]
    <3>1. PICK op \in Op :
            current' = [current EXCEPT ![c] = [number |-> calls + 1, op |-> op]]
      BY <1>2 DEF Send
    <3>2. [number |-> calls + 1, op |-> op] \in Request
      BY <1>2, <1>0, MaxCallsAssumption DEF Send, Request, Number
    <3> QED
      BY <3>1, <3>2
  <2>2. \A d \in Thread : current[d] = NoRequest
    BY <1>0, <1>2, ThreadAssumption DEF Send, MayLock
  <2>3. number' = [number EXCEPT ![c] = calls + 1]
    BY <1>0, <2>1
  <2>4. \A d \in Thread : number[d] = 0
    BY <1>0, <2>2
  <2>5. calls < MaxCalls /\ calls' = calls + 1 /\ result' = [result EXCEPT ![c] = "none"]
        /\ UNCHANGED effects
    BY <1>2 DEF Send, server
  <2> QED
    BY <2>3, <2>4, <2>5 DEF Promise!Call
<1>3. ASSUME NEW c \in Thread, TakeAnswer(c) \/ Timeout(c) PROVE Promise!Return(c)
  <2>1. current[c] # NoRequest /\ mutex = c /\ mutex # Nobody
    BY <1>0, <1>3, ThreadAssumption DEF TakeAnswer, Timeout
  <2>2. current' = [current EXCEPT ![c] = NoRequest] /\ UNCHANGED <<calls, effects>>
    BY <1>3 DEF TakeAnswer, Timeout, EndCall, server
  <2>3. number' = [number EXCEPT ![c] = 0] /\ number[c] # 0
    BY <1>0, <2>1, <2>2
  <2>4. CASE Timeout(c)
    BY <2>2, <2>3, <2>4 DEF Timeout, EndCall, Promise!Return
  <2>5. CASE TakeAnswer(c)
    <3>1. Taken \in Answer /\ OwnAnswer(Taken)
      <4>1. answers # <<>> /\ Len(answers) \in 1 .. Len(answers) /\ Taken = answers[Len(answers)]
        BY <2>5 DEF TakeAnswer, Taken, Last, ChannelInv, TypeOK
      <4> QED
        BY <1>a, <4>1 DEF AllOwn, ChannelInv, TypeOK
    <3>2. Taken.status \in Verdict
      BY <3>1 DEF Answer
    <3>3. ~Throws(current[c], Taken)
      <4>1. current[c].op \in {"set", "get", "stats"}
        BY <1>0, <2>1 DEF Request, Op
      <4> QED
        BY <2>1, <3>1, <4>1 DEF OwnAnswer, Throws
    <3>4. result' = [result EXCEPT ![c] = Taken.status]
      BY <2>5, <3>3 DEF TakeAnswer, EndCall
    <3>5. HasEffect(number[c], Taken.status)
      BY <2>1, <3>1 DEF OwnAnswer
    <3> QED
      BY <2>2, <2>3, <3>2, <3>4, <3>5 DEF Promise!Return, HasEffect, Verdict, Promise!Verdict
  <2> QED
    BY <1>3, <2>4, <2>5
<1>4. CASE ClientRestarts
  <2>1. number' = [c \in Thread |-> 0]
    BY <1>0, <1>4 DEF ClientRestarts
  <2> QED
    BY <1>4, <1>a, <2>1 DEF ClientRestarts, server, Promise!Next, Promise!Restart
<1>5. CASE Execute
  <2>1. buffer # <<>> /\ Head(buffer) = buffer[1] /\ 1 \in 1 .. Len(buffer) /\ syncd = "popped"
    BY <1>5 DEF Execute, ChannelInv, TypeOK
  <2>2. mutex # Nobody /\ Head(buffer) = current[mutex] /\ mutex \in Thread
    BY <1>a, <2>1 DEF AllOwn, Own, ChannelInv, TypeOK
  <2>3. number[mutex] = Head(buffer).number /\ number[mutex] # 0 /\ number[mutex] \in Nat
    BY <1>0, <2>2
  <2>4. \A e \in 1 .. Len(effects) : effects[e][1] # number[mutex]
    <3>1. \A e \in 1 .. Len(effects) : effects[e][1] < buffer[1].number
      BY <2>1 DEF ChannelInv, OrderInv, EffectsBehind
    <3>2. \A e \in 1 .. Len(effects) : effects[e][1] \in Nat
      <4>1. \A e \in 1 .. Len(effects) : effects[e] \in Number \X Verdict
        BY DEF ChannelInv, TypeOK
      <4> QED
        BY <4>1 DEF Number
    <3> QED
      BY ONLY <2>1, <2>3, <3>1, <3>2
  <2>5. ~Promise!HasEffect(number[mutex])
    BY <2>4 DEF Promise!HasEffect
  <2>6. verdict' \in Promise!Verdict /\ effects' = Append(effects, <<number[mutex], verdict'>>)
    BY <1>5, <2>3 DEF Execute, Verdict, Promise!Verdict
  <2>7. UNCHANGED <<number, calls, result>>
    BY <1>5 DEF Execute, client
  <2>8. Promise!Effect(mutex)
    BY <2>3, <2>5, <2>6, <2>7 DEF Promise!Effect
  <2> QED
    BY <1>5, <1>a, <2>2, <2>8 DEF Execute, client, Promise!Next
<1> QED
  BY <1>1, <1>2, <1>3, <1>4, <1>5 DEF Next, ServerStep, vars, client, server, SyncdStarts, Pop,
     SendResponse, UnknownOpThrows, SyncdEnds, Exit, Drain, Promise!Next

(* The channel implements the synchronous call: until a call is given up   *)
(* while its answer is under way, what a call returns is the verdict with  *)
(* which this very call took effect.                                       *)
THEOREM ImplementsSyncCall == Spec => Synchronous
<1>1. Init => Promise!Init
  BY DEF Init, Promise!Init, NoRequest
<1> QED
  BY <1>1, StepSimulates, PromiseInvIsInvariant, PTL DEF Spec, Synchronous, Promise!Spec
=============================================================================
