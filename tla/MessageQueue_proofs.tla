------------------------- MODULE MessageQueue_proofs -------------------------
(* Proofs about MessageQueue for every set of producers and every bound.    *)
EXTENDS MessageQueue, SequenceTheorems, FiniteSetTheorems, TLAPS

(* The consumer's wake-up invariant together with the types it needs.      *)
IInv == TypeOK /\ WakeupHasMessage

(* Both cases of FrontValue are a message or the garbage value.            *)
LEMMA FrontValueType ==
    ASSUME messageQueue \in Seq(Msg)
    PROVE  FrontValue \in Msg \cup {Garbage}
BY DEF FrontValue

(* Access keeps the consumer's queue and history well typed.               *)
LEMMA AccessType ==
    ASSUME TypeOK, Access
    PROVE  /\ messageQueue' \in Seq(Msg)
           /\ received' \in Seq(Msg \cup {Garbage})
           /\ op' \in {"front", "pop"}
           /\ pc' = "call"
<1>1. received \in Seq(Msg \cup {Garbage}) /\ messageQueue \in Seq(Msg)
  BY DEF TypeOK
<1>2. CASE op = "front"
  <2>1. received' = Append(received, FrontValue) /\ op' = "pop"
        /\ messageQueue' = messageQueue /\ pc' = "call"
    BY <1>2 DEF Access
  <2>2. Append(received, FrontValue) \in Seq(Msg \cup {Garbage})
    BY <1>1, FrontValueType, AppendProperties
  <2>3. QED
    BY <1>1, <2>1, <2>2
<1>3. CASE op = "pop"
  <2>1. messageQueue' = SubSeq(messageQueue, 2, Len(messageQueue)) /\ op' = "front"
        /\ received' = received /\ pc' = "call"
    BY <1>3 DEF Access
  <2>2. SubSeq(messageQueue, 2, Len(messageQueue)) \in Seq(Msg)
    <3>1. \A i \in 2..Len(messageQueue) : messageQueue[i] \in Msg
      BY <1>1
    <3>2. QED
      BY <3>1, SubSeqProperties
  <2>3. QED
    BY <1>1, <2>1, <2>2
<1>4. QED
  BY <1>2, <1>3 DEF TypeOK

(* Every step keeps the variables in their types.                          *)
LEMMA TypeStep == TypeOK /\ [Next]_vars => TypeOK'
<1> SUFFICES ASSUME TypeOK, [Next]_vars PROVE TypeOK'
  OBVIOUS
<1>1. ASSUME NEW p \in Producers, push(p) PROVE TypeOK'
  <2>1. sent[p] + 1 \in 1..MaxPush
    BY <1>1, ConstantsAssumption DEF push, TypeOK
  <2>2. [from |-> p, seq |-> sent[p] + 1] \in Msg
    BY <2>1 DEF Msg
  <2>3. spawned' \in Seq(Msg)
    BY <1>1, <2>2, AppendProperties DEF push, TypeOK
  <2>4. sent' \in [Producers -> 0..MaxPush]
    BY <1>1, <2>1 DEF push, TypeOK
  <2>5. QED
    BY <1>1, <2>3, <2>4 DEF push, TypeOK
<1>2. CASE RunSpawned
  <2>1. Head(spawned) \in Msg /\ Tail(spawned) \in Seq(Msg)
    BY <1>2, HeadTailProperties DEF RunSpawned, TypeOK
  <2>2. messageQueue' \in Seq(Msg)
    BY <1>2, <2>1, AppendProperties DEF RunSpawned, TypeOK
  <2>3. QED
    BY <1>2, <2>1, <2>2 DEF RunSpawned, TypeOK
<1>3. CASE stop
  BY <1>3 DEF stop, TypeOK
<1>4. CASE CallWait
  <2>1. CASE messageQueue # <<>> /\ Access /\ UNCHANGED event
    BY <1>4, <2>1, AccessType DEF CallWait, TypeOK
  <2>2. CASE ~(messageQueue # <<>> /\ Access /\ UNCHANGED event)
    BY <1>4, <2>2 DEF CallWait, TypeOK
  <2>3. QED
    BY <2>1, <2>2
<1>5. CASE WaitWake
  <2>1. CASE ~stopped /\ Access
    BY <1>5, <2>1, AccessType DEF WaitWake, TypeOK
  <2>2. CASE ~(~stopped /\ Access)
    BY <1>5, <2>2 DEF WaitWake, TypeOK
  <2>3. QED
    BY <2>1, <2>2
<1>6. CASE GuardRelease
  BY <1>6 DEF GuardRelease, TypeOK
<1>7. CASE UNCHANGED vars
  BY <1>7 DEF vars, TypeOK
<1>8. QED
  BY <1>1, <1>2, <1>3, <1>4, <1>5, <1>6, <1>7 DEF Next

(* The initial state is well typed.                                        *)
LEMMA InitType == Init => TypeOK
<1> SUFFICES ASSUME Init PROVE TypeOK
  OBVIOUS
<1>1. spawned \in Seq(Msg) /\ messageQueue \in Seq(Msg)
  BY DEF Init
<1>2. received \in Seq(Msg \cup {Garbage})
  BY DEF Init
<1>3. sent \in [Producers -> 0..MaxPush]
  BY ConstantsAssumption DEF Init
<1>4. QED
  BY <1>1, <1>2, <1>3 DEF Init, TypeOK

(* The variables of the queue always have their types.                     *)
THEOREM TypeCorrect == Spec => []TypeOK
BY InitType, TypeStep, PTL DEF Spec

(* Every step preserves the wake-up invariant: the event is cleared when   *)
(* the consumer suspends, and only a closure that appends a message or    *)
(* stop() sets it again while the consumer waits.                         *)
LEMMA WakeupStep == IInv /\ [Next]_vars => WakeupHasMessage'
<1> SUFFICES ASSUME TypeOK, WakeupHasMessage, [Next]_vars
             PROVE  WakeupHasMessage'
  BY DEF IInv
<1>1. ASSUME NEW p \in Producers, push(p) PROVE WakeupHasMessage'
  BY <1>1 DEF push, WakeupHasMessage
<1>2. CASE RunSpawned
  BY <1>2 DEF RunSpawned, WakeupHasMessage
<1>3. CASE stop
  BY <1>3 DEF stop, WakeupHasMessage
<1>4. CASE CallWait
  BY <1>4 DEF CallWait, Access, WakeupHasMessage
<1>5. CASE WaitWake
  BY <1>5 DEF WaitWake, Access, WakeupHasMessage
<1>6. CASE GuardRelease
  BY <1>6 DEF GuardRelease, WakeupHasMessage
<1>7. CASE UNCHANGED vars
  BY <1>7 DEF vars, WakeupHasMessage
<1>8. QED
  BY <1>1, <1>2, <1>3, <1>4, <1>5, <1>6, <1>7 DEF Next

(* wait() never returns to front() or pop() on an empty queue, in every    *)
(* run, for every number of producers and pushes.                          *)
THEOREM WakeupSafe == Spec => []WakeupHasMessage
<1>1. Init => IInv
  BY InitType DEF Init, IInv, WakeupHasMessage
<1>2. IInv /\ [Next]_vars => IInv'
  BY TypeStep, WakeupStep DEF IInv
<1>3. IInv => WakeupHasMessage
  BY DEF IInv
<1>4. QED
  BY <1>1, <1>2, <1>3, PTL DEF Spec

-----------------------------------------------------------------------------
(* Refinement of the channel.                                              *)

(* A pending head is still in the std::queue between front() and pop(),   *)
(* and the consumer's lifecycle follows stop() and the guard.              *)
PopHasHead == op = "pop" => messageQueue # <<>>
Lifecycle ==
    /\ ~registered => pc = "exited"
    /\ pc \in {"interrupted", "exited"} => stopped

RInv == TypeOK /\ WakeupHasMessage /\ PopHasHead /\ Lifecycle

(* Appending to the second part of a concatenation appends to the whole.  *)
LEMMA AppendConcat ==
    ASSUME NEW S, NEW s \in Seq(S), NEW t \in Seq(S), NEW e \in S
    PROVE  s \o Append(t, e) = Append(s \o t, e)
<1>1. Append(t, e) = t \o <<e>> /\ Append(s \o t, e) = (s \o t) \o <<e>>
  BY AppendIsConcat, ConcatProperties
<1>2. <<e>> \in Seq(S)
  OBVIOUS
<1>3. QED
  BY <1>1, <1>2, ConcatAssociative

(* A non-empty sequence is its head followed by its tail.                 *)
LEMMA HeadTailConcat ==
    ASSUME NEW S, NEW t \in Seq(S), t # <<>>
    PROVE  t = <<Head(t)>> \o Tail(t)
<1>1. Head(t) \in S /\ Tail(t) \in Seq(S) /\ Len(Tail(t)) = Len(t) - 1
      /\ \A i \in 1 .. Len(Tail(t)) : Tail(t)[i] = t[i+1]
  BY HeadTailProperties
<1>2. <<Head(t)>> \in Seq(S)
  BY <1>1
<1>3. /\ <<Head(t)>> \o Tail(t) \in Seq(S)
      /\ Len(<<Head(t)>> \o Tail(t)) = Len(t)
      /\ \A i \in 1 .. Len(t) : (<<Head(t)>> \o Tail(t))[i] = t[i]
  BY <1>1, <1>2, ConcatProperties
<1>4. QED
  BY <1>3, SeqEqual

(* Moving the head of t to the end of s leaves s \o t as it is: what the   *)
(* dispatcher does when it runs the oldest closure.                        *)
LEMMA MoveHead ==
    ASSUME NEW S, NEW s \in Seq(S), NEW t \in Seq(S), t # <<>>
    PROVE  Append(s, Head(t)) \o Tail(t) = s \o t
<1>1. Head(t) \in S /\ Tail(t) \in Seq(S)
  BY HeadTailProperties
<1>2. Append(s, Head(t)) = s \o <<Head(t)>>
  BY <1>1, AppendIsConcat
<1>3. (s \o <<Head(t)>>) \o Tail(t) = s \o (<<Head(t)>> \o Tail(t))
  BY <1>1, ConcatAssociative
<1>4. QED
  BY <1>2, <1>3, HeadTailConcat

(* Head and Tail of a concatenation whose first part is not empty.        *)
LEMMA HeadTailOfConcat ==
    ASSUME NEW S, NEW s \in Seq(S), NEW t \in Seq(S), s # <<>>
    PROVE  /\ Head(s \o t) = Head(s)
           /\ Tail(s \o t) = Tail(s) \o t
<1>1. s = <<Head(s)>> \o Tail(s) /\ Head(s) \in S /\ Tail(s) \in Seq(S)
  BY HeadTailConcat, HeadTailProperties
<1>2. s \o t = <<Head(s)>> \o (Tail(s) \o t)
  BY <1>1, ConcatAssociative
<1>3. Tail(s) \o t \in Seq(S)
  BY <1>1, ConcatProperties
<1>4. QED
  BY <1>2, <1>3


(* Every step keeps the pending head and the consumer's lifecycle.        *)
LEMMA RInvStep == RInv /\ [Next]_vars => (PopHasHead /\ Lifecycle)'
<1> SUFFICES ASSUME TypeOK, WakeupHasMessage, PopHasHead, Lifecycle, [Next]_vars
             PROVE  (PopHasHead /\ Lifecycle)'
  BY DEF RInv
<1>1. ASSUME NEW p \in Producers, push(p) PROVE (PopHasHead /\ Lifecycle)'
  BY <1>1 DEF push, PopHasHead, Lifecycle
<1>2. CASE RunSpawned
  BY <1>2 DEF RunSpawned, PopHasHead, Lifecycle
<1>3. CASE stop
  BY <1>3 DEF stop, PopHasHead, Lifecycle
<1>4. CASE CallWait
  BY <1>4 DEF CallWait, Access, PopHasHead, Lifecycle
<1>5. CASE WaitWake
  BY <1>5 DEF WaitWake, Access, PopHasHead, Lifecycle, WakeupHasMessage
<1>6. CASE GuardRelease
  BY <1>6 DEF GuardRelease, PopHasHead, Lifecycle
<1>7. CASE UNCHANGED vars
  BY <1>7 DEF vars, PopHasHead, Lifecycle
<1>8. QED
  BY <1>1, <1>2, <1>3, <1>4, <1>5, <1>6, <1>7 DEF Next

(* The refinement invariant holds in every reachable state.               *)
LEMMA RInvAlways == Spec => []RInv
<1>1. Init => RInv
  BY InitType DEF Init, RInv, WakeupHasMessage, PopHasHead, Lifecycle
<1>2. RInv /\ [Next]_vars => RInv'
  BY TypeStep, WakeupStep, RInvStep DEF RInv, IInv
<1>3. QED
  BY <1>1, <1>2, PTL DEF Spec

(* The front() half of a consumer access takes the channel's oldest       *)
(* pending message.                                                        *)
LEMMA FrontIsTake ==
    ASSUME RInv, Access, op = "front", messageQueue # <<>>, pc # "exited",
           UNCHANGED <<spawned, stopped, sent, registered>>
    PROVE  Channel!Take
<1> USE DEF RInv, TypeOK
<1>1. Head(messageQueue \o spawned) = Head(messageQueue)
      /\ Tail(messageQueue \o spawned) = Tail(messageQueue) \o spawned
  BY HeadTailOfConcat
<1>2. received' = Append(received, Head(messageQueue)) /\ op' = "pop"
      /\ messageQueue' = messageQueue
  BY DEF Access, FrontValue
<1>3. pendingBar = messageQueue \o spawned
      /\ pendingBar' = Tail(messageQueue) \o spawned
  BY <1>2 DEF pendingBar
<1>4. pendingBar # <<>>
  BY <1>3, ConcatProperties
<1>5. registered
  BY DEF Lifecycle
<1>6. QED
  BY <1>1, <1>2, <1>3, <1>4, <1>5, SMTT(20) DEF Channel!Take

(* The pop() half removes the head front() already returned: a stutter.   *)
LEMMA PopIsStutter ==
    ASSUME RInv, Access, op = "pop",
           UNCHANGED <<spawned, stopped, sent, registered>>
    PROVE  UNCHANGED Channel!cvars
<1> USE DEF RInv, TypeOK
<1>1. messageQueue # <<>>
  BY DEF PopHasHead
<1>2. messageQueue' = Tail(messageQueue) /\ op' = "front" /\ received' = received
  BY <1>1, TailIsSubSeq, SMTT(20) DEF Access
<1>3. pendingBar' = pendingBar
  BY <1>2 DEF pendingBar
<1>4. QED
  BY <1>2, <1>3 DEF Channel!cvars

(* Running the oldest closure moves its message from the dispatcher into  *)
(* the std::queue: the channel does not change.                           *)
LEMMA RunIsStutter ==
    ASSUME RInv, RunSpawned
    PROVE  UNCHANGED Channel!cvars
<1> USE DEF RInv, TypeOK
<1>1. spawned # <<>> /\ Head(spawned) \in Msg /\ Tail(spawned) \in Seq(Msg)
  BY HeadTailProperties DEF RunSpawned
<1>2. CASE op = "front"
  <2>1. Append(messageQueue, Head(spawned)) \o Tail(spawned) = messageQueue \o spawned
    BY <1>1, MoveHead
  <2>2. QED
    BY <1>2, <2>1 DEF RunSpawned, pendingBar, Channel!cvars
<1>3. CASE op = "pop"
  <2>1. messageQueue # <<>>
    BY <1>3 DEF PopHasHead
  <2>2. Tail(Append(messageQueue, Head(spawned))) = Append(Tail(messageQueue), Head(spawned))
    BY <2>1, HeadTailAppend
  <2>3. Tail(messageQueue) \in Seq(Msg)
    BY <2>1, HeadTailProperties
  <2>4. Append(Tail(messageQueue), Head(spawned)) \o Tail(spawned) = Tail(messageQueue) \o spawned
    BY <1>1, <2>3, MoveHead
  <2>5. QED
    BY <1>3, <2>2, <2>4 DEF RunSpawned, pendingBar, Channel!cvars
<1>4. QED
  BY <1>2, <1>3

(* Every step of the queue is a step of the channel or leaves it as it is. *)
LEMMA RefinementStep == RInv /\ [Next]_vars => [Channel!CNext]_Channel!cvars
<1> SUFFICES ASSUME RInv, [Next]_vars PROVE [Channel!CNext]_Channel!cvars
  OBVIOUS
<1>1. ASSUME NEW p \in Producers, push(p) PROVE Channel!Put(p)
  <2> USE DEF RInv, TypeOK
  <2>1. [from |-> p, seq |-> sent[p] + 1] \in Msg
    BY <1>1, ConstantsAssumption DEF push, Msg
  <2>2. \A s \in Seq(Msg) : s \o spawned' = Append(s \o spawned, [from |-> p, seq |-> sent[p] + 1])
    BY <1>1, <2>1, AppendConcat DEF push
  <2>3. Tail(messageQueue) \in Seq(Msg) \/ messageQueue = <<>>
    BY HeadTailProperties
  <2>4. pendingBar' = Append(pendingBar, [from |-> p, seq |-> sent[p] + 1])
    <3>1. CASE op = "pop"
      BY <1>1, <2>2, <2>3, <3>1 DEF push, pendingBar, PopHasHead
    <3>2. CASE op # "pop"
      BY <1>1, <2>2, <3>2 DEF push, pendingBar
    <3>3. QED
      BY <3>1, <3>2
  <2>5. QED
    BY <1>1, <2>4 DEF push, Channel!Put
<1>2. CASE RunSpawned
  BY <1>2, RunIsStutter
<1>3. CASE stop
  BY <1>3 DEF stop, Channel!Stop, Channel!CNext, pendingBar
<1>4. CASE CallWait
  <2>1. CASE messageQueue # <<>> /\ Access /\ UNCHANGED event
    <3>1. CASE op = "front"
      <4>1. Channel!Take
        BY <1>4, <2>1, <3>1, FrontIsTake DEF CallWait
      <4>2. QED
        BY <4>1 DEF Channel!CNext
    <3>2. CASE op = "pop"
      BY <1>4, <2>1, <3>2, PopIsStutter DEF CallWait
    <3>3. QED
      BY <3>1, <3>2 DEF RInv, TypeOK
  <2>2. CASE ~(messageQueue # <<>> /\ Access /\ UNCHANGED event)
    BY <1>4, <2>2 DEF CallWait, Channel!cvars, pendingBar
  <2>3. QED
    BY <2>1, <2>2
<1>5. CASE WaitWake
  <2>1. CASE ~stopped /\ Access
    <3>1. messageQueue # <<>>
      BY <1>5, <2>1 DEF WaitWake, RInv, WakeupHasMessage
    <3>2. CASE op = "front"
      <4>1. Channel!Take
        BY <1>5, <2>1, <3>1, <3>2, FrontIsTake DEF WaitWake
      <4>2. QED
        BY <4>1 DEF Channel!CNext
    <3>3. CASE op = "pop"
      BY <1>5, <2>1, <3>3, PopIsStutter DEF WaitWake
    <3>4. QED
      BY <3>2, <3>3 DEF RInv, TypeOK
  <2>2. CASE ~(~stopped /\ Access)
    BY <1>5, <2>2 DEF WaitWake, Channel!cvars, pendingBar
  <2>3. QED
    BY <2>1, <2>2
<1>6. CASE GuardRelease
  <2>1. stopped /\ registered
    BY <1>6 DEF GuardRelease, RInv, Lifecycle
  <2>2. Channel!Leave
    BY <1>6, <2>1 DEF GuardRelease, Channel!Leave, pendingBar
  <2>3. QED
    BY <2>2 DEF Channel!CNext
<1>7. CASE UNCHANGED vars
  BY <1>7 DEF vars, Channel!cvars, pendingBar
<1>8. QED
  BY <1>1, <1>2, <1>3, <1>4, <1>5, <1>6, <1>7 DEF Next, Channel!CNext

(* MessageQueue implements the channel's safety: in every run, for every  *)
(* set of producers and every bound, push(), the dispatcher's closures,    *)
(* stop(), front(), pop() and the guard's destructor only put a message at *)
(* the end, take the oldest once, stop, or leave after stop().             *)
THEOREM Refinement == Spec => QueueSafety
<1>1. Init => Channel!CInit
  BY DEF Init, Channel!CInit, pendingBar
<1>2. QED
  BY <1>1, RInvAlways, RefinementStep, PTL DEF Spec, QueueSafety, Channel!SafetySpec


-----------------------------------------------------------------------------
(* Per-producer order.                                                     *)

(* In the sequence all, every message is the k-th of its producer, k being *)
(* its seq, and each producer p has put snt[p] of them.                    *)
OrderOK(all, snt) ==
    /\ \A i \in 1..Len(all) : all[i].seq = CountFrom(all, i, all[i].from)
    /\ \A p \in Producers : CountFrom(all, Len(all), p) = snt[p]

(* What the consumer has received followed by what is still pending is in *)
(* per-producer order, and accounts for every push().                      *)
OInv == OrderOK(received \o pendingBar, sent)

(* The messages of p among the first i of a sequence form a finite set.   *)
LEMMA CountFinite ==
    ASSUME NEW s, NEW i \in Nat, NEW p
    PROVE  /\ IsFiniteSet({j \in 1..i : s[j].from = p})
           /\ CountFrom(s, i, p) \in Nat
<1>1. IsFiniteSet(1..i)
  BY FS_Interval
<1>2. IsFiniteSet({j \in 1..i : s[j].from = p})
  BY <1>1, FS_Subset
<1>3. QED
  BY <1>2, FS_CardinalityType DEF CountFrom

(* Two sequences that agree on their first i elements count alike there.  *)
LEMMA CountPrefix ==
    ASSUME NEW s, NEW t, NEW i \in Nat, NEW p,
           \A j \in 1..i : s[j] = t[j]
    PROVE  CountFrom(s, i, p) = CountFrom(t, i, p)
<1>1. {j \in 1..i : s[j].from = p} = {j \in 1..i : t[j].from = p}
  OBVIOUS
<1>2. QED
  BY <1>1 DEF CountFrom

(* Counting one element further adds one exactly when it is p's.          *)
LEMMA CountStep ==
    ASSUME NEW s, NEW n \in Nat, NEW p
    PROVE  CountFrom(s, n + 1, p) =
               CountFrom(s, n, p) + (IF s[n + 1].from = p THEN 1 ELSE 0)
<1>1. IsFiniteSet({j \in 1..n : s[j].from = p})
  BY CountFinite
<1>2. n + 1 \notin {j \in 1..n : s[j].from = p}
  OBVIOUS
<1>3. CASE s[n + 1].from = p
  <2>1. {j \in 1..n + 1 : s[j].from = p} = {j \in 1..n : s[j].from = p} \cup {n + 1}
    BY <1>3
  <2>2. Cardinality({j \in 1..n : s[j].from = p} \cup {n + 1})
            = Cardinality({j \in 1..n : s[j].from = p}) + 1
    BY <1>1, <1>2, FS_AddElement
  <2>3. QED
    BY <1>3, <2>1, <2>2 DEF CountFrom
<1>4. CASE s[n + 1].from # p
  <2>1. {j \in 1..n + 1 : s[j].from = p} = {j \in 1..n : s[j].from = p}
    BY <1>4
  <2>2. CountFrom(s, n, p) \in Nat
    BY CountFinite
  <2>3. CountFrom(s, n + 1, p) = CountFrom(s, n, p)
    BY <2>1 DEF CountFrom
  <2>4. QED
    BY <1>4, <2>2, <2>3
<1>5. QED
  BY <1>3, <1>4

(* A message counts itself: its own count is at least one.                *)
LEMMA CountPositive ==
    ASSUME NEW s, NEW i \in Nat \ {0}
    PROVE  CountFrom(s, i, s[i].from) >= 1
<1>0. i - 1 \in Nat /\ (i - 1) + 1 = i
  OBVIOUS
<1>1. CountFrom(s, (i - 1) + 1, s[i].from) =
          CountFrom(s, i - 1, s[i].from) + (IF s[(i - 1) + 1].from = s[i].from THEN 1 ELSE 0)
  BY <1>0, CountStep
<1>2. CountFrom(s, i - 1, s[i].from) \in Nat
  BY <1>0, CountFinite
<1>3. QED
  BY <1>0, <1>1, <1>2

(* Putting p's next message at the end keeps the order and counts it.     *)
LEMMA OrderAppend ==
    ASSUME NEW S, NEW all \in Seq(S), NEW snt \in [Producers -> Nat],
           NEW p \in Producers, NEW e \in S,
           OrderOK(all, snt), e.from = p, e.seq = snt[p] + 1
    PROVE  OrderOK(Append(all, e), [snt EXCEPT ![p] = @ + 1])
<1>1. /\ Len(all) \in Nat
      /\ Len(Append(all, e)) = Len(all) + 1
      /\ \A j \in 1..Len(all) : Append(all, e)[j] = all[j]
      /\ Append(all, e)[Len(all) + 1] = e
  BY AppendProperties
<1>2. ASSUME NEW i \in 0..Len(all), NEW q
      PROVE  CountFrom(Append(all, e), i, q) = CountFrom(all, i, q)
  <2>1. i \in Nat /\ \A j \in 1..i : Append(all, e)[j] = all[j]
    BY <1>1
  <2>2. QED
    BY <2>1, CountPrefix, ZenonT(30)
<1>3. ASSUME NEW q
      PROVE  CountFrom(Append(all, e), Len(all) + 1, q) =
                 CountFrom(all, Len(all), q) + (IF p = q THEN 1 ELSE 0)
  <2>1. CountFrom(Append(all, e), Len(all) + 1, q) =
            CountFrom(Append(all, e), Len(all), q)
              + (IF Append(all, e)[Len(all) + 1].from = q THEN 1 ELSE 0)
    BY <1>1, CountStep
  <2>2. CountFrom(Append(all, e), Len(all), q) = CountFrom(all, Len(all), q)
    BY <1>1, <1>2
  <2>3. QED
    BY <1>1, <2>1, <2>2
<1>4. ASSUME NEW i \in 1..Len(Append(all, e))
      PROVE  Append(all, e)[i].seq = CountFrom(Append(all, e), i, Append(all, e)[i].from)
  <2>1. CASE i \in 1..Len(all)
    <3>1. all[i].seq = CountFrom(all, i, all[i].from)
      BY <2>1 DEF OrderOK
    <3>2. CountFrom(Append(all, e), i, all[i].from) = CountFrom(all, i, all[i].from)
      BY <2>1, <1>2
    <3>3. QED
      BY <1>1, <2>1, <3>1, <3>2
  <2>2. CASE i = Len(all) + 1
    <3>1. CountFrom(all, Len(all), p) = snt[p]
      BY DEF OrderOK
    <3>2. QED
      BY <1>1, <2>2, <3>1, <1>3
  <2>3. QED
    BY <1>1, <2>1, <2>2
<1>5. ASSUME NEW q \in Producers
      PROVE  CountFrom(Append(all, e), Len(Append(all, e)), q) = [snt EXCEPT ![p] = @ + 1][q]
  <2>1. CountFrom(all, Len(all), q) = snt[q]
    BY DEF OrderOK
  <2>2. QED
    BY <1>1, <1>3, <2>1
<1>6. QED
  BY <1>4, <1>5 DEF OrderOK

(* The channel's pending sequence and the consumer's history are          *)
(* sequences of messages (the latter possibly holding the garbage value).  *)
LEMMA PendingType ==
    ASSUME RInv
    PROVE  /\ pendingBar \in Seq(Msg \cup {Garbage})
           /\ received \in Seq(Msg \cup {Garbage})
<1> USE DEF RInv, TypeOK
<1>1. messageQueue \in Seq(Msg \cup {Garbage}) /\ spawned \in Seq(Msg \cup {Garbage})
  BY SeqMonotonic
<1>2. CASE op = "pop"
  <2>1. Tail(messageQueue) \in Seq(Msg \cup {Garbage})
    BY <1>1, <1>2, HeadTailProperties DEF PopHasHead
  <2>2. QED
    BY <1>1, <1>2, <2>1, ConcatProperties DEF pendingBar
<1>3. CASE op # "pop"
  BY <1>1, <1>3, ConcatProperties DEF pendingBar
<1>4. QED
  BY <1>2, <1>3

(* Every step keeps received \o pendingBar in per-producer order: a Put    *)
(* appends p's next message, a Take moves the head from one part to the    *)
(* other, and nothing else touches either part.                            *)
LEMMA OrderStep == RInv /\ OInv /\ [Next]_vars => OInv'
<1> SUFFICES ASSUME RInv, OInv, [Next]_vars PROVE OInv'
  OBVIOUS
<1> DEFINE S == Msg \cup {Garbage}
<1>1. pendingBar \in Seq(S) /\ received \in Seq(S)
  BY PendingType
<1>2. [Channel!CNext]_Channel!cvars
  BY RefinementStep
<1>3. ASSUME NEW p \in Producers, Channel!Put(p) PROVE OInv'
  <2> DEFINE e == [from |-> p, seq |-> sent[p] + 1]
  <2>1. /\ pendingBar' = Append(pendingBar, e)
        /\ received' = received
        /\ sent' = [sent EXCEPT ![p] = @ + 1]
        /\ sent[p] < MaxPush
    BY <1>3 DEF Channel!Put
  <2>2. sent \in [Producers -> Nat] /\ e \in S
    BY <2>1, ConstantsAssumption DEF RInv, TypeOK, Msg
  <2>3. received \o Append(pendingBar, e) = Append(received \o pendingBar, e)
    BY <1>1, <2>2, AppendConcat, SMTT(30)
  <2>4. received \o pendingBar \in Seq(S)
    BY <1>1, ConcatProperties
  <2>5. OrderOK(Append(received \o pendingBar, e), [sent EXCEPT ![p] = @ + 1])
    BY <2>2, <2>4, OrderAppend DEF OInv
  <2>6. QED
    BY <2>1, <2>3, <2>5 DEF OInv
<1>4. CASE Channel!Take
  <2>1. /\ pendingBar # <<>>
        /\ received' = Append(received, Head(pendingBar))
        /\ pendingBar' = Tail(pendingBar)
        /\ sent' = sent
    BY <1>4 DEF Channel!Take
  <2>2. Append(received, Head(pendingBar)) \o Tail(pendingBar) = received \o pendingBar
    BY <1>1, <2>1, MoveHead
  <2>3. QED
    BY <2>1, <2>2 DEF OInv
<1>5. CASE Channel!Stop \/ Channel!Leave \/ UNCHANGED Channel!cvars
  <2>1. received' = received /\ pendingBar' = pendingBar /\ sent' = sent
    BY <1>5 DEF Channel!Stop, Channel!Leave, Channel!cvars
  <2>2. QED
    BY <2>1 DEF OInv
<1>6. QED
  BY <1>2, <1>3, <1>4, <1>5 DEF Channel!CNext

(* The consumer's history is in order when the whole of it is.           *)
LEMMA OrderToReceived == RInv /\ OInv => ReceivedInOrder
<1> SUFFICES ASSUME RInv, OInv, NEW i \in DOMAIN received
             PROVE  /\ received[i] # Garbage
                    /\ received[i].seq = CountFrom(received, i, received[i].from)
  BY DEF ReceivedInOrder
<1>1. pendingBar \in Seq(Msg \cup {Garbage}) /\ received \in Seq(Msg \cup {Garbage})
  BY PendingType
<1>2. /\ i \in Nat \ {0}
      /\ i \in 1..Len(received \o pendingBar)
      /\ \A j \in 1..i : (received \o pendingBar)[j] = received[j]
  BY <1>1, ConcatProperties
<1>3. (received \o pendingBar)[i].seq
          = CountFrom(received \o pendingBar, i, (received \o pendingBar)[i].from)
  BY <1>2 DEF OInv, OrderOK
<1>4. CountFrom(received \o pendingBar, i, received[i].from)
          = CountFrom(received, i, received[i].from)
  <2>1. {j \in 1..i : (received \o pendingBar)[j].from = received[i].from}
            = {j \in 1..i : received[j].from = received[i].from}
    BY <1>2
  <2>2. QED
    BY <2>1 DEF CountFrom
<1>5. (received \o pendingBar)[i] = received[i]
  BY <1>2
<1>6. received[i].seq = CountFrom(received, i, received[i].from)
  BY <1>3, <1>4, <1>5
<1>7. CountFrom(received, i, received[i].from) >= 1
  BY <1>2, CountPositive
<1>8. QED
  BY <1>6, <1>7 DEF Garbage

(* The consumer receives each producer's messages in the order it pushed  *)
(* them, none skipped and none twice, and never the value of front() on an *)
(* empty queue: for every set of producers and every bound.                *)
THEOREM InOrder == Spec => []ReceivedInOrder
<1>1. Init => RInv /\ OInv
  <2> SUFFICES ASSUME Init PROVE RInv /\ OInv
    OBVIOUS
  <2>1. RInv
    BY InitType DEF Init, RInv, WakeupHasMessage, PopHasHead, Lifecycle
  <2>2. received \o pendingBar = <<>>
    BY DEF Init, pendingBar
  <2>3. \A p \in Producers : CountFrom(<<>>, 0, p) = 0
    BY FS_EmptySet DEF CountFrom
  <2>4. QED
    BY <2>1, <2>2, <2>3 DEF Init, OInv, OrderOK
<1>2. RInv /\ OInv /\ [Next]_vars => RInv' /\ OInv'
  BY TypeStep, WakeupStep, RInvStep, OrderStep DEF RInv, IInv
<1>3. QED
  BY <1>1, <1>2, OrderToReceived, PTL DEF Spec

=============================================================================
