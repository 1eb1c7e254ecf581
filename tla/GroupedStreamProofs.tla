------------------------- MODULE GroupedStreamProofs -------------------------
(***************************************************************************)
(* The lazy, batched and parallel streams for texts, groups and pools of   *)
(* any size.  The text is cut into what was received, what is buffered,    *)
(* the group that is being spoken and what is pending, in this order; the  *)
(* cuts move forward only.  Without a pool no group is ever begun.         *)
(***************************************************************************)
EXTENDS GroupedStream, FiniteSetTheorems, SequenceTheorems, TLAPS

WorkState == {"waiting", "speaking", "panic"} \cup Spoken

Given == Len(received) + Len(buffered)
Begun == Given + Len(group)

(* The item of sentence i, once it has been spoken.                        *)
Outcome(i) == [sentence |-> i, kind |-> work[i]]

Cuts ==
  /\ Begun + Len(pending) = Sentences
  /\ \A i \in 1..Len(received) : received[i] = Outcome(i) /\ work[i] \in Spoken
  /\ \A i \in 1..Len(buffered) :
       /\ buffered[i] = Outcome(Len(received) + i)
       /\ work[Len(received) + i] \in Spoken
  /\ \A i \in 1..Len(group) : group[i] = Given + i
  /\ \A i \in 1..Len(pending) : pending[i] = Begun + i
  /\ \A s \in Sentence : s > Begun => work[s] = "waiting"
  /\ Len(buffered) + Len(group) <= Size
  /\ reader = "computing" => buffered = << >>
  /\ reader \in {"constructing", "taking", "idle"} => group = << >>
  /\ reader = "constructing" => buffered = << >>

GivenUp ==
  /\ group = << >>
  /\ reader # "computing"
  /\ \A s \in Sentence : work[s] = "waiting"
  /\ \A i \in 1..Len(received) : received[i] = PoolError
  /\ \A i \in 1..Len(buffered) : buffered[i] = PoolError
  /\ pending # << >> => received = << >> /\ buffered = << >>

StreamInv == TypeOK /\ (IF PoolMissing THEN GivenUp ELSE Cuts)

LEMMA SizeIsPositive == ASSUME mode \in Modes PROVE Size \in Nat \ {0}
<1>1. mode \in {"lazy", "batched", "parallel"}
  BY ModesAssumption
<1> QED BY <1>1, SentencesAssumption, GroupSizeAssumption DEF Size

LEMMA InitStreamInv == Init => StreamInv
<1> SUFFICES ASSUME Init PROVE StreamInv
  OBVIOUS
<1> USE SentencesAssumption
<1>1. /\ pending \in Seq(Sentence) /\ Len(pending) = Sentences
      /\ \A i \in 1..Sentences : pending[i] = i
  BY DEF Init, Sentence
<1>2. /\ group = << >> /\ buffered = << >> /\ received = << >>
      /\ Len(group) = 0 /\ Len(buffered) = 0 /\ Len(received) = 0
  BY DEF Init
<1>3. TypeOK
  BY <1>1, <1>2 DEF Init, TypeOK
<1>4. Size \in Nat \ {0}
  BY SizeIsPositive DEF Init
<1>5. Cuts
  BY <1>1, <1>2, <1>4 DEF Init, Cuts, Given, Begun, Sentence
<1>6. GivenUp
  BY <1>2 DEF Init, GivenUp
<1> QED BY <1>3, <1>5, <1>6 DEF StreamInv

(* Taking a group cuts the pending sentences in two.                       *)
LEMMA TakingCuts ==
  ASSUME TypeOK, TakeGroup
  PROVE  /\ group' \in Seq(Sentence) /\ pending' \in Seq(Sentence)
         /\ Len(group') + Len(pending') = Len(pending)
         /\ Len(group') <= Size
         /\ \A i \in 1..Len(group') : group'[i] = pending[i]
         /\ \A i \in 1..Len(pending') : pending'[i] = pending[Len(group') + i]
<1> DEFINE n == Lesser(Size, Len(pending))
<1>1. pending \in Seq(Sentence) /\ Len(pending) \in Nat /\ Size \in Nat
  BY SizeIsPositive DEF TypeOK
<1>2. n \in 0..Len(pending) /\ n <= Size
  BY <1>1 DEF Lesser
<1>3. group' = SubSeq(pending, 1, n) /\ pending' = SubSeq(pending, n + 1, Len(pending))
  BY DEF TakeGroup
<1> HIDE DEF n
<1>4. /\ group' \in Seq(Sentence) /\ Len(group') = n
      /\ \A i \in 1..n : group'[i] = pending[i]
  BY <1>1, <1>2, <1>3
<1>5. /\ pending' \in Seq(Sentence) /\ Len(pending') = Len(pending) - n
      /\ \A i \in 1..(Len(pending) - n) : pending'[i] = pending[n + i]
  BY <1>1, <1>2, <1>3
<1> QED BY <1>1, <1>2, <1>4, <1>5

-----------------------------------------------------------------------------
(* The steps.                                                              *)

LEMMA Lengths ==
  ASSUME TypeOK
  PROVE  /\ Len(pending) \in Nat /\ Len(group) \in Nat
         /\ Len(buffered) \in Nat /\ Len(received) \in Nat
         /\ Size \in Nat \ {0} /\ Sentences \in Nat
  BY SizeIsPositive, SentencesAssumption DEF TypeOK

(* Where the reader goes makes no difference to the cuts, as long as it    *)
(* does not claim more than holds.                                         *)
LEMMA ReaderMoves ==
  ASSUME StreamInv, UNCHANGED <<fixed, pending, group, work, buffered, received>>,
         reader' \in {"idle", "ended"} \cup Gone,
         reader' = "idle" => reader = "constructing"
  PROVE  StreamInv'
<1>1. TypeOK'
  BY DEF StreamInv, TypeOK, fixed, Gone
<1>2. PoolMissing' = PoolMissing /\ Size' = Size
  BY DEF fixed, PoolMissing, NeedsPool, Size
<1>3. CASE PoolMissing
  BY <1>1, <1>2, <1>3 DEF StreamInv, GivenUp, Gone, PoolError
<1>4. CASE ~PoolMissing
  <2>1. Cuts
    BY <1>4 DEF StreamInv
  <2>2. Cuts'
    BY <1>2, <2>1 DEF Cuts, Begun, Given, Outcome, Gone
  <2> QED BY <1>1, <1>2, <1>4, <2>2 DEF StreamInv
<1> QED BY <1>3, <1>4

(* One more sentence of the group is begun, or comes to its outcome.       *)
LEMMA WorkMoves ==
  ASSUME StreamInv, NEW s \in Sentence, Begin(s) \/ Speak(s)
  PROVE  StreamInv'
<1>1. UNCHANGED <<fixed, reader, pending, group, buffered, received>>
  BY DEF Begin, Speak
<1>2. PICK w \in WorkState : work' = [work EXCEPT ![s] = w]
  BY DEF Begin, Speak, WorkState, Spoken, Shaped
<1>3. TypeOK'
  BY <1>1, <1>2 DEF StreamInv, TypeOK, fixed, WorkState
<1>4. PoolMissing' = PoolMissing /\ Size' = Size
  BY <1>1 DEF fixed, PoolMissing, NeedsPool, Size
<1>5. ~PoolMissing
  BY DEF Begin, Speak, StreamInv, GivenUp
<1>6. Cuts /\ TypeOK
  BY <1>5 DEF StreamInv
<1>6a. Begun \in Nat /\ \A t \in Sentence : t \in Nat
  BY <1>6, Lengths DEF Begun, Given, Sentence
<1>7. work[s] \notin Spoken /\ s <= Begun
  <2>1. CASE Begin(s)
    <3>1. PICK i \in DOMAIN group : group[i] = s
      BY <2>1 DEF Begin
    <3>2. i \in 1..Len(group) /\ s = Given + i
      BY <1>6, <3>1 DEF Cuts, TypeOK
    <3>3. s <= Begun
      BY <1>6, <3>2, Lengths DEF Begun, Given
    <3> QED BY <2>1, <3>3 DEF Begin, Spoken
  <2>2. CASE Speak(s)
    <3>1. work[s] = "speaking"
      BY <2>2 DEF Speak
    <3>2. ~(s > Begun)
      BY <1>6, <3>1 DEF Cuts
    <3> QED BY <1>6a, <3>1, <3>2 DEF Spoken
  <2> QED BY <2>1, <2>2
<1>8. \A t \in Sentence : work'[t] = IF t = s THEN w ELSE work[t]
  BY <1>2, <1>6 DEF TypeOK
<1>9. Begun' = Begun /\ Given' = Given
  BY <1>1 DEF Begun, Given
<1>10. \A t \in Sentence : work[t] \in Spoken => t # s /\ work'[t] = work[t]
  BY <1>7, <1>8
<1>11. /\ \A i \in 1..Len(received) : i \in Sentence
       /\ \A i \in 1..Len(buffered) : Len(received) + i \in Sentence
  BY <1>6, Lengths DEF Cuts, Begun, Given, Sentence
<1>12. \A i \in 1..Len(received) : received'[i] = Outcome(i)' /\ work'[i] \in Spoken
  BY <1>1, <1>6, <1>10, <1>11 DEF Cuts, Outcome
<1>13. \A i \in 1..Len(buffered) : /\ buffered'[i] = Outcome(Len(received) + i)'
                                   /\ work'[Len(received) + i] \in Spoken
  BY <1>1, <1>6, <1>10, <1>11 DEF Cuts, Outcome
<1>14. ASSUME NEW t \in Sentence, t > Begun PROVE work'[t] = "waiting"
  <2>1. t # s
    BY <1>6a, <1>7, <1>14
  <2>2. work[t] = "waiting"
    BY <1>6, <1>14 DEF Cuts
  <2> QED BY <1>8, <2>1, <2>2
<1>15. Cuts'
  BY <1>1, <1>4, <1>6, <1>9, <1>12, <1>13, <1>14 DEF Cuts
<1> QED BY <1>3, <1>4, <1>5, <1>15 DEF StreamInv

(* The group becomes the buffer.                                           *)
LEMMA Collecting == ASSUME StreamInv, Collect PROVE StreamInv'
<1>1. PoolMissing' = PoolMissing /\ Size' = Size /\ ~PoolMissing
  BY DEF Collect, StreamInv, GivenUp, fixed, PoolMissing, NeedsPool, Size
<1>2. Cuts /\ TypeOK
  BY <1>1 DEF StreamInv
<1>3. buffered = << >> /\ Len(buffered) = 0
  BY <1>2 DEF Collect, Cuts
<1>4. /\ UNCHANGED <<pending, received, work, fixed>>
      /\ group' = << >> /\ Len(group') = 0
      /\ reader' \in {"idle", "taking"}
  BY DEF Collect
<1>5. /\ Len(buffered') = Len(group)
      /\ \A i \in 1..Len(group) : buffered'[i] = Outcome(group[i])
      /\ \A i \in 1..Len(group) : group[i] \in Sentence /\ work[group[i]] \in Spoken
  <2>1. DOMAIN group = 1..Len(group) /\ Len(group) \in Nat
    BY <1>2 DEF TypeOK
  <2>2. buffered' = [i \in 1..Len(group) |-> Outcome(group[i])]
    BY <2>1 DEF Collect, Collected, Outcome
  <2>3. \A i \in 1..Len(group) : work[group[i]] \in Spoken
    BY <2>1 DEF Collect
  <2> QED BY <1>2, <2>1, <2>2, <2>3 DEF TypeOK
<1>6. buffered' \in Seq(Item)
  <2>1. \A i \in 1..Len(group) : Outcome(group[i]) \in Item
    BY <1>5 DEF Outcome, Item, ItemKind, Spoken, Sentence
  <2>2. buffered' = [i \in 1..Len(group) |-> Outcome(group[i])] /\ Len(group) \in Nat
    BY <1>2 DEF Collect, Collected, Outcome, TypeOK
  <2> QED BY <2>1, <2>2
<1>7. TypeOK'
  BY <1>2, <1>4, <1>6 DEF TypeOK, fixed
<1>8. Begun' = Begun /\ Given = Len(received)
  BY <1>2, <1>3, <1>4, <1>5, Lengths DEF Begun, Given
<1>9. \A i \in 1..Len(buffered') : /\ buffered'[i] = Outcome(Len(received) + i)'
                                  /\ work[Len(received) + i] \in Spoken
  BY <1>2, <1>4, <1>5, <1>8 DEF Cuts, Outcome
<1>10. \A i \in 1..Len(received) : received'[i] = Outcome(i)'
  BY <1>2, <1>4 DEF Cuts, Outcome
<1>11. /\ Begun' + Len(pending') = Sentences
       /\ Len(buffered') + Len(group') <= Size'
       /\ \A i \in 1..Len(pending') : pending'[i] = Begun' + i
  BY <1>1, <1>2, <1>3, <1>4, <1>5, <1>8, Lengths DEF Cuts
<1>12. Cuts'
  BY <1>2, <1>4, <1>8, <1>9, <1>10, <1>11 DEF Cuts
<1> QED BY <1>1, <1>7, <1>12 DEF StreamInv

(* A group is cut off the pending sentences.                               *)
LEMMA Computing ==
  ASSUME StreamInv, ComputeGroup \/ NewParallel
  PROVE  StreamInv'
<1>1. /\ UNCHANGED <<fixed, work, buffered, received>>
      /\ TakeGroup /\ reader' = "computing" /\ ~PoolMissing
      /\ reader \in {"idle", "constructing"}
  BY DEF ComputeGroup, NewParallel, Ask
<1>2. PoolMissing' = PoolMissing /\ Size' = Size
  BY <1>1 DEF fixed, PoolMissing, NeedsPool, Size
<1>3. Cuts /\ TypeOK
  BY <1>1 DEF StreamInv
<1>4. buffered = << >> /\ group = << >> /\ Len(buffered) = 0 /\ Len(group) = 0
  BY <1>1, <1>3 DEF Cuts, ComputeGroup, NewParallel, Ask
<1>5. /\ group' \in Seq(Sentence) /\ pending' \in Seq(Sentence)
      /\ Len(group') + Len(pending') = Len(pending)
      /\ Len(group') <= Size
      /\ \A i \in 1..Len(group') : group'[i] = pending[i]
      /\ \A i \in 1..Len(pending') : pending'[i] = pending[Len(group') + i]
  BY <1>1, <1>3, TakingCuts
<1>6. TypeOK'
  BY <1>1, <1>3, <1>5 DEF TypeOK, fixed
<1>7. Len(group') \in Nat /\ Len(pending') \in Nat
  BY <1>5
<1>8. /\ Given' = Given /\ Begun = Given /\ Begun' = Begun + Len(group')
      /\ Begun \in Nat
  BY <1>1, <1>3, <1>4, <1>7, Lengths DEF Begun, Given
<1>9. Begun + Len(pending) = Sentences /\ \A i \in 1..Len(pending) : pending[i] = Begun + i
  BY <1>3 DEF Cuts
<1>10. Begun' + Len(pending') = Sentences /\ Len(buffered') + Len(group') <= Size
  <2>1. Len(pending) \in Nat /\ Size \in Nat /\ Sentences \in Nat
    BY <1>3, Lengths
  <2>2. Begun' + Len(pending') = Sentences
    BY <1>5, <1>7, <1>8, <1>9, <2>1
  <2>3. Len(buffered') = 0
    BY <1>1, <1>4
  <2> QED BY <1>5, <1>7, <2>1, <2>2, <2>3
<1>11. \A i \in 1..Len(group') : group'[i] = Given + i
  <2> TAKE i \in 1..Len(group')
  <2>1. i \in 1..Len(pending)
    BY <1>3, <1>5, <1>7, Lengths
  <2> QED BY <1>5, <1>8, <1>9, <2>1
<1>12. \A i \in 1..Len(pending') : pending'[i] = Begun' + i
  <2> TAKE i \in 1..Len(pending')
  <2>1. Len(group') + i \in 1..Len(pending)
    BY <1>3, <1>5, <1>7, Lengths
  <2>2. pending'[i] = Begun + (Len(group') + i)
    BY <1>5, <1>9, <2>1
  <2> QED BY <1>7, <1>8, <2>2
<1>13. \A s \in Sentence : s > Begun' => work'[s] = "waiting"
  <2> TAKE s \in Sentence
  <2>1. s > Begun' => s > Begun
    BY <1>7, <1>8, SentencesAssumption DEF Sentence
  <2> QED BY <1>1, <1>3, <2>1 DEF Cuts
<1>14. Cuts'
  BY <1>1, <1>2, <1>3, <1>4, <1>8, <1>10, <1>11, <1>12, <1>13 DEF Cuts, Outcome
<1> QED BY <1>1, <1>2, <1>6, <1>14 DEF StreamInv

(* The first buffered item goes to the reader.                             *)
LEMMA HandingOut == ASSUME StreamInv, HandOut PROVE StreamInv'
<1>1. /\ UNCHANGED <<fixed, pending, group, work>>
      /\ buffered # << >> /\ reader \in {"idle", "taking"} /\ reader' = "idle"
      /\ received' = Append(received, Head(buffered)) /\ buffered' = Tail(buffered)
  BY DEF HandOut
<1>2. TypeOK
  BY DEF StreamInv
<1>3. /\ Len(buffered) > 0
      /\ Len(buffered') = Len(buffered) - 1
      /\ Len(received') = Len(received) + 1
      /\ \A i \in 1..Len(received) : received'[i] = received[i]
      /\ received'[Len(received) + 1] = buffered[1]
      /\ \A i \in 1..(Len(buffered) - 1) : buffered'[i] = buffered[i + 1]
  BY <1>1, <1>2 DEF TypeOK
<1>4. TypeOK'
  <2>1. Head(buffered) \in Item /\ Tail(buffered) \in Seq(Item)
    BY <1>1, <1>2 DEF TypeOK
  <2>2. received' \in Seq(Item)
    BY <1>1, <1>2, <2>1 DEF TypeOK
  <2> QED BY <1>1, <1>2, <2>1, <2>2 DEF TypeOK, fixed
<1>5. PoolMissing' = PoolMissing /\ Size' = Size
  BY <1>1 DEF fixed, PoolMissing, NeedsPool, Size
<1>6. CASE PoolMissing
  <2>1. GivenUp
    BY <1>6 DEF StreamInv
  <2>2. \A i \in 1..Len(received') : received'[i] = PoolError
    BY <1>2, <1>3, <2>1, Lengths DEF GivenUp
  <2>3. \A i \in 1..Len(buffered') : buffered'[i] = PoolError
    BY <1>2, <1>3, <2>1, Lengths DEF GivenUp
  <2>4. GivenUp'
    BY <1>1, <2>1, <2>2, <2>3 DEF GivenUp, PoolError
  <2> QED BY <1>4, <1>5, <1>6, <2>4 DEF StreamInv
<1>7. CASE ~PoolMissing
  <2>1. Cuts
    BY <1>7 DEF StreamInv
  <2>2. Given' = Given /\ Begun' = Begun
    BY <1>1, <1>2, <1>3, Lengths DEF Given, Begun
  <2>3. \A i \in 1..Len(received') : received'[i] = Outcome(i)' /\ work'[i] \in Spoken
    <3> TAKE i \in 1..Len(received')
    <3>1. CASE i \in 1..Len(received)
      BY <1>1, <1>3, <2>1, <3>1 DEF Cuts, Outcome
    <3>2. CASE i = Len(received) + 1
      <4>1. 1 \in 1..Len(buffered)
        BY <1>2, <1>3, Lengths
      <4> QED BY <1>1, <1>3, <2>1, <3>2, <4>1 DEF Cuts, Outcome
    <3> QED BY <1>2, <1>3, <3>1, <3>2, Lengths
  <2>4. \A i \in 1..Len(buffered') : /\ buffered'[i] = Outcome(Len(received) + i)'
                                    /\ work'[Len(received') + i] \in Spoken
    <3> TAKE i \in 1..Len(buffered')
    <3>1. /\ i + 1 \in 1..Len(buffered) /\ i \in 1..(Len(buffered) - 1)
          /\ Len(received') + i = Len(received) + (i + 1)
      BY <1>2, <1>3, Lengths
    <3>2. /\ buffered[i + 1] = Outcome(Len(received) + (i + 1))
          /\ work[Len(received) + (i + 1)] \in Spoken
      BY <2>1, <3>1 DEF Cuts
    <3>3. buffered'[i] = buffered[i + 1]
      BY <1>3, <3>1
    <3> QED BY <1>1, <3>1, <3>2, <3>3 DEF Outcome
  <2>5. Len(buffered') + Len(group') <= Size
    <3>1. Len(buffered) + Len(group) <= Size
      BY <2>1 DEF Cuts
    <3> QED BY <1>1, <1>2, <1>3, <3>1, Lengths
  <2>6. Cuts'
    BY <1>1, <1>5, <2>1, <2>2, <2>3, <2>4, <2>5 DEF Cuts
  <2> QED BY <1>4, <1>5, <1>7, <2>6 DEF StreamInv
<1> QED BY <1>6, <1>7

(* Without a pool the reader is owed one error.                            *)
LEMMA GivingUp == ASSUME StreamInv, PoolFails PROVE StreamInv'
<1>1. /\ UNCHANGED <<fixed, group, work, received>>
      /\ pending' = << >> /\ buffered' = <<PoolError>> /\ reader' = "taking"
      /\ PoolMissing
  BY DEF PoolFails
<1>2. PoolMissing' = PoolMissing
  BY <1>1 DEF fixed, PoolMissing, NeedsPool
<1>3. PoolError \in Item
  BY SentencesAssumption DEF PoolError, Item, ItemKind
<1>4. TypeOK'
  BY <1>1, <1>3 DEF StreamInv, TypeOK, fixed
<1>5. \A i \in 1..Len(buffered') : buffered'[i] = PoolError
  BY <1>1
<1>6. GivenUp'
  BY <1>1, <1>5 DEF StreamInv, GivenUp, PoolError
<1> QED BY <1>1, <1>2, <1>4, <1>6 DEF StreamInv

LEMMA NextStreamInv == StreamInv /\ [Next]_vars => StreamInv'
<1> SUFFICES ASSUME StreamInv, [Next]_vars PROVE StreamInv'
  OBVIOUS
<1>1. CASE Refuse \/ NewOnDemand \/ NoMore \/ DropStream \/ PanicSurfaces
  BY <1>1, ReaderMoves DEF Refuse, NewOnDemand, NoMore, DropStream, PanicSurfaces, Gone
<1>2. CASE UNCHANGED vars
  <2>1. PoolMissing' = PoolMissing /\ Size' = Size
    BY <1>2 DEF vars, fixed, PoolMissing, NeedsPool, Size
  <2>2. TypeOK' = TypeOK /\ Cuts' = Cuts /\ GivenUp' = GivenUp
    BY <1>2, <2>1 DEF vars, fixed, TypeOK, Cuts, Begun, Given, Outcome, GivenUp, PoolError
  <2> QED BY <2>1, <2>2 DEF StreamInv
<1> QED
  BY <1>1, <1>2, WorkMoves, Collecting, Computing, HandingOut, GivingUp
  DEF Next, Construct, Compute, CallNext

LEMMA StreamInvariant == Spec => []StreamInv
  BY InitStreamInv, NextStreamInv, PTL DEF Spec

-----------------------------------------------------------------------------
(* The theorems.                                                           *)

(* Every state of the streams is well typed, whatever the sizes.           *)
THEOREM TypeCorrect == Spec => []TypeOK
<1>1. StreamInv => TypeOK
  BY DEF StreamInv
<1> QED BY <1>1, StreamInvariant, PTL

(* OutcomesInPlace: the par_iter of a group may speak its sentences in any *)
(* order and on any thread; collecting puts the outcome of sentence i, or  *)
(* its own error, in place i of what next() returns.                       *)
THEOREM OutcomesStayInPlace == Spec => []OutcomesInPlace
<1>1. StreamInv => OutcomesInPlace
  <2> SUFFICES ASSUME StreamInv, NEW i \in DOMAIN received, received[i] # PoolError
               PROVE  received[i].sentence = i /\ received[i].kind = work[i]
    BY DEF OutcomesInPlace
  <2>1. i \in 1..Len(received)
    BY DEF StreamInv, TypeOK
  <2>2. ~PoolMissing
    BY <2>1 DEF StreamInv, GivenUp
  <2>3. received[i] = Outcome(i)
    BY <2>1, <2>2 DEF StreamInv, Cuts
  <2> QED BY <2>3 DEF Outcome
<1> QED BY <1>1, StreamInvariant, PTL

(* OneGroupAhead: however the pool schedules, no sentence is begun more    *)
(* than one group ahead of what the reader has.                            *)
THEOREM NeverMoreThanOneGroupAhead == Spec => []OneGroupAhead
<1>1. StreamInv => OneGroupAhead
  <2> SUFFICES ASSUME StreamInv PROVE OneGroupAhead
    OBVIOUS
  <2> DEFINE Touched == {s \in Sentence : work[s] # "waiting"}
  <2>1. TypeOK /\ Begun \in Nat
    BY Lengths DEF StreamInv, Begun, Given
  <2>2. CASE PoolMissing
    <3>1. Touched = {}
      BY <2>2 DEF StreamInv, GivenUp
    <3>2. Cardinality(Touched) = 0
      BY <3>1, FS_EmptySet
    <3> QED BY <2>1, <3>2, Lengths DEF OneGroupAhead
  <2>3. CASE ~PoolMissing
    <3>1. Cuts
      BY <2>3 DEF StreamInv
    <3>2. Touched \subseteq 1..Begun
      BY <2>1, <3>1, SentencesAssumption DEF Cuts, Sentence
    <3>3. IsFiniteSet(1..Begun) /\ Cardinality(1..Begun) = Begun
      BY <2>1, FS_Interval
    <3>4. Cardinality(Touched) <= Begun /\ Cardinality(Touched) \in Nat
      BY <3>2, <3>3, FS_Subset, FS_CardinalityType
    <3>5. Begun <= Len(received) + Size
      BY <2>1, <3>1, Lengths DEF Cuts, Begun, Given
    <3>6. Cardinality(Touched) <= Len(received) + Size
      BY <2>1, <3>4, <3>5, Lengths
    <3> QED BY <3>6 DEF OneGroupAhead
  <2> QED BY <2>2, <2>3
<1> QED BY <1>1, StreamInvariant, PTL

-----------------------------------------------------------------------------
(* The abstract stream.                                                    *)

Owed == received \o buffered
Failed == PoolError \in {Owed[i] : i \in DOMAIN Owed}
Source == IF Failed THEN "failed"
          ELSE IF pending = << >> /\ group = << >> THEN "completed"
          ELSE "open"
Reading == IF reader \in Gone THEN "dropped"
           ELSE IF reader = "ended" THEN "ended" ELSE "reading"

(* Two sequences of items, one after the other.                            *)
LEMMA Joined ==
  ASSUME NEW S, NEW r \in Seq(S), NEW b \in Seq(S)
  PROVE  /\ r \o b \in Seq(S) /\ Len(r \o b) = Len(r) + Len(b)
         /\ DOMAIN (r \o b) = 1..Len(r \o b)
         /\ SubSeq(r \o b, 1, Len(r)) = r
  OBVIOUS

(* A sequence of a set is one of any other set that has its elements.      *)
LEMMA Refined ==
  ASSUME NEW S, NEW T, NEW r \in Seq(S), \A i \in 1..Len(r) : r[i] \in T
  PROVE  r \in Seq(T)
<1>1. Len(r) \in Nat /\ r = [i \in 1..Len(r) |-> r[i]]
  OBVIOUS
<1> QED BY <1>1

(* The items that report no failure of the stream.                         *)
Good == Item \ {PoolError}

LEMMA GoodOnly ==
  ASSUME NEW r \in Seq(Good), NEW b \in Seq(Good)
  PROVE  PoolError \notin {(r \o b)[i] : i \in DOMAIN (r \o b)}
  BY Joined DEF Good

LEMMA OutcomeIsGood ==
  ASSUME NEW i \in Nat, i \in Sentence, work[i] \in Spoken
  PROVE  Outcome(i) \in Good
  BY DEF Outcome, Good, Item, ItemKind, Spoken, Sentence, PoolError

(* As long as there is a pool, every item is the outcome of a sentence.    *)
LEMMA NoPoolError ==
  ASSUME StreamInv, ~PoolMissing
  PROVE  received \in Seq(Good) /\ buffered \in Seq(Good) /\ ~Failed
<1>1. TypeOK /\ Cuts
  BY DEF StreamInv
<1>2. ASSUME NEW i \in 1..Len(received) PROVE received[i] \in Good
  <2>1. i \in Sentence /\ i \in Nat
    BY <1>1, Lengths DEF Cuts, Begun, Given, Sentence
  <2>2. received[i] = Outcome(i) /\ work[i] \in Spoken
    BY <1>1 DEF Cuts
  <2> QED BY <2>1, <2>2, OutcomeIsGood
<1>3. ASSUME NEW i \in 1..Len(buffered) PROVE buffered[i] \in Good
  <2>1. Len(received) + i \in Sentence /\ Len(received) + i \in Nat
    BY <1>1, Lengths DEF Cuts, Begun, Given, Sentence
  <2>2. buffered[i] = Outcome(Len(received) + i) /\ work[Len(received) + i] \in Spoken
    BY <1>1 DEF Cuts
  <2> QED BY <2>1, <2>2, OutcomeIsGood
<1>4. received \in Seq(Good) /\ buffered \in Seq(Good)
  BY <1>1, <1>2, <1>3, Refined DEF TypeOK
<1> QED BY <1>4, GoodOnly DEF Failed, Owed

(* What the abstract stream sees of a step.                                *)
LEMMA PromiseInit == Init => Promise!Init
<1> SUFFICES ASSUME Init PROVE Promise!Init
  OBVIOUS
<1>1. /\ received = << >> /\ received \o buffered = << >>
      /\ reader = "constructing" /\ DOMAIN (received \o buffered) = {}
  BY DEF Init
<1>2. ~(PoolError \in {(received \o buffered)[i] : i \in DOMAIN (received \o buffered)})
  BY <1>1
<1> QED BY <1>1, <1>2 DEF Promise!Init, Gone

(* A step that neither side of the abstract stream sees.                   *)
LEMMA PromiseStutter ==
  ASSUME Owed' = Owed, received' = received, Source' = Source, Reading' = Reading
  PROVE  UNCHANGED Promise!vars
  BY DEF Promise!vars, Owed, Failed, Source, Reading

LEMMA PromiseDrop ==
  ASSUME UNCHANGED <<pending, group, buffered, received>>,
         Reading = "reading", Reading' = "dropped"
  PROVE  Promise!Next
<1>1. Owed' = Owed /\ Source' = Source
  BY DEF Owed, Failed, Source
<1>2. Promise!Drop
  BY <1>1 DEF Promise!Drop, Owed, Failed, Source, Reading
<1> QED BY <1>2 DEF Promise!Next

(* Taking a group leaves as much to be said as there was.                  *)
LEMMA PromiseTaking ==
  ASSUME StreamInv, ComputeGroup \/ NewParallel
  PROVE  UNCHANGED Promise!vars
<1>1. /\ UNCHANGED <<buffered, received>> /\ TakeGroup /\ ~PoolMissing
      /\ reader \in {"idle", "constructing"} /\ reader' = "computing"
  BY DEF ComputeGroup, NewParallel, Ask
<1>2. TypeOK /\ group = << >>
  BY <1>1 DEF StreamInv, Cuts
<1>3. /\ group' \in Seq(Sentence) /\ pending' \in Seq(Sentence)
      /\ Len(group') + Len(pending') = Len(pending)
  BY <1>1, <1>2, TakingCuts
<1>4. (pending' = << >> /\ group' = << >>) = (pending = << >>)
  <2>1. pending \in Seq(Sentence)
    BY <1>2 DEF TypeOK
  <2>2. /\ pending = << >> <=> Len(pending) = 0
        /\ pending' = << >> <=> Len(pending') = 0
        /\ group' = << >> <=> Len(group') = 0
        /\ Len(pending) \in Nat /\ Len(pending') \in Nat /\ Len(group') \in Nat
    BY <1>3, <2>1
  <2> QED BY <1>3, <2>2
<1>5. Owed' = Owed /\ Source' = Source
  BY <1>1, <1>2, <1>4 DEF Owed, Failed, Source
<1> QED BY <1>1, <1>5, PromiseStutter DEF Reading, Gone

(* Collecting owes the reader the outcomes of the group, all of them items *)
(* that report no failure of the stream.                                   *)
LEMMA PromiseCollecting ==
  ASSUME StreamInv, Collect
  PROVE  Promise!Next \/ UNCHANGED Promise!vars
<1>1. /\ UNCHANGED <<pending, received>> /\ reader = "computing"
      /\ reader' \in {"idle", "taking"} /\ group' = << >> /\ buffered' = Collected
  BY DEF Collect
<1>2. TypeOK /\ Cuts /\ ~PoolMissing /\ buffered = << >>
  BY <1>1 DEF StreamInv, GivenUp, Cuts
<1>3. /\ Len(buffered') = Len(group) /\ Len(group) \in Nat
      /\ buffered' \in Seq(Good) /\ received \in Seq(Good)
  <2>1. DOMAIN group = 1..Len(group) /\ Len(group) \in Nat
    BY <1>2 DEF TypeOK
  <2>2. buffered' = [i \in 1..Len(group) |-> Outcome(group[i])]
    BY <1>1, <2>1 DEF Collected, Outcome
  <2>3. ASSUME NEW i \in 1..Len(group) PROVE Outcome(group[i]) \in Good
    <3>1. group[i] \in Sentence
      BY <1>2 DEF TypeOK
    <3>2. group[i] \in Nat
      BY <3>1, SentencesAssumption DEF Sentence
    <3>3. work[group[i]] \in Spoken
      BY <2>1 DEF Collect
    <3> QED BY <3>1, <3>2, <3>3, OutcomeIsGood
  <2> QED BY <1>2, <2>1, <2>2, <2>3, NoPoolError
<1>4. ~Failed /\ ~Failed'
  <2>1. PoolError \notin {(received \o buffered')[i] : i \in DOMAIN (received \o buffered')}
    BY <1>3, GoodOnly
  <2> QED BY <1>1, <1>2, <2>1, NoPoolError DEF Failed, Owed
<1>5. Owed = received /\ Owed' = received \o buffered'
  BY <1>1, <1>2 DEF Owed, TypeOK
<1>6. CASE group = << >>
  <2>1. buffered' = << >>
    BY <1>1, <1>6 DEF Collected
  <2>2. Owed' = Owed
    BY <1>3, <1>5, <2>1
  <2>3. Source' = Source
    BY <1>1, <1>4, <1>6 DEF Source
  <2>4. Reading' = Reading
    BY <1>1 DEF Reading, Gone
  <2> QED BY <1>1, <2>2, <2>3, <2>4, PromiseStutter
<1>7. CASE group # << >>
  <2>1. Len(buffered') > 0 /\ Len(received) \in Nat
    BY <1>2, <1>3, <1>7 DEF TypeOK
  <2>2. /\ Owed' \in Seq(Good) /\ Len(Owed') = Len(received) + Len(buffered')
        /\ SubSeq(Owed', 1, Len(received)) = received
    BY <1>3, <1>5, Joined
  <2>3. Len(Owed') > Len(Owed) /\ SubSeq(Owed', 1, Len(Owed)) = Owed
    BY <1>3, <1>5, <2>1, <2>2
  <2>4. \A i \in (Len(Owed) + 1)..Len(Owed') : Owed'[i] \in Item \ {PoolError}
    BY <1>3, <1>5, <2>1, <2>2 DEF Good
  <2>5. Source = "open" /\ Source' \in {"open", "completed"}
    BY <1>4, <1>7 DEF Source
  <2>6. Reading = "reading" /\ Reading' = "reading"
    BY <1>1 DEF Reading, Gone
  <2>7. Promise!Produce
    BY <1>1, <2>3, <2>4, <2>5, <2>6 DEF Promise!Produce, Owed, Failed, Source, Reading
  <2> QED BY <2>7 DEF Promise!Next
<1> QED BY <1>6, <1>7

(* Handing out delivers the next item that is owed.                        *)
LEMMA PromiseHandingOut == ASSUME StreamInv, HandOut PROVE Promise!Next
<1>1. /\ UNCHANGED <<pending, group>> /\ buffered # << >>
      /\ reader \in {"idle", "taking"} /\ reader' = "idle"
      /\ received' = Append(received, Head(buffered)) /\ buffered' = Tail(buffered)
  BY DEF HandOut
<1>2. received \in Seq(Item) /\ buffered \in Seq(Item)
  BY DEF StreamInv, TypeOK
<1>3. Len(received) < Len(Owed) /\ Owed[Len(received) + 1] = Head(buffered)
  BY <1>1, <1>2 DEF Owed
<1>4. Owed' = Owed
  BY <1>1, <1>2 DEF Owed
<1>5. Source' = Source /\ Reading = "reading" /\ Reading' = "reading"
  BY <1>1, <1>4 DEF Source, Failed, PoolError, Reading, Gone
<1>6. Promise!Deliver
  BY <1>1, <1>3, <1>4, <1>5 DEF Promise!Deliver, Owed, Failed, Source, Reading
<1> QED BY <1>6 DEF Promise!Next

(* A missing pool is told with one item, the last one.                     *)
LEMMA PromiseGivingUp == ASSUME StreamInv, PoolFails PROVE Promise!Next
<1>1. /\ UNCHANGED received /\ PoolMissing /\ pending # << >>
      /\ pending' = << >> /\ buffered' = <<PoolError>>
      /\ reader = "idle" /\ reader' = "taking"
  BY DEF PoolFails, Ask
<1>2. received = << >> /\ buffered = << >>
  BY <1>1 DEF StreamInv, GivenUp
<1>3. Owed = << >> /\ Owed' = <<PoolError>>
  BY <1>1, <1>2 DEF Owed
<1>4. ~Failed /\ Failed'
  BY <1>3 DEF Failed, PoolError
<1>5. Source = "open" /\ Source' = "failed" /\ Reading = "reading" /\ Reading' = "reading"
  BY <1>1, <1>4 DEF Source, Reading, Gone
<1>6. Owed' = Append(Owed, PoolError)
  BY <1>3
<1>7. Promise!Fail
  BY <1>1, <1>5, <1>6 DEF Promise!Fail, Owed, Failed, Source, Reading
<1> QED BY <1>7 DEF Promise!Next

(* The end comes when everything that is owed was handed out.              *)
LEMMA PromiseEnding == ASSUME StreamInv, NoMore PROVE Promise!Next
<1>1. /\ UNCHANGED <<pending, group, buffered, received>>
      /\ reader = "idle" /\ reader' = "ended" /\ buffered = << >> /\ pending = << >>
  BY DEF NoMore
<1>2. group = << >>
  BY <1>1 DEF StreamInv, Cuts, GivenUp
<1>3. Owed = received /\ Owed' = Owed
  BY <1>1 DEF StreamInv, TypeOK, Owed
<1>4. Source \in {"completed", "failed"} /\ Source' = Source
  BY <1>1, <1>2, <1>3 DEF Source, Failed, PoolError
<1>5. Reading = "reading" /\ Reading' = "ended"
  BY <1>1 DEF Reading, Gone
<1>6. Promise!End
  BY <1>1, <1>3, <1>4, <1>5 DEF Promise!End, Owed, Failed, Source, Reading
<1> QED BY <1>6 DEF Promise!Next

LEMMA PromiseStep == StreamInv /\ [Next]_vars => [Promise!Next]_(Promise!vars)
<1> SUFFICES ASSUME StreamInv, [Next]_vars
             PROVE  Promise!Next \/ UNCHANGED Promise!vars
  OBVIOUS
<1>1. CASE (\E s \in Sentence : Begin(s) \/ Speak(s)) \/ NewOnDemand \/ UNCHANGED vars
  <2>1. UNCHANGED <<pending, group, buffered, received>>
    BY <1>1 DEF Begin, Speak, NewOnDemand, vars
  <2>2. Reading' = Reading
    BY <1>1 DEF Begin, Speak, NewOnDemand, vars, Reading, Gone
  <2>3. Owed' = Owed /\ Source' = Source
    BY <2>1 DEF Owed, Failed, Source
  <2> QED BY <2>1, <2>2, <2>3, PromiseStutter
<1>2. CASE Refuse \/ PanicSurfaces \/ DropStream
  <2>1. UNCHANGED <<pending, group, buffered, received>>
    BY <1>2 DEF Refuse, PanicSurfaces, DropStream
  <2>2. Reading = "reading" /\ Reading' = "dropped"
    BY <1>2 DEF Refuse, PanicSurfaces, DropStream, Reading, Gone
  <2> QED BY <2>1, <2>2, PromiseDrop
<1> QED
  BY <1>1, <1>2, PromiseTaking, PromiseCollecting, PromiseHandingOut, PromiseGivingUp,
     PromiseEnding DEF Next, Construct, Compute, CallNext

(* ImplementsSpeechStream: the lazy, batched and parallel streams keep the *)
(* promises every stream of the crate makes, also without a thread pool.   *)
THEOREM StreamKeepsPromise == Spec => ImplementsSpeechStream
<1>1. StreamInv /\ [Next]_vars => [Promise!Next]_(Promise!vars)
  BY PromiseStep
<1> QED
  BY <1>1, PromiseInit, StreamInvariant, PTL DEF Spec, ImplementsSpeechStream, Promise!Spec
=============================================================================
