------------------------ MODULE RealtimeStreamProofs ------------------------
(***************************************************************************)
(* Theorems about RealtimeStream for any number of sentences and chunks.   *)
(* TypeInv, LateInv and WastedInv are about the counters; OrderInv and     *)
(* CompleteInv about all that was ever sent; together they give the step   *)
(* simulation of SpeechStream.                                             *)
(***************************************************************************)
EXTENDS RealtimeStream, TLAPS

(* Types alone are not inductive: an item is an Item because the job works *)
(* on a sentence of the text and a chunk in hand has been counted.         *)
TypeInv ==
  /\ TypeOK
  /\ producer \notin {"queued", "sentence"} \cup Stopped => sentence <= Sentences
  /\ producer = "decoding" => chunk < MaxChunks
  /\ producer \in {"gate", "sending"} => chunk >= 1

LEMMA TypeInvInit == Init => TypeInv
<1> SUFFICES ASSUME Init PROVE TypeInv
  OBVIOUS
<1>1. channel \in Seq(Item) /\ received \in Seq(Item)
  BY DEF Init
<1>2. yielded \in [1..Sentences -> 0..MaxChunks]
  BY MaxChunksAssumption DEF Init
<1>3. /\ producer = "queued" /\ sentence = 1 /\ chunk = 0 /\ held = "audio"
      /\ reader = "idle" /\ cancelled = FALSE /\ late = 0 /\ wasted = 0
  BY DEF Init
<1>4. sentence \in 1..(Sentences + 1) /\ chunk \in 0..MaxChunks
  BY <1>3, SentencesAssumption, MaxChunksAssumption
<1>5. TypeOK
  BY <1>1, <1>2, <1>3, <1>4 DEF TypeOK, Producer, Stopped
<1>6. QED
  BY <1>3, <1>5 DEF TypeInv, Stopped

LEMMA MkItemType ==
  ASSUME TypeOK, sentence <= Sentences,
         NEW i \in 1..(MaxChunks + 1), NEW k \in ItemKind
  PROVE  MkItem(i, k) \in Item
  BY SentencesAssumption, MaxChunksAssumption DEF TypeOK, MkItem, Item

LEMMA TypeInvInductive == TypeInv /\ [Next]_vars => TypeInv'
<1> SUFFICES ASSUME TypeInv, [Next]_vars PROVE TypeInv'
  OBVIOUS
<1> USE SentencesAssumption, MaxChunksAssumption
<1>1. CASE StartJob \/ TakeSentence \/ OpenStream \/ StreamEnds \/ StreamDecodes
  BY <1>1 DEF TypeInv, TypeOK, StartJob, TakeSentence, OpenStream, StreamEnds,
    StreamDecodes, historyVars, Producer, Stopped
<1>2. CASE StreamYields
  BY <1>2 DEF TypeInv, TypeOK, StreamYields, Producer, Stopped
<1>3. CASE CheckChunk
  BY <1>3 DEF TypeInv, TypeOK, CheckChunk, NextSentence, SameSentence,
    historyVars, Producer, Stopped
<1>4. CASE FinishSentence
  BY <1>4 DEF TypeInv, TypeOK, FinishSentence, NextSentence, SameSentence,
    historyVars, Producer, Stopped
<1>5. CASE OpenStreamFails
  <2>1. MkItem(1, "openError") \in Item
    BY <1>5, MkItemType DEF TypeInv, OpenStreamFails, ItemKind, Stopped
  <2>2. QED
    BY <1>5, <2>1 DEF TypeInv, TypeOK, OpenStreamFails, SendUnlessDropped,
      historyVars, Producer, Stopped
<1>6. CASE Panic
  <2>1. MkItem(chunk + 1, "panic") \in Item
    BY <1>6, MkItemType DEF TypeInv, TypeOK, Panic, ItemKind, Stopped
  <2>2. QED
    BY <1>6, <2>1 DEF TypeInv, TypeOK, Panic, SendUnlessDropped,
      historyVars, Producer, Stopped
<1>7. CASE SendChunk
  <2>1. PICK k \in Shaped(held) :
          SendOrStop(MkItem(chunk, k), producer' = "streaming" /\ SameSentence)
    BY <1>7 DEF SendChunk
  <2>2. MkItem(chunk, k) \in Item
    BY <1>7, MkItemType DEF TypeInv, TypeOK, SendChunk, Shaped, ItemKind, Stopped
  <2>3. channel' \in Seq(Item)
    <3>1. CASE reader = "dropped"
      BY <2>1, <3>1 DEF TypeInv, TypeOK, SendOrStop
    <3>2. CASE reader # "dropped"
      <4>1. channel' = Append(channel, MkItem(chunk, k))
        BY <2>1, <3>2 DEF SendOrStop
      <4>2. QED
        BY <2>2, <4>1 DEF TypeInv, TypeOK
    <3>3. QED
      BY <3>1, <3>2
  <2>4. QED
    BY <1>7, <2>1, <2>3 DEF TypeInv, TypeOK, SendChunk, SendOrStop, SameSentence,
      historyVars, Producer, Stopped
<1>8. CASE SendSilence
  <2>1. PICK k \in Silence :
          SendOrStop(MkItem(chunk + 1, k), NextSentence)
    BY <1>8 DEF SendSilence
  <2>2. MkItem(chunk + 1, k) \in Item
    BY <1>8, MkItemType DEF TypeInv, TypeOK, SendSilence, Silence, ItemKind,
      Stopped
  <2>3. channel' \in Seq(Item)
    <3>1. CASE reader = "dropped"
      BY <2>1, <3>1 DEF TypeInv, TypeOK, SendOrStop
    <3>2. CASE reader # "dropped"
      <4>1. channel' = Append(channel, MkItem(chunk + 1, k))
        BY <2>1, <3>2 DEF SendOrStop
      <4>2. QED
        BY <2>2, <4>1 DEF TypeInv, TypeOK
    <3>3. QED
      BY <3>1, <3>2
  <2>4. QED
    BY <1>8, <2>1, <2>3 DEF TypeInv, TypeOK, SendSilence, SendOrStop, SameSentence,
      NextSentence, historyVars, Producer, Stopped
<1>9. CASE CallNext \/ Disconnected \/ DropStream \/ Cancel
  BY <1>9 DEF TypeInv, TypeOK, CallNext, Disconnected, DropStream, Cancel,
    producerVars, historyVars
<1>10. CASE Receive
  <2>1. Head(channel) \in Item /\ Tail(channel) \in Seq(Item)
    BY <1>10 DEF TypeInv, TypeOK, Receive
  <2>2. QED
    BY <1>10, <2>1 DEF TypeInv, TypeOK, Receive, producerVars
<1>11. CASE UNCHANGED vars
  BY <1>11 DEF TypeInv, TypeOK, vars
<1>12. QED
  BY <1>1, <1>2, <1>3, <1>4, <1>5, <1>6, <1>7, <1>8, <1>9, <1>10, <1>11
  DEF Next, Produce, Read

(* Whatever the interleaving, the channel and the reader only ever hold    *)
(* items of the utterance, and all counters stay in their range.           *)
THEOREM TypeCorrect == Spec => []TypeOK
<1>1. TypeInv => TypeOK
  BY DEF TypeInv
<1>2. QED
  BY TypeInvInit, TypeInvInductive, <1>1, PTL DEF Spec

(* A pull that returns after the cancellation had checked the flag before  *)
(* it; the next pull finds the flag set.                                   *)
LateInv ==
  /\ ~cancelled => late = 0
  /\ reader = "receiving" => late = 0
  /\ late <= 1

(* The chunk decoded for a reader that is gone is still on its way to the  *)
(* failing send, or the loop is about to find the flag set.                *)
WastedInv ==
  /\ reader # "dropped" => wasted = 0
  /\ wasted > 0 => \/ producer \in {"decoding", "gate", "sending"} \cup Stopped
                   \/ producer = "sentence" /\ cancelled
  /\ wasted <= 1

LEMMA LateInvariant == Spec => []LateInv
<1>1. Init => LateInv
  BY DEF Init, LateInv
<1>2. ASSUME TypeOK, LateInv, [Next]_vars PROVE LateInv'
  <2>1. CASE Produce
    BY <1>2, <2>1 DEF LateInv, Produce, StartJob, TakeSentence, OpenStream,
      OpenStreamFails, StreamEnds, StreamDecodes, StreamYields, CheckChunk,
      SendChunk, FinishSentence, SendSilence, Panic, historyVars
  <2>2. CASE CallNext
    BY <1>2, <2>2 DEF TypeOK, LateInv, CallNext, historyVars
  <2>3. CASE Receive
    BY <1>2, <2>3 DEF TypeOK, LateInv, Receive
  <2>4. CASE Disconnected
    BY <1>2, <2>4 DEF LateInv, Disconnected, historyVars
  <2>5. CASE DropStream
    BY <1>2, <2>5 DEF LateInv, DropStream, historyVars
  <2>6. CASE Cancel
    BY <1>2, <2>6 DEF TypeOK, LateInv, Cancel, historyVars
  <2>7. CASE UNCHANGED vars
    BY <1>2, <2>7 DEF LateInv, vars
  <2>8. QED
    BY <1>2, <2>1, <2>2, <2>3, <2>4, <2>5, <2>6, <2>7 DEF Next, Read
<1>3. QED
  BY TypeCorrect, <1>1, <1>2, PTL DEF Spec

(* Cancelling hides what is already buffered: at most the pull that was    *)
(* blocked in recv when the flag was set still returns an item.            *)
LEMMA LateItemBound == Spec => []AtMostOneLateItem
<1>1. LateInv => AtMostOneLateItem
  BY DEF LateInv, AtMostOneLateItem
<1>2. QED
  BY LateInvariant, <1>1, PTL

(* Dropping the stream stops synthesis: at most one more chunk is decoded  *)
(* before the failing send ends the producer job.                          *)
LEMMA WastedChunkBound == Spec => []AtMostOneWastedChunk
<1>1. Init => WastedInv
  BY DEF Init, WastedInv
<1>2. ASSUME TypeOK, WastedInv, [Next]_vars PROVE WastedInv'
  <2>1. CASE StartJob \/ TakeSentence \/ OpenStream \/ OpenStreamFails
    BY <1>2, <2>1 DEF TypeOK, WastedInv, StartJob, TakeSentence, OpenStream,
      OpenStreamFails, historyVars, Stopped
  <2>2. CASE StreamEnds \/ StreamDecodes \/ StreamYields
    BY <1>2, <2>2 DEF TypeOK, WastedInv, StreamEnds, StreamDecodes,
      StreamYields, historyVars, Stopped
  <2>3. CASE CheckChunk \/ SendChunk
    BY <1>2, <2>3 DEF TypeOK, WastedInv, CheckChunk, SendChunk, SendOrStop,
      NextSentence, SameSentence, historyVars, Stopped
  <2>4. CASE FinishSentence \/ SendSilence \/ Panic
    BY <1>2, <2>4 DEF TypeOK, WastedInv, FinishSentence, SendSilence,
      SendOrStop, NextSentence, SameSentence, Panic, historyVars, Stopped
  <2>5. CASE Read
    BY <1>2, <2>5 DEF TypeOK, WastedInv, Read, CallNext, Receive,
      Disconnected, producerVars, historyVars
  <2>6. CASE DropStream
    BY <1>2, <2>6 DEF TypeOK, WastedInv, DropStream, producerVars, historyVars
  <2>7. CASE Cancel
    BY <1>2, <2>7 DEF TypeOK, WastedInv, Cancel, producerVars, historyVars
  <2>8. CASE UNCHANGED vars
    BY <1>2, <2>8 DEF WastedInv, vars
  <2>9. QED
    BY <1>2, <2>1, <2>2, <2>3, <2>4, <2>5, <2>6, <2>7, <2>8 DEF Next, Produce
<1>3. WastedInv => AtMostOneWastedChunk
  BY DEF WastedInv, AtMostOneWastedChunk
<1>4. QED
  BY TypeCorrect, <1>1, <1>2, <1>3, PTL DEF Spec

(* After a cancellation the reader gets, and after a drop the producer     *)
(* decodes, at most what was under way.                                    *)
THEOREM WorkStops == Spec => []StopsPromptly
<1>1. AtMostOneLateItem /\ AtMostOneWastedChunk => StopsPromptly
  BY DEF StopsPromptly
<1>2. QED
  BY LateItemBound, WastedChunkBound, <1>1, PTL

-----------------------------------------------------------------------------
(* Everything that was ever sent: what the reader has, then the channel.   *)

Total == Len(received) + Len(channel)
Sent == [n \in 1..Total |-> IF n <= Len(received) THEN received[n]
                            ELSE channel[n - Len(received)]]

LEMMA Lengths ==
  ASSUME TypeOK
  PROVE  Len(received) \in Nat /\ Len(channel) \in Nat /\ Total \in Nat
  BY DEF TypeOK, Total

(* Items that were sent and items that were received stay where they are.  *)
LEMMA SentGrows ==
  ASSUME TypeOK, NEW item \in Item,
         received' = received, channel' = Append(channel, item)
  PROVE  /\ Total' = Total + 1
         /\ \A n \in 1..Total : Sent'[n] = Sent[n]
         /\ Sent'[Total + 1] = item
<1>1. /\ Len(channel') = Len(channel) + 1
      /\ \A n \in 1..Len(channel) : channel'[n] = channel[n]
      /\ channel'[Len(channel) + 1] = item
  BY DEF TypeOK
<1>2. Total' = Total + 1
  BY <1>1, Lengths DEF Total
<1>3. ASSUME NEW n \in 1..Total PROVE Sent'[n] = Sent[n]
  <2>1. n \in 1..Total'
    BY <1>2, Lengths
  <2>2. CASE n <= Len(received)
    BY <2>1, <2>2 DEF Sent
  <2>3. CASE ~(n <= Len(received))
    <3>1. n - Len(received) \in 1..Len(channel)
      BY <2>3, Lengths DEF Total
    <3>2. channel'[n - Len(received)] = channel[n - Len(received)]
      BY <1>1, <3>1
    <3> QED BY <2>1, <2>3, <3>2 DEF Sent
  <2> QED BY <2>2, <2>3
<1>4. Sent'[Total + 1] = item
  <2>1. PICK m \in Nat : m = Total + 1
    BY Lengths
  <2>2. /\ m \in 1..Total' /\ ~(m <= Len(received))
        /\ m - Len(received) = Len(channel) + 1
    BY <1>2, <2>1, Lengths DEF Total
  <2>3. Sent'[m] = channel'[m - Len(received)]
    BY <2>2 DEF Sent
  <2> QED BY <1>1, <2>1, <2>2, <2>3
<1> QED BY <1>2, <1>3, <1>4

LEMMA ReceivingKeepsSent ==
  ASSUME TypeOK, Receive
  PROVE  Total' = Total /\ Sent' = Sent
<1>1. /\ channel # << >> /\ received' = Append(received, Head(channel))
      /\ channel' = Tail(channel)
  BY DEF Receive
<1>2. /\ Len(received') = Len(received) + 1 /\ Len(channel') = Len(channel) - 1
      /\ Len(channel) > 0
      /\ \A n \in 1..Len(received) : received'[n] = received[n]
      /\ received'[Len(received) + 1] = channel[1]
      /\ \A n \in 1..(Len(channel) - 1) : channel'[n] = channel[n + 1]
  BY <1>1 DEF TypeOK
<1>3. Total' = Total
  BY <1>2, Lengths DEF Total
<1>4. ASSUME NEW n \in 1..Total PROVE Sent'[n] = Sent[n]
  <2>1. n \in 1..Total'
    BY <1>3
  <2>2. CASE n <= Len(received)
    <3>1. n <= Len(received') /\ n \in 1..Len(received)
      BY <1>2, <2>2, Lengths
    <3> QED BY <1>2, <2>1, <2>2, <3>1 DEF Sent
  <2>3. CASE n = Len(received) + 1
    <3>1. n <= Len(received') /\ ~(n <= Len(received)) /\ n - Len(received) = 1
      BY <1>2, <2>3, Lengths
    <3> QED BY <1>2, <2>1, <2>3, <3>1 DEF Sent
  <2>4. CASE n > Len(received) + 1
    <3>1. /\ ~(n <= Len(received')) /\ ~(n <= Len(received))
          /\ n - Len(received') \in 1..(Len(channel) - 1)
          /\ (n - Len(received')) + 1 = n - Len(received)
      BY <1>2, <2>4, Lengths DEF Total
    <3>2. channel'[n - Len(received')] = channel[(n - Len(received')) + 1]
      BY <1>2, <3>1
    <3> QED BY <2>1, <3>1, <3>2 DEF Sent
  <2> QED BY <2>2, <2>3, <2>4, Lengths
<1>5. Sent' = Sent
  BY <1>3, <1>4 DEF Sent
<1> QED BY <1>3, <1>5

LEMMA SameSent ==
  ASSUME UNCHANGED <<received, channel>>
  PROVE  Total' = Total /\ Sent' = Sent
  BY DEF Total, Sent

-----------------------------------------------------------------------------
(* Order.                                                                  *)

(* The chunk between the model and the channel counts as yielded, not sent. *)
InHand == IF producer \in {"gate", "sending"} THEN 1 ELSE 0

(* Where the last item stands relative to what the producer is about to do. *)
IsBehind(item) ==
  \/ item.kind \in FatalKind /\ producer = "failed"
  \/ /\ item.kind \notin FatalKind
     /\ \/ item.sentence < sentence
        \/ item.sentence = sentence /\ item.kind # "silence" /\ item.index <= chunk - InHand

OrderInv ==
  /\ producer \in {"queued", "sentence", "opening"} => chunk = 0
  /\ \A n \in 1..(Total - 1) : Before(Sent[n], Sent[n + 1])
  /\ Total > 0 => IsBehind(Sent[Total])

(* Whatever is sent comes after the last item, so the chain grows by one.  *)
LEMMA OrderGrows ==
  ASSUME TypeInv, OrderInv, NEW item \in Item,
         received' = received, channel' = Append(channel, item),
         Total > 0 => Before(Sent[Total], item),
         producer' \in {"queued", "sentence", "opening"} => chunk' = 0,
         IsBehind(item)'
  PROVE  OrderInv'
<1>1. /\ Total \in Nat /\ Total' = Total + 1
      /\ \A n \in 1..Total : Sent'[n] = Sent[n]
      /\ Sent'[Total + 1] = item
  BY SentGrows, Lengths DEF TypeInv
<1>2. ASSUME NEW n \in 1..(Total' - 1) PROVE Before(Sent'[n], Sent'[n + 1])
  <2>1. CASE n = Total
    BY <1>1, <1>2, <2>1
  <2>2. CASE n # Total
    <3>1. n \in 1..(Total - 1) /\ n \in 1..Total /\ n + 1 \in 1..Total
      BY <1>1, <2>2
    <3> QED BY <1>1, <3>1 DEF OrderInv
  <2> QED BY <2>1, <2>2
<1>3. IsBehind(Sent[Total])'
  BY <1>1
<1>4. \A n \in 1..(Total' - 1) : Before(Sent[n], Sent[n + 1])'
  BY <1>2 DEF Before
<1> QED BY <1>3, <1>4 DEF OrderInv

(* A step that sends nothing must not let the producer fall back.          *)
LEMMA OrderKept ==
  ASSUME OrderInv, Total' = Total, Sent' = Sent,
         producer' \in {"queued", "sentence", "opening"} => chunk' = 0,
         \A item \in Item : IsBehind(item) => IsBehind(item)',
         Total > 0 => Sent[Total] \in Item
  PROVE  OrderInv'
<1>1. \A n \in 1..(Total' - 1) : Before(Sent[n], Sent[n + 1])'
  BY DEF OrderInv, Before
<1>2. Total' > 0 => IsBehind(Sent[Total])'
  BY DEF OrderInv, IsBehind
<1> QED BY <1>1, <1>2 DEF OrderInv

LEMMA LastIsItem == ASSUME TypeOK, Total > 0 PROVE Sent[Total] \in Item
<1>1. Total \in 1..Total
  BY Lengths
<1>2. CASE Total <= Len(received)
  <2>1. Total \in 1..Len(received)
    BY <1>2, Lengths
  <2> QED BY <1>1, <1>2, <2>1 DEF Sent, TypeOK
<1>3. CASE ~(Total <= Len(received))
  <2>1. Total - Len(received) \in 1..Len(channel)
    BY <1>3, Lengths DEF Total
  <2> QED BY <1>1, <1>3, <2>1 DEF Sent, TypeOK
<1> QED BY <1>2, <1>3

LEMMA OrderInit == Init => OrderInv
<1> SUFFICES ASSUME Init PROVE OrderInv
  OBVIOUS
<1>1. Total = 0 /\ chunk = 0
  BY DEF Init, Total
<1> QED BY <1>1 DEF OrderInv

LEMMA OrderStep == TypeInv /\ OrderInv /\ [Next]_vars => OrderInv'
<1> SUFFICES ASSUME TypeInv, OrderInv, [Next]_vars PROVE OrderInv'
  OBVIOUS
<1> USE SentencesAssumption, MaxChunksAssumption
<1>1. /\ TypeOK /\ sentence \in Nat /\ chunk \in Nat
      /\ Total > 0 => Sent[Total] \in Item
      /\ \A item \in Item : item.sentence \in Nat /\ item.index \in Nat \ {0}
  BY LastIsItem DEF TypeInv, TypeOK, Item
<1>2. CASE StartJob \/ TakeSentence \/ OpenStream \/ StreamEnds \/ StreamDecodes
  <2>1. /\ UNCHANGED <<sentence, chunk, received, channel>>
        /\ producer \notin {"gate", "sending", "failed"}
        /\ producer' \notin {"gate", "sending"}
        /\ producer' \in {"queued", "sentence", "opening"} =>
             producer \in {"queued", "sentence", "opening"}
    BY <1>2 DEF StartJob, TakeSentence, OpenStream, StreamEnds, StreamDecodes, historyVars
  <2>2. \A item \in Item : IsBehind(item) => IsBehind(item)'
    BY <2>1 DEF IsBehind, InHand
  <2> QED BY <1>1, <2>1, <2>2, SameSent, OrderKept DEF OrderInv
<1>3. CASE StreamYields
  <2>1. /\ UNCHANGED <<sentence, received, channel>>
        /\ producer = "decoding" /\ producer' = "gate" /\ chunk' = chunk + 1
    BY <1>3 DEF StreamYields
  <2>2. \A item \in Item : IsBehind(item) => IsBehind(item)'
    BY <1>1, <2>1 DEF IsBehind, InHand
  <2> QED BY <1>1, <2>1, <2>2, SameSent, OrderKept
<1>4. CASE CheckChunk \/ FinishSentence
  <2>1. /\ UNCHANGED <<received, channel>>
        /\ producer \in {"gate", "tail"}
        /\ \/ sentence' = sentence + 1 /\ chunk' = 0 /\ producer' = "sentence"
           \/ /\ sentence' = sentence /\ chunk' = chunk
              /\ \/ producer = "gate" /\ producer' = "sending"
                 \/ producer = "tail" /\ producer' = "silence"
    BY <1>4 DEF CheckChunk, FinishSentence, NextSentence, SameSentence, historyVars
  <2>2. \A item \in Item : IsBehind(item) => IsBehind(item)'
    BY <1>1, <2>1 DEF IsBehind, InHand
  <2> QED BY <1>1, <2>1, <2>2, SameSent, OrderKept
<1>5. CASE CallNext \/ Disconnected \/ DropStream \/ Cancel \/ UNCHANGED vars
  <2>1. UNCHANGED <<producer, sentence, chunk, received, channel>>
    BY <1>5 DEF CallNext, Disconnected, DropStream, Cancel, vars, producerVars, historyVars
  <2>2. \A item \in Item : IsBehind(item) => IsBehind(item)'
    BY <2>1 DEF IsBehind, InHand
  <2> QED BY <1>1, <2>1, <2>2, SameSent, OrderKept DEF OrderInv
<1>6. CASE Receive
  <2>1. UNCHANGED <<producer, sentence, chunk>>
    BY <1>6 DEF Receive, producerVars
  <2>2. \A item \in Item : IsBehind(item) => IsBehind(item)'
    BY <2>1 DEF IsBehind, InHand
  <2> QED BY <1>1, <1>6, <2>1, <2>2, ReceivingKeepsSent, OrderKept DEF OrderInv
<1>7. CASE OpenStreamFails \/ Panic
  <2>1. PICK k \in FatalKind : SendUnlessDropped(MkItem(chunk + 1, k))
    <3>1. CASE OpenStreamFails
      <4>1. chunk + 1 = 1
        BY <3>1 DEF OpenStreamFails, OrderInv
      <4> QED BY <3>1, <4>1 DEF OpenStreamFails, FatalKind
    <3>2. CASE Panic
      BY <3>2 DEF Panic, FatalKind
    <3> QED BY <1>7, <3>1, <3>2
  <2>2. /\ UNCHANGED <<sentence, chunk, received>>
        /\ producer \in {"opening", "decoding", "sending", "silence"}
        /\ producer' = "failed"
    BY <1>7 DEF OpenStreamFails, Panic, historyVars
  <2>3. CASE reader = "dropped"
    <3>1. \A item \in Item : IsBehind(item) => IsBehind(item)'
      BY <1>1, <2>2 DEF IsBehind, InHand
    <3> QED BY <1>1, <2>1, <2>2, <2>3, <3>1, SameSent, OrderKept DEF SendUnlessDropped
  <2>4. CASE reader # "dropped"
    <3>1. MkItem(chunk + 1, k) \in Item
      <4>1. chunk + 1 \in 1..(MaxChunks + 1) /\ k \in ItemKind /\ sentence <= Sentences
        BY <1>1, <2>2 DEF TypeInv, TypeOK, FatalKind, ItemKind, Stopped
      <4> QED BY <1>1, <4>1, MkItemType
    <3>2. PICK e \in Item : e = MkItem(chunk + 1, k)
      BY <3>1
    <3>3. e.sentence = sentence /\ e.index = chunk + 1 /\ e.kind \in FatalKind
      BY <2>2, <3>2 DEF MkItem
    <3>4. Total > 0 => Before(Sent[Total], e)
      BY <1>1, <2>2, <3>3 DEF OrderInv, IsBehind, InHand, Before, FatalKind
    <3>5. IsBehind(e)'
      BY <2>2, <3>3 DEF IsBehind
    <3>6. channel' = Append(channel, e)
      BY <2>1, <2>4, <3>2 DEF SendUnlessDropped
    <3> QED BY <2>2, <3>4, <3>5, <3>6, OrderGrows
  <2> QED BY <2>3, <2>4
<1>8. CASE SendChunk \/ SendSilence
  <2> DEFINE Ends == /\ UNCHANGED <<channel, sentence, chunk>>
                     /\ producer' = "stopped"
             GoesOn == \/ /\ producer = "sending" /\ producer' = "streaming"
                          /\ UNCHANGED <<sentence, chunk>>
                       \/ producer = "silence" /\ NextSentence
             Follows(i, k) == \/ producer = "sending" /\ i = chunk /\ k # "silence"
                              \/ producer = "silence" /\ i = chunk + 1
  <2>1. PICK i \in {chunk, chunk + 1}, k \in ItemKind \ FatalKind :
          /\ Follows(i, k)
          /\ Ends \/ (channel' = Append(channel, MkItem(i, k)) /\ GoesOn)
    <3>1. CASE SendChunk
      <4>1. PICK k \in Shaped(held) :
              SendOrStop(MkItem(chunk, k), producer' = "streaming" /\ SameSentence)
        BY <3>1 DEF SendChunk
      <4>2. k \in ItemKind \ FatalKind /\ k # "silence"
        BY <1>1 DEF TypeOK, Shaped, ItemKind, FatalKind
      <4>3. Follows(chunk, k) /\ (Ends \/ (channel' = Append(channel, MkItem(chunk, k)) /\ GoesOn))
        BY <3>1, <4>1, <4>2 DEF SendChunk, SendOrStop, SameSentence
      <4> QED BY <4>2, <4>3
    <3>2. CASE SendSilence
      <4>1. PICK k \in Silence : SendOrStop(MkItem(chunk + 1, k), NextSentence)
        BY <3>2 DEF SendSilence
      <4>2. k \in ItemKind \ FatalKind
        BY DEF Silence, ItemKind, FatalKind
      <4>3. Follows(chunk + 1, k) /\ (Ends \/ (channel' = Append(channel, MkItem(chunk + 1, k)) /\ GoesOn))
        BY <3>2, <4>1 DEF SendSilence, SendOrStop, SameSentence
      <4> QED BY <4>2, <4>3
    <3> QED BY <1>8, <3>1, <3>2
  <2>2. received' = received
    BY <1>8 DEF SendChunk, SendSilence, historyVars
  <2>3. CASE Ends
    <3>1. \A item \in Item : IsBehind(item) => IsBehind(item)'
      BY <1>1, <2>1, <2>3 DEF IsBehind, InHand
    <3> QED BY <1>1, <2>2, <2>3, <3>1, SameSent, OrderKept
  <2>4. CASE channel' = Append(channel, MkItem(i, k)) /\ GoesOn
    <3>1. MkItem(i, k) \in Item
      <4>1. i \in 1..(MaxChunks + 1) /\ k \in ItemKind /\ sentence <= Sentences
        BY <1>1, <2>1 DEF TypeInv, TypeOK, Stopped
      <4> QED BY <1>1, <4>1, MkItemType
    <3>2. PICK e \in Item : e = MkItem(i, k)
      BY <3>1
    <3>3. e.sentence = sentence /\ e.index = i /\ e.kind = k
      BY <3>2 DEF MkItem
    <3>4. Total > 0 => Before(Sent[Total], e)
      BY <1>1, <2>1, <3>3 DEF OrderInv, IsBehind, InHand, Before
    <3>5. producer' \in {"queued", "sentence", "opening"} => chunk' = 0
      BY <2>4 DEF NextSentence
    <3>6. IsBehind(e)'
      <4>1. producer' \notin {"gate", "sending"} /\ InHand' = 0
        BY <2>4 DEF NextSentence, InHand
      <4>2. \/ e.sentence < sentence'
            \/ e.sentence = sentence' /\ e.kind # "silence" /\ e.index <= chunk' - 0
        BY <1>1, <2>1, <2>4, <3>3 DEF NextSentence
      <4> QED BY <2>1, <3>3, <4>1, <4>2 DEF IsBehind
    <3>7. channel' = Append(channel, e)
      BY <2>4, <3>2
    <3> QED BY <2>2, <3>4, <3>5, <3>6, <3>7, OrderGrows
  <2> QED BY <2>1, <2>3, <2>4
<1> QED
  BY <1>2, <1>3, <1>4, <1>5, <1>6, <1>7, <1>8 DEF Next, Produce, Read

(* DeliveredInOrder: next() returns what process_rt_stream sent, in the    *)
(* order of the text, and nothing after an error that ends production.     *)
THEOREM ItemsComeInOrder == Spec => []DeliveredInOrder
<1>1. TypeInv /\ OrderInv => DeliveredInOrder
  <2> SUFFICES ASSUME TypeInv, OrderInv, NEW i \in 1..(Len(received) - 1)
               PROVE  Before(received[i], received[i + 1])
    BY DEF DeliveredInOrder
  <2>1. /\ i \in 1..(Total - 1) /\ i \in 1..Total /\ i + 1 \in 1..Total
        /\ i <= Len(received) /\ i + 1 <= Len(received)
    BY Lengths DEF TypeInv, Total
  <2>2. Sent[i] = received[i] /\ Sent[i + 1] = received[i + 1]
    BY <2>1 DEF Sent
  <2> QED BY <2>1, <2>2 DEF OrderInv
<1> QED BY <1>1, TypeInvInit, TypeInvInductive, OrderInit, OrderStep, PTL DEF Spec

-----------------------------------------------------------------------------
(* Completeness.                                                           *)

Told(s, i) == \E n \in 1..Total : Sent[n].sentence = s /\ Sent[n].index = i
Due(s) == yielded[s] + IF SilenceMs THEN 1 ELSE 0

(* While nothing was cancelled, dropped or given up, all of the sentences  *)
(* behind the producer and all of the current one but the chunk in hand    *)
(* was sent.                                                               *)
ToldSoFar ==
  /\ producer # "stopped"
  /\ \A s \in 1..Sentences : s < sentence => \A i \in 1..Due(s) : Told(s, i)
  /\ \A i \in 1..(chunk - InHand) : Told(sentence, i)

Unhindered == ~cancelled /\ reader # "dropped" /\ producer # "failed"

CompleteInv ==
  /\ \A s \in 1..Sentences : s > sentence => yielded[s] = 0
  /\ sentence <= Sentences => yielded[sentence] = chunk
  /\ reader = "ended" /\ ~cancelled => channel = << >> /\ producer \in Stopped
  /\ producer = "completed" => sentence > Sentences
  /\ producer = "failed" /\ reader # "dropped" =>
       \E n \in 1..Total : Sent[n].kind \in FatalKind
  /\ Unhindered => ToldSoFar

LEMMA CompleteInit == Init => CompleteInv
<1> SUFFICES ASSUME Init PROVE CompleteInv
  OBVIOUS
<1>1. /\ producer = "queued" /\ sentence = 1 /\ chunk = 0 /\ reader = "idle" /\ InHand = 0
      /\ \A s \in 1..Sentences : yielded[s] = 0
  BY DEF Init, InHand
<1>2. /\ \A s \in 1..Sentences : ~(s < sentence)
      /\ 1 <= Sentences => 1 \in 1..Sentences
      /\ \A i \in 1..(chunk - InHand) : FALSE
  BY <1>1, SentencesAssumption
<1> QED BY <1>1, <1>2 DEF CompleteInv, ToldSoFar, Stopped

(* What was told stays told.                                               *)
LEMMA ToldStays ==
  ASSUME TypeOK, Total' \in Nat, Total' >= Total, \A n \in 1..Total : Sent'[n] = Sent[n]
  PROVE  /\ \A s, i : Told(s, i) => Told(s, i)'
         /\ (\E n \in 1..Total : Sent[n].kind \in FatalKind)
               => \E n \in 1..Total' : Sent'[n].kind \in FatalKind
<1>1. \A n \in 1..Total : n \in 1..Total'
  BY Lengths
<1> QED BY <1>1 DEF Told

(* Steps of the reader and the canceller leave the producer alone.         *)
LEMMA ReadersLeaveComplete ==
  ASSUME TypeOK, CompleteInv,
         UNCHANGED <<producer, sentence, chunk, yielded>>, Total' = Total, Sent' = Sent,
         Unhindered' => Unhindered, reader' # "dropped" => reader # "dropped",
         reader' = "ended" /\ ~cancelled' => channel' = << >> /\ producer \in Stopped
  PROVE  CompleteInv'
<1>1. \A s, i : Told(s, i)' = Told(s, i)
  BY DEF Told
<1>2. InHand' = InHand /\ \A s \in 1..Sentences : Due(s)' = Due(s)
  BY DEF InHand, Due
<1>3. Unhindered' => ToldSoFar'
  BY <1>1, <1>2 DEF CompleteInv, ToldSoFar
<1> QED BY <1>3 DEF CompleteInv

(* The producer goes on inside its sentence, or ends, and sends nothing.   *)
LEMMA QuietSteps ==
  ASSUME TypeOK, CompleteInv,
         UNCHANGED <<sentence, chunk, yielded, received, channel, reader, cancelled>>,
         producer \notin Stopped, producer' # "failed",
         Unhindered => InHand' = InHand,
         producer' = "completed" => sentence > Sentences,
         producer' = "stopped" => ~Unhindered
  PROVE  CompleteInv'
<1>1. Total' = Total /\ Sent' = Sent
  BY SameSent
<1>2. \A s, i : Told(s, i)' = Told(s, i)
  BY <1>1 DEF Told
<1>3. \A s \in 1..Sentences : Due(s)' = Due(s)
  BY DEF Due
<1>4. Unhindered' => Unhindered
  BY DEF Unhindered, Stopped
<1>5. Unhindered' => ToldSoFar'
  BY <1>2, <1>3, <1>4 DEF CompleteInv, ToldSoFar
<1> QED BY <1>5 DEF CompleteInv

(* The producer goes on to the next sentence, having told all of this one. *)
LEMMA AdvancingSteps ==
  ASSUME TypeInv, CompleteInv, NextSentence, UNCHANGED <<yielded, reader, cancelled>>,
         sentence <= Sentences, producer \notin Stopped,
         Total' \in Nat, Total' >= Total, \A n \in 1..Total : Sent'[n] = Sent[n],
         \A s \in 1..Sentences : Unhindered /\ s = sentence => \A i \in 1..Due(s) : Told(s, i)'
  PROVE  CompleteInv'
<1>1. sentence \in Nat /\ sentence' = sentence + 1 /\ chunk' = 0 /\ producer' = "sentence"
  BY SentencesAssumption DEF NextSentence, TypeInv, TypeOK
<1>2. \A s \in 1..Sentences : Due(s)' = Due(s)
  BY DEF Due
<1>3. Unhindered' => Unhindered
  BY DEF Unhindered, Stopped
<1>4. ASSUME Unhindered' PROVE ToldSoFar'
  <2>1. ToldSoFar
    BY <1>3, <1>4 DEF CompleteInv
  <2>2. ASSUME NEW s \in 1..Sentences, s < sentence', NEW i \in 1..Due(s)'
        PROVE  Told(s, i)'
    <3>1. i \in 1..Due(s)
      BY <1>2, <2>2
    <3>2. CASE s = sentence
      BY <1>3, <1>4, <3>1, <3>2
    <3>3. CASE s < sentence
      <4>1. Told(s, i)
        BY <2>1, <3>1, <3>3 DEF ToldSoFar
      <4> QED BY <4>1, ToldStays DEF TypeInv
    <3> QED BY <1>1, <2>2, <3>2, <3>3, SentencesAssumption
  <2>3. \A i \in 1..(chunk' - InHand') : FALSE
    BY <1>1 DEF InHand
  <2> QED BY <1>1, <2>2, <2>3 DEF ToldSoFar
<1>5. \A s \in 1..Sentences : s > sentence' => yielded'[s] = 0
  BY <1>1, SentencesAssumption DEF CompleteInv
<1>6. sentence' <= Sentences => yielded'[sentence'] = chunk'
  <2> SUFFICES ASSUME sentence' <= Sentences PROVE yielded[sentence'] = 0
    BY <1>1
  <2>1. sentence' \in 1..Sentences /\ sentence' > sentence
    BY <1>1, SentencesAssumption
  <2> QED BY <2>1 DEF CompleteInv
<1>7. reader' = "ended" /\ ~cancelled' => FALSE
  BY DEF CompleteInv
<1> QED BY <1>1, <1>4, <1>5, <1>6, <1>7 DEF CompleteInv

LEMMA CompleteStep ==
  TypeInv /\ OrderInv /\ CompleteInv /\ [Next]_vars => CompleteInv'
<1> SUFFICES ASSUME TypeInv, OrderInv, CompleteInv, [Next]_vars PROVE CompleteInv'
  OBVIOUS
<1> USE SentencesAssumption, MaxChunksAssumption
<1>1. /\ TypeOK /\ sentence \in Nat /\ chunk \in Nat /\ Total \in Nat
      /\ producer \notin {"queued", "sentence"} \cup Stopped => sentence \in 1..Sentences
      /\ yielded \in [1..Sentences -> 0..MaxChunks]
  BY Lengths DEF TypeInv, TypeOK
<1>2. CASE StartJob \/ TakeSentence \/ OpenStream \/ StreamEnds \/ StreamDecodes
  <2>1. /\ UNCHANGED <<sentence, chunk, yielded, received, channel, reader, cancelled>>
        /\ producer \notin Stopped \cup {"gate", "sending"}
        /\ producer' \notin {"failed", "gate", "sending"}
        /\ producer' = "completed" => sentence > Sentences
        /\ producer' = "stopped" => cancelled
    BY <1>2 DEF StartJob, TakeSentence, OpenStream, StreamEnds, StreamDecodes, historyVars, Stopped
  <2> QED BY <1>1, <2>1, QuietSteps DEF InHand, Unhindered
<1>3. CASE StreamYields
  <2>1. /\ UNCHANGED <<sentence, received, channel, reader, cancelled>>
        /\ producer = "decoding" /\ producer' = "gate" /\ chunk' = chunk + 1
        /\ yielded' = [yielded EXCEPT ![sentence] = chunk + 1]
    BY <1>3 DEF StreamYields
  <2>2. sentence \in 1..Sentences
    BY <1>1, <2>1 DEF Stopped
  <2>3. Total' = Total /\ Sent' = Sent
    BY <2>1, SameSent
  <2>4. \A s, i : Told(s, i)' = Told(s, i)
    BY <2>3 DEF Told
  <2>5. /\ yielded'[sentence] = chunk + 1
        /\ \A s \in 1..Sentences : s # sentence => yielded'[s] = yielded[s]
    BY <1>1, <2>1, <2>2
  <2>6. \A s \in 1..Sentences : s # sentence => Due(s)' = Due(s)
    BY <2>5 DEF Due
  <2>7. chunk - InHand = chunk /\ chunk' - InHand' = chunk
    BY <1>1, <2>1 DEF InHand
  <2>8. Unhindered' => ToldSoFar'
    <3> SUFFICES ASSUME Unhindered' PROVE ToldSoFar'
      OBVIOUS
    <3>1. ToldSoFar
      BY <2>1 DEF Unhindered, CompleteInv
    <3>2. ASSUME NEW s \in 1..Sentences, s < sentence' PROVE \A i \in 1..Due(s)' : Told(s, i)'
      <4>1. s < sentence /\ Due(s)' = Due(s)
        BY <1>1, <2>1, <2>6, <3>2
      <4> QED BY <2>4, <3>1, <4>1 DEF ToldSoFar
    <3>3. \A i \in 1..(chunk' - InHand') : Told(sentence, i)'
      BY <2>1, <2>4, <2>7, <3>1 DEF ToldSoFar
    <3> QED BY <2>1, <3>2, <3>3 DEF ToldSoFar
  <2>9. \A s \in 1..Sentences : s > sentence' => yielded'[s] = 0
    BY <1>1, <2>1, <2>5 DEF CompleteInv
  <2> QED BY <2>1, <2>5, <2>8, <2>9 DEF CompleteInv, Stopped
<1>4. CASE CheckChunk \/ FinishSentence
  <2>1. /\ UNCHANGED <<received, channel, yielded, reader, cancelled>>
        /\ producer \in {"gate", "tail"}
    BY <1>4 DEF CheckChunk, FinishSentence, historyVars
  <2>2. CASE NextSentence
    <3>1. Unhindered => producer = "tail" /\ ~SilenceMs
      BY <1>4, <2>2 DEF CheckChunk, FinishSentence, Unhindered, NextSentence
    <3>2. ASSUME NEW s \in 1..Sentences, Unhindered, s = sentence, NEW i \in 1..Due(s)
          PROVE  Told(s, i)'
      <4>1. Due(s) = chunk /\ chunk - InHand = chunk
        BY <1>1, <3>1, <3>2 DEF Due, InHand, CompleteInv
      <4>2. Told(s, i)
        BY <3>2, <4>1 DEF CompleteInv, ToldSoFar
      <4> QED BY <2>1, <4>2, SameSent DEF Told
    <3> QED BY <1>1, <2>1, <2>2, <3>2, SameSent, AdvancingSteps DEF Stopped
  <2>3. CASE ~NextSentence
    <3>1. /\ SameSentence
          /\ \/ producer = "gate" /\ producer' = "sending"
             \/ producer = "tail" /\ producer' = "silence"
      BY <1>4, <2>3 DEF CheckChunk, FinishSentence
    <3> QED BY <1>1, <2>1, <3>1, QuietSteps DEF InHand, SameSentence, Stopped
  <2> QED BY <2>2, <2>3
<1>5. CASE CallNext \/ Disconnected \/ DropStream \/ Cancel \/ UNCHANGED vars
  <2>1. /\ UNCHANGED <<producer, sentence, chunk, yielded, received, channel>>
        /\ Unhindered' => Unhindered
        /\ reader' # "dropped" => reader # "dropped"
        /\ reader' = "ended" /\ ~cancelled' => channel' = << >> /\ producer \in Stopped
    BY <1>5 DEF CallNext, Disconnected, DropStream, Cancel, vars, producerVars, historyVars,
                Unhindered, CompleteInv
  <2> QED BY <1>1, <2>1, SameSent, ReadersLeaveComplete
<1>6. CASE Receive
  <2>1. /\ UNCHANGED <<producer, sentence, chunk, yielded, cancelled>>
        /\ reader = "receiving" /\ reader' = "idle"
    BY <1>6 DEF Receive, producerVars
  <2> QED BY <1>1, <1>6, <2>1, ReceivingKeepsSent, ReadersLeaveComplete DEF Unhindered
<1>7. CASE OpenStreamFails \/ Panic
  <2>1. /\ UNCHANGED <<sentence, chunk, yielded, received, reader, cancelled>>
        /\ producer \notin Stopped /\ producer' = "failed"
    BY <1>7 DEF OpenStreamFails, Panic, historyVars, Stopped
  <2>2. ASSUME reader # "dropped" PROVE \E n \in 1..Total' : Sent'[n].kind \in FatalKind
    <3>1. PICK i \in {1, chunk + 1}, k \in FatalKind : channel' = Append(channel, MkItem(i, k))
      BY <1>7, <2>2 DEF OpenStreamFails, Panic, SendUnlessDropped, FatalKind
    <3>2. MkItem(i, k) \in Item
      <4>1. i \in 1..(MaxChunks + 1) /\ k \in ItemKind
        BY <1>1 DEF TypeOK, FatalKind, ItemKind
      <4>2. sentence <= Sentences
        BY <1>1, <1>7 DEF OpenStreamFails, Panic, Stopped
      <4> QED BY <1>1, <4>1, <4>2, MkItemType
    <3>3. PICK e \in Item : e = MkItem(i, k)
      BY <3>2
    <3>4. e.kind \in FatalKind
      BY <3>3 DEF MkItem
    <3>5. Total' = Total + 1 /\ Sent'[Total + 1] = e
      BY <1>1, <2>1, <3>1, <3>3, SentGrows
    <3>6. Total + 1 \in 1..Total'
      BY <1>1, <3>5
    <3> QED BY <3>4, <3>5, <3>6
  <2>3. ~Unhindered' /\ ~(reader' = "ended" /\ ~cancelled')
    BY <2>1 DEF Unhindered, CompleteInv
  <2> QED BY <2>1, <2>2, <2>3 DEF CompleteInv
<1>8. CASE SendChunk
  <2>1. PICK k \in Shaped(held) :
          SendOrStop(MkItem(chunk, k), producer' = "streaming" /\ SameSentence)
    BY <1>8 DEF SendChunk
  <2>2. /\ UNCHANGED <<received, yielded, reader, cancelled, sentence, chunk>>
        /\ producer = "sending" /\ sentence \in 1..Sentences
    BY <1>1, <1>8, <2>1 DEF SendChunk, SendOrStop, SameSentence, historyVars, Stopped
  <2>3. CASE reader = "dropped"
    BY <1>1, <2>1, <2>2, <2>3, QuietSteps DEF SendOrStop, Unhindered, Stopped
  <2>4. CASE reader # "dropped"
    <3>1. channel' = Append(channel, MkItem(chunk, k)) /\ producer' = "streaming"
      BY <2>1, <2>4 DEF SendOrStop
    <3>2. MkItem(chunk, k) \in Item
      <4>1. chunk \in 1..(MaxChunks + 1) /\ k \in ItemKind
        BY <1>1, <2>2 DEF TypeInv, TypeOK, Shaped, ItemKind
      <4> QED BY <1>1, <2>2, <4>1, MkItemType
    <3>3. PICK e \in Item : e = MkItem(chunk, k)
      BY <3>2
    <3>4. e.sentence = sentence /\ e.index = chunk
      BY <3>3 DEF MkItem
    <3>5. /\ Total' = Total + 1 /\ Sent'[Total + 1] = e
          /\ \A n \in 1..Total : Sent'[n] = Sent[n]
      BY <1>1, <2>2, <3>1, <3>3, SentGrows
    <3>6. \A s, i : Told(s, i) => Told(s, i)'
      BY <1>1, <3>5, ToldStays
    <3>7. chunk - InHand = chunk - 1 /\ chunk' - InHand' = chunk
      BY <1>1, <2>2, <3>1 DEF InHand
    <3>8. ASSUME Unhindered PROVE \A i \in 1..chunk : Told(sentence, i)'
      <4> SUFFICES ASSUME NEW i \in 1..chunk PROVE Told(sentence, i)'
        OBVIOUS
      <4>1. CASE i = chunk
        <5>1. Total + 1 \in 1..Total'
          BY <1>1, <3>5
        <5> QED BY <2>2, <3>4, <3>5, <4>1, <5>1 DEF Told
      <4>2. CASE i # chunk
        <5>1. i \in 1..(chunk - InHand)
          BY <1>1, <3>7, <4>2
        <5>2. Told(sentence, i)
          BY <3>8, <5>1 DEF CompleteInv, ToldSoFar
        <5> QED BY <2>2, <3>6, <5>2
      <4> QED BY <4>1, <4>2
    <3>9. \A s \in 1..Sentences : Due(s)' = Due(s)
      BY <2>2 DEF Due
    <3>10. Unhindered' => ToldSoFar'
      <4> SUFFICES ASSUME Unhindered' PROVE ToldSoFar'
        OBVIOUS
      <4>1. Unhindered
        BY <2>2 DEF Unhindered
      <4>2. \A s \in 1..Sentences : s < sentence => \A i \in 1..Due(s) : Told(s, i)'
        BY <3>6, <4>1 DEF CompleteInv, ToldSoFar
      <4> QED BY <2>2, <3>1, <3>7, <3>8, <3>9, <4>1, <4>2 DEF ToldSoFar
    <3> QED BY <2>2, <3>1, <3>10 DEF CompleteInv, Stopped
  <2> QED BY <2>3, <2>4
<1>9. CASE SendSilence
  <2>1. PICK k \in Silence : SendOrStop(MkItem(chunk + 1, k), NextSentence)
    BY <1>9 DEF SendSilence
  <2>2. /\ UNCHANGED <<received, yielded, reader, cancelled>>
        /\ producer = "silence" /\ sentence \in 1..Sentences
    BY <1>1, <1>9 DEF SendSilence, historyVars, Stopped
  <2>3. CASE reader = "dropped"
    BY <1>1, <2>1, <2>2, <2>3, QuietSteps DEF SendOrStop, SameSentence, Unhindered, Stopped
  <2>4. CASE reader # "dropped"
    <3>1. channel' = Append(channel, MkItem(chunk + 1, k)) /\ NextSentence
      BY <2>1, <2>4 DEF SendOrStop
    <3>2. MkItem(chunk + 1, k) \in Item
      <4>1. chunk + 1 \in 1..(MaxChunks + 1) /\ k \in ItemKind
        BY <1>1 DEF TypeOK, Silence, ItemKind
      <4> QED BY <1>1, <2>2, <4>1, MkItemType
    <3>3. PICK e \in Item : e = MkItem(chunk + 1, k)
      BY <3>2
    <3>4. e.sentence = sentence /\ e.index = chunk + 1
      BY <3>3 DEF MkItem
    <3>5. /\ Total' = Total + 1 /\ Sent'[Total + 1] = e
          /\ \A n \in 1..Total : Sent'[n] = Sent[n]
      BY <1>1, <2>2, <3>1, <3>3, SentGrows
    <3>6. \A s, i : Told(s, i) => Told(s, i)'
      BY <1>1, <3>5, ToldStays
    <3>7. ASSUME NEW s \in 1..Sentences, Unhindered, s = sentence, NEW i \in 1..Due(s)
          PROVE  Told(s, i)'
      <4>1. i \in 1..(chunk + 1) /\ chunk - InHand = chunk
        BY <1>1, <2>2, <3>7 DEF Due, InHand, CompleteInv
      <4>2. CASE i = chunk + 1
        <5>1. Total + 1 \in 1..Total'
          BY <1>1, <3>5
        <5> QED BY <3>4, <3>5, <3>7, <4>2, <5>1 DEF Told
      <4>3. CASE i # chunk + 1
        <5>1. i \in 1..(chunk - InHand)
          BY <1>1, <4>1, <4>3
        <5>2. Told(s, i)
          BY <3>7, <5>1 DEF CompleteInv, ToldSoFar
        <5> QED BY <3>6, <5>2
      <4> QED BY <4>2, <4>3
    <3> QED BY <1>1, <2>2, <3>1, <3>5, <3>7, AdvancingSteps DEF Stopped
  <2> QED BY <2>3, <2>4
<1> QED
  BY <1>2, <1>3, <1>4, <1>5, <1>6, <1>7, <1>8, <1>9 DEF Next, Produce, Read

LEMMA CompleteInvariant == Spec => [](TypeInv /\ CompleteInv)
  BY TypeInvInit, TypeInvInductive, OrderInit, OrderStep, CompleteInit, CompleteStep, PTL
  DEF Spec

(* NoSilentTruncation: an end that was neither cancelled nor reported as   *)
(* an error comes after every chunk and every silence of the text, since   *)
(* catch_unwind and stream errors leave an item and the sender is dropped  *)
(* only after the last sentence.                                           *)
THEOREM EndIsComplete == Spec => []NoSilentTruncation
<1>1. TypeInv /\ CompleteInv => NoSilentTruncation
  <2> SUFFICES ASSUME TypeInv, CompleteInv, reader = "ended", ~cancelled,
                      \A n \in DOMAIN received : received[n].kind \notin FatalKind,
                      NEW s \in 1..Sentences, NEW i \in 1..Due(s)
               PROVE  HandedOut(s, i)
    BY DEF NoSilentTruncation, Due
  <2>1. channel = << >> /\ producer \in Stopped
    BY DEF CompleteInv
  <2>2. Total = Len(received) /\ Len(received) \in Nat /\ DOMAIN received = 1..Total
    BY <2>1, Lengths DEF Total, TypeInv, TypeOK
  <2>3. \A n \in 1..Total : Sent[n] = received[n]
    BY <2>2 DEF Sent
  <2>4. producer # "failed"
    BY <2>2, <2>3 DEF CompleteInv
  <2>5. ToldSoFar
    BY <2>4 DEF CompleteInv, Unhindered
  <2>6. producer = "completed"
    BY <2>1, <2>4, <2>5 DEF ToldSoFar, Stopped
  <2>7. s < sentence
    BY <2>6, SentencesAssumption DEF CompleteInv, TypeInv, TypeOK
  <2>8. Told(s, i)
    BY <2>5, <2>7 DEF ToldSoFar
  <2> QED BY <2>2, <2>3, <2>8 DEF Told, HandedOut
<1> QED BY <1>1, CompleteInvariant, PTL

-----------------------------------------------------------------------------
(* The abstract stream.                                                    *)

Owed == received \o channel
Source == IF producer \in Stopped THEN producer ELSE "open"
Reading == IF reader \in {"idle", "receiving"} THEN "reading" ELSE reader

LEMMA OwedGrows ==
  ASSUME TypeOK, NEW item \in Item, received' = received, channel' = Append(channel, item)
  PROVE  /\ Owed' = Append(Owed, item)
         /\ Len(Owed') = Len(Owed) + 1
         /\ SubSeq(Owed', 1, Len(Owed)) = Owed
         /\ Owed'[Len(Owed) + 1] = item
<1>1. Owed \in Seq(Item)
  BY DEF TypeOK, Owed
<1>2. Owed' = Append(Owed, item)
  BY DEF TypeOK, Owed
<1> HIDE DEF Owed
<1>3. Len(Owed') = Len(Owed) + 1 /\ Owed'[Len(Owed) + 1] = item
  BY <1>1, <1>2
<1>4. SubSeq(Owed', 1, Len(Owed)) = Owed
  BY <1>1, <1>2
<1> QED BY <1>2, <1>3, <1>4

LEMMA ReceivingKeepsOwed ==
  ASSUME TypeOK, Receive
  PROVE  /\ Owed' = Owed
         /\ Len(received) < Len(Owed)
         /\ received' = Append(received, Owed[Len(received) + 1])
<1>1. /\ channel # << >> /\ received' = Append(received, Head(channel))
      /\ channel' = Tail(channel)
      /\ received \in Seq(Item) /\ channel \in Seq(Item)
  BY DEF Receive, TypeOK
<1>2. Len(received) < Len(Owed) /\ Owed[Len(received) + 1] = Head(channel)
  BY <1>1 DEF Owed
<1>3. Owed' = Owed
  BY <1>1 DEF Owed
<1> QED BY <1>1, <1>2, <1>3

(* What the abstract stream sees of a step.                                *)
LEMMA PromiseInit == Init => Promise!Init
<1> SUFFICES ASSUME Init PROVE Promise!Init
  OBVIOUS
<1>1. received \o channel = << >>
  BY DEF Init
<1>2. /\ received = << >> /\ producer = "queued" /\ reader = "idle"
      /\ cancelled = FALSE /\ late = 0
  BY DEF Init
<1>3. (late > 0) = FALSE
  BY <1>2
<1> QED BY <1>1, <1>2, <1>3 DEF Promise!Init, Stopped

(* A step that neither side of the abstract stream sees.                   *)
LEMMA PromiseStutter ==
  ASSUME Owed' = Owed, UNCHANGED <<received, cancelled, late>>,
         Source' = Source, Reading' = Reading
  PROVE  UNCHANGED Promise!vars
  BY DEF Promise!vars, Owed, Source, Reading

LEMMA PromiseStep ==
  TypeInv /\ LateInv /\ CompleteInv /\ [Next]_vars => [Promise!Next]_(Promise!vars)
<1> SUFFICES ASSUME TypeInv, LateInv, CompleteInv, [Next]_vars
             PROVE  Promise!Next \/ UNCHANGED Promise!vars
  OBVIOUS
<1> USE SentencesAssumption, MaxChunksAssumption
<1>1. TypeOK /\ late \in Nat
  BY DEF TypeInv, TypeOK
<1>2. CASE StartJob \/ OpenStream \/ StreamEnds \/ StreamDecodes \/ StreamYields
             \/ CheckChunk \/ FinishSentence \/ UNCHANGED vars
  <2>1. UNCHANGED <<received, channel, cancelled, late, reader>>
    BY <1>2 DEF StartJob, OpenStream, StreamEnds, StreamDecodes, StreamYields, CheckChunk,
                FinishSentence, historyVars, vars
  <2>2. Source' = Source
    BY <1>2 DEF StartJob, OpenStream, StreamEnds, StreamDecodes, StreamYields, CheckChunk,
                FinishSentence, NextSentence, vars, Source, Stopped
  <2> QED BY <2>1, <2>2, PromiseStutter DEF Owed, Reading
<1>3. CASE TakeSentence
  <2>1. /\ UNCHANGED <<received, channel, cancelled, late, reader>>
        /\ producer = "sentence" /\ producer' \in {"completed", "stopped", "opening"}
        /\ producer' = "stopped" => cancelled
    BY <1>3 DEF TakeSentence, historyVars
  <2>2. CASE producer' = "completed"
    <3>1. Promise!Complete
      BY <2>1, <2>2 DEF Promise!Complete, Stopped
    <3> QED BY <3>1 DEF Promise!Next
  <2>3. CASE producer' = "stopped"
    <3>1. Promise!Stop
      BY <2>1, <2>3 DEF Promise!Stop, Stopped
    <3> QED BY <3>1 DEF Promise!Next
  <2>4. CASE producer' = "opening"
    BY <2>1, <2>4, PromiseStutter DEF Owed, Source, Reading, Stopped
  <2> QED BY <2>1, <2>2, <2>3, <2>4
<1>4. CASE OpenStreamFails \/ Panic
  <2>1. /\ UNCHANGED <<sentence, received, cancelled, late, reader>>
        /\ producer \notin Stopped /\ producer' = "failed"
    BY <1>4 DEF OpenStreamFails, Panic, historyVars, Stopped
  <2>2. CASE reader = "dropped"
    <3>1. channel' = channel
      BY <1>4, <2>2 DEF OpenStreamFails, Panic, SendUnlessDropped
    <3>2. Promise!Fail
      BY <2>1, <2>2, <3>1 DEF Promise!Fail, Stopped
    <3> QED BY <3>2 DEF Promise!Next
  <2>3. CASE reader # "dropped"
    <3>1. PICK i \in {1, chunk + 1}, k \in FatalKind : channel' = Append(channel, MkItem(i, k))
      BY <1>4, <2>3 DEF OpenStreamFails, Panic, SendUnlessDropped, FatalKind
    <3>2. MkItem(i, k) \in Item
      <4>1. i \in 1..(MaxChunks + 1) /\ k \in ItemKind
        BY <1>1 DEF TypeOK, FatalKind, ItemKind
      <4>2. sentence <= Sentences
        BY <1>4 DEF TypeInv, OpenStreamFails, Panic, Stopped
      <4> QED BY <1>1, <4>1, <4>2, MkItemType
    <3>3. PICK e \in Item : e = MkItem(i, k)
      BY <3>2
    <3>4. e \in Fatal
      BY <3>3 DEF MkItem, Fatal
    <3>5. Owed' = Append(Owed, e)
      BY <1>1, <2>1, <3>1, <3>3, OwedGrows
    <3>6. Promise!Fail
      BY <2>1, <2>3, <3>4, <3>5 DEF Promise!Fail, Stopped, Owed
    <3> QED BY <3>6 DEF Promise!Next
  <2> QED BY <2>2, <2>3
<1>5. CASE SendChunk \/ SendSilence
  <2>1. /\ UNCHANGED <<received, cancelled, late, reader>>
        /\ producer \in {"sending", "silence"}
    BY <1>5 DEF SendChunk, SendSilence, historyVars
  <2>2. CASE reader = "dropped"
    <3>1. UNCHANGED channel /\ producer' = "stopped"
      BY <1>5, <2>2 DEF SendChunk, SendSilence, SendOrStop
    <3>2. Promise!Stop
      BY <2>1, <2>2, <3>1 DEF Promise!Stop, Stopped
    <3> QED BY <3>2 DEF Promise!Next
  <2>3. CASE reader # "dropped"
    <3>1. PICK i \in 1..(MaxChunks + 1), k \in ItemKind \ FatalKind :
            channel' = Append(channel, MkItem(i, k))
      <4>1. CASE SendChunk
        <5>1. PICK k \in Shaped(held) : channel' = Append(channel, MkItem(chunk, k))
          BY <2>3, <4>1 DEF SendChunk, SendOrStop
        <5>2. k \in ItemKind \ FatalKind /\ chunk \in 1..(MaxChunks + 1)
          BY <4>1 DEF TypeInv, TypeOK, SendChunk, Shaped, ItemKind, FatalKind
        <5> QED BY <5>1, <5>2
      <4>2. CASE SendSilence
        <5>1. PICK k \in Silence : channel' = Append(channel, MkItem(chunk + 1, k))
          BY <2>3, <4>2 DEF SendSilence, SendOrStop
        <5>2. k \in ItemKind \ FatalKind /\ chunk + 1 \in 1..(MaxChunks + 1)
          BY <1>1 DEF TypeOK, Silence, ItemKind, FatalKind
        <5> QED BY <5>1, <5>2
      <4> QED BY <1>5, <4>1, <4>2
    <3>2. MkItem(i, k) \in Item
      <4>1. sentence <= Sentences
        BY <2>1 DEF TypeInv, Stopped
      <4> QED BY <1>1, <4>1, MkItemType
    <3>3. PICK e \in Item : e = MkItem(i, k)
      BY <3>2
    <3>4. e \in Item \ Fatal
      BY <3>3 DEF MkItem, Fatal
    <3>5. /\ Len(Owed') = Len(Owed) + 1 /\ SubSeq(Owed', 1, Len(Owed)) = Owed
          /\ Owed'[Len(Owed) + 1] = e /\ Len(Owed) \in Nat
      BY <1>1, <2>1, <3>1, <3>3, OwedGrows DEF Owed, TypeOK
    <3>6. producer' \notin Stopped
      BY <1>5, <2>3 DEF SendChunk, SendSilence, SendOrStop, NextSentence, Stopped
    <3>7. /\ Len(Owed') > Len(Owed)
          /\ \A n \in (Len(Owed) + 1)..Len(Owed') : Owed'[n] \in Item \ Fatal
      BY <3>4, <3>5
    <3>8. Promise!Produce
      BY <2>1, <2>3, <3>5, <3>6, <3>7 DEF Promise!Produce, Stopped, Owed
    <3> QED BY <3>8 DEF Promise!Next
  <2> QED BY <2>2, <2>3
<1>6. CASE CallNext
  <2>1. UNCHANGED <<producer, received, channel, cancelled, late>> /\ reader = "idle"
    BY <1>6 DEF CallNext, producerVars, historyVars
  <2>2. CASE cancelled
    <3>1. reader' = "ended"
      BY <1>6, <2>2 DEF CallNext
    <3>2. Promise!End
      BY <2>1, <2>2, <3>1 DEF Promise!End
    <3> QED BY <3>2 DEF Promise!Next
  <2>3. CASE ~cancelled
    <3>1. reader' = "receiving"
      BY <1>6, <2>3 DEF CallNext
    <3> QED BY <2>1, <3>1, PromiseStutter DEF Owed, Source, Reading
  <2> QED BY <2>2, <2>3
<1>7. CASE Receive
  <2>1. /\ UNCHANGED <<producer, cancelled>>
        /\ reader = "receiving" /\ reader' = "idle"
        /\ late = 0 /\ late' = IF cancelled THEN late + 1 ELSE late
    BY <1>7 DEF Receive, producerVars, LateInv
  <2>2. (late > 0) = FALSE /\ (late' > 0) = cancelled
    BY <1>1, <2>1 DEF TypeOK
  <2>3. Promise!Deliver
    BY <1>1, <1>7, <2>1, <2>2, ReceivingKeepsOwed DEF Promise!Deliver, Owed
  <2> QED BY <2>3 DEF Promise!Next
<1>8. CASE Disconnected
  <2>1. /\ UNCHANGED <<producer, received, channel, cancelled, late>>
        /\ reader = "receiving" /\ reader' = "ended" /\ channel = << >>
        /\ producer \in Stopped
    BY <1>8 DEF Disconnected, producerVars, historyVars
  <2>2. received \o channel = received
    BY <1>1, <2>1 DEF TypeOK
  <2>3. cancelled \/ producer \in {"completed", "failed"}
    BY <2>1 DEF CompleteInv, Unhindered, ToldSoFar, Stopped
  <2>4. Promise!End
    BY <2>1, <2>2, <2>3 DEF Promise!End
  <2> QED BY <2>4 DEF Promise!Next
<1>9. CASE DropStream
  <2>1. UNCHANGED <<producer, received, channel, cancelled, late>>
        /\ reader = "idle" /\ reader' = "dropped"
    BY <1>9 DEF DropStream, producerVars, historyVars
  <2>2. Promise!Drop
    BY <2>1 DEF Promise!Drop
  <2> QED BY <2>2 DEF Promise!Next
<1>10. CASE Cancel
  <2>1. UNCHANGED <<producer, received, channel, reader, late>> /\ ~cancelled /\ cancelled' = TRUE
    BY <1>10 DEF Cancel, producerVars, historyVars
  <2>2. Promise!Cancel
    BY <2>1 DEF Promise!Cancel
  <2> QED BY <2>2 DEF Promise!Next
<1> QED
  BY <1>2, <1>3, <1>4, <1>5, <1>6, <1>7, <1>8, <1>9, <1>10 DEF Next, Produce, Read

(* ImplementsSpeechStream: whatever producer, reader and canceller do,     *)
(* RealtimeSpeechStream keeps the promises every stream of the crate makes. *)
THEOREM StreamKeepsPromise == Spec => ImplementsSpeechStream
<1>1. TypeInv /\ LateInv /\ CompleteInv /\ [Next]_vars => [Promise!Next]_(Promise!vars)
  BY PromiseStep
<1> QED
  BY <1>1, PromiseInit, LateInvariant, CompleteInvariant, PTL
  DEF Spec, ImplementsSpeechStream, Promise!Spec
=============================================================================
