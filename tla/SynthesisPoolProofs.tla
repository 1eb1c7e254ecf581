------------------------- MODULE SynthesisPoolProofs ------------------------
(***************************************************************************)
(* SynthesisPool for every size of the pool and any set of calls: with     *)
(* fewer nonblocking realtime calls than threads, readers never hold all   *)
(* the threads.                                                            *)
(***************************************************************************)
EXTENDS SynthesisPool, FiniteSetTheorems, TLAPS

(* Only readers of nonblocking calls sit on threads, each on one.          *)
ReadersInv ==
  /\ reader \in [Call -> ReaderPlace]
  /\ thread \in [Thread -> PoolJob \cup {Free}]
  /\ \A c \in Call : reader[c] = "queued" => c \in OnPool
  /\ \A t \in Thread, c \in Call : thread[t] = ReaderOf(c) =>
       c \in OnPool /\ reader[c] \notin {"idle", "queued", "done"}
  /\ \A t, u \in Thread, c \in Call :
       thread[t] = ReaderOf(c) /\ thread[u] = ReaderOf(c) => t = u

LEMMA JobsDiffer ==
  /\ \A c, d \in Call : ReaderOf(c) = ReaderOf(d) => c = d
  /\ \A c, d \in Call : ReaderOf(c) # ProducerOf(d)
  /\ \A c \in Call : ReaderOf(c) # Free /\ ReaderOf(c) \in PoolJob /\ ProducerOf(c) \in PoolJob
<1>1. \A c, d \in Call : ReaderOf(c) = ReaderOf(d) => c = d
  BY DEF ReaderOf
<1>2. \A c, d \in Call : ReaderOf(c) # ProducerOf(d)
  BY DEF ReaderOf, ProducerOf
<1>3. \A c \in Call : ReaderOf(c) \in PoolJob /\ ProducerOf(c) \in PoolJob
  BY DEF ReaderOf, ProducerOf, PoolJob
<1>4. Free \notin PoolJob
  BY FreeAssumption DEF PoolJob
<1>5. QED
  BY <1>1, <1>2, <1>3, <1>4

LEMMA ReadersInit == Init => ReadersInv
  BY JobsDiffer DEF Init, ReadersInv, ReaderPlace

(* A reader that goes on where it is.                                      *)
LEMMA ReaderGoesOn ==
  ASSUME ReadersInv, NEW c \in Call, NEW p \in ReaderPlace,
         reader' = [reader EXCEPT ![c] = p], thread' = thread,
         p \notin {"idle", "done"}, p = "queued" => c \in OnPool /\ reader[c] = "idle"
  PROVE  ReadersInv'
<1>1. \A d \in Call : reader'[d] = IF d = c THEN p ELSE reader[d]
  BY DEF ReadersInv
<1>2. ASSUME NEW t \in Thread, NEW d \in Call, thread[t] = ReaderOf(d)
      PROVE  d \in OnPool /\ reader'[d] \notin {"idle", "queued", "done"}
  BY <1>1, <1>2 DEF ReadersInv
<1>3. \A d \in Call : reader'[d] = "queued" => d \in OnPool
  BY <1>1 DEF ReadersInv
<1>4. reader' \in [Call -> ReaderPlace] /\ thread' \in [Thread -> PoolJob \cup {Free}]
  BY DEF ReadersInv
<1>5. QED
  BY <1>2, <1>3, <1>4 DEF ReadersInv

LEMMA ReadersStep == ReadersInv /\ [Next]_vars => ReadersInv'
<1> SUFFICES ASSUME ReadersInv, [Next]_vars PROVE ReadersInv'
  OBVIOUS
<1>1. ASSUME NEW c \in Call, Speak(c) PROVE ReadersInv'
  <2>1. PICK p \in {"queued", "opening"} :
          reader' = [reader EXCEPT ![c] = p] /\ (p = "queued" => c \in OnPool)
    BY <1>1 DEF Speak
  <2>2. reader[c] = "idle" /\ thread' = thread
    BY <1>1 DEF Speak
  <2>3. QED
    BY <2>1, <2>2, ReaderGoesOn DEF ReaderPlace
<1>2. ASSUME NEW c \in Call,
             \/ OpenStream(c) \/ OpenStreamFails(c) \/ Pull(c) \/ Receive(c)
             \/ Disconnected(c) \/ CallbackReturns(c) \/ DeliverEnd(c)
      PROVE  ReadersInv'
  <2>1. PICK p \in {"pulling", "receiving", "callback", "ending", "leaving"} :
          reader' = [reader EXCEPT ![c] = p]
    BY <1>2 DEF OpenStream, OpenStreamFails, Pull, Receive, Disconnected,
                CallbackReturns, DeliverEnd
  <2>2. thread' = thread
    BY <1>2 DEF OpenStream, OpenStreamFails, Pull, Receive, Disconnected,
                CallbackReturns, DeliverEnd
  <2>3. QED
    BY <2>1, <2>2, ReaderGoesOn DEF ReaderPlace
<1>3. ASSUME NEW c \in Call, LeaveReader(c) PROVE ReadersInv'
  <2>1. \A d \in Call : reader'[d] = IF d = c THEN "done" ELSE reader[d]
    BY <1>3 DEF LeaveReader, ReadersInv
  <2>2. \A t \in Thread : thread'[t] = IF thread[t] = ReaderOf(c) THEN Free ELSE thread[t]
    BY <1>3 DEF LeaveReader, Leave
  <2>3. reader' \in [Call -> ReaderPlace] /\ thread' \in [Thread -> PoolJob \cup {Free}]
    BY <1>3 DEF LeaveReader, Leave, ReadersInv, ReaderPlace
  <2>4. \A t \in Thread, d \in Call :
          thread'[t] = ReaderOf(d) => thread[t] = ReaderOf(d) /\ d # c
    BY <2>2, JobsDiffer
  <2>5. QED
    BY <2>1, <2>3, <2>4 DEF ReadersInv
<1>4. ASSUME NEW t \in Thread, NEW c \in Call, RunReader(t, c) PROVE ReadersInv'
  <2>1. \A d \in Call : reader'[d] = IF d = c THEN "opening" ELSE reader[d]
    BY <1>4 DEF RunReader, ReadersInv
  <2>2. /\ \A u \in Thread : thread'[u] = IF u = t THEN ReaderOf(c) ELSE thread[u]
        /\ reader[c] = "queued"
    BY <1>4 DEF RunReader, Runs, ReadersInv
  <2>3. reader' \in [Call -> ReaderPlace] /\ thread' \in [Thread -> PoolJob \cup {Free}]
    BY <1>4, JobsDiffer DEF RunReader, Runs, ReadersInv, ReaderPlace
  <2>4. ASSUME NEW u \in Thread, NEW d \in Call, thread'[u] = ReaderOf(d)
        PROVE  \/ u = t /\ d = c
               \/ u # t /\ d # c /\ thread[u] = ReaderOf(d)
    <3>1. CASE u = t
      <4>1. ReaderOf(c) = ReaderOf(d)
        BY <2>2, <2>4, <3>1
      <4>2. QED
        BY <3>1, <4>1, JobsDiffer
    <3>2. CASE u # t
      <4>1. thread[u] = ReaderOf(d)
        BY <2>2, <2>4, <3>2
      <4>2. d # c
        BY <2>2, <4>1 DEF ReadersInv
      <4>3. QED
        BY <3>2, <4>1, <4>2
    <3>3. QED
      BY <3>1, <3>2
  <2>5. c \in OnPool
    BY <2>2 DEF ReadersInv
  <2>6. ASSUME NEW u \in Thread, NEW d \in Call, thread'[u] = ReaderOf(d)
        PROVE  d \in OnPool /\ reader'[d] \notin {"idle", "queued", "done"}
    <3>1. CASE d = c
      BY <2>1, <2>5, <3>1
    <3>2. CASE d # c
      <4>1. thread[u] = ReaderOf(d)
        BY <2>4, <2>6, <3>2
      <4>2. QED
        BY <2>1, <3>2, <4>1 DEF ReadersInv
    <3>3. QED
      BY <3>1, <3>2
  <2>7. ASSUME NEW u \in Thread, NEW w \in Thread, NEW d \in Call,
               thread'[u] = ReaderOf(d), thread'[w] = ReaderOf(d)
        PROVE  u = w
    <3>1. CASE d = c
      BY <2>4, <2>7, <3>1
    <3>2. CASE d # c
      <4>1. thread[u] = ReaderOf(d) /\ thread[w] = ReaderOf(d)
        BY <2>4, <2>7, <3>2
      <4>2. QED
        BY <4>1 DEF ReadersInv
    <3>3. QED
      BY <3>1, <3>2
  <2>8. \A d \in Call : reader'[d] = "queued" => d \in OnPool
    BY <2>1 DEF ReadersInv
  <2>9. QED
    BY <2>3, <2>6, <2>7, <2>8 DEF ReadersInv
(* Producers leave the readers alone.                                      *)
<1>5. ASSUME reader' = reader,
             thread' \in [Thread -> PoolJob \cup {Free}],
             \A t \in Thread, c \in Call : thread'[t] = ReaderOf(c) => thread[t] = ReaderOf(c)
      PROVE  ReadersInv'
  BY <1>5 DEF ReadersInv
<1>6. ASSUME NEW t \in Thread, NEW c \in Call, RunProducer(t, c) PROVE ReadersInv'
  <2>1. /\ reader' = reader
        /\ thread' = [thread EXCEPT ![t] = ProducerOf(c)]
    BY <1>6 DEF RunProducer, Runs
  <2>2. \A u \in Thread : thread'[u] = IF u = t THEN ProducerOf(c) ELSE thread[u]
    BY <2>1 DEF ReadersInv
  <2>3. thread' \in [Thread -> PoolJob \cup {Free}]
    BY <2>1, JobsDiffer DEF ReadersInv
  <2>4. QED
    BY <1>5, <2>1, <2>2, <2>3, JobsDiffer
<1>7. ASSUME NEW c \in Call, LeaveProducer(c) PROVE ReadersInv'
  <2>1. /\ reader' = reader
        /\ \A u \in Thread : thread'[u] = IF thread[u] = ProducerOf(c) THEN Free ELSE thread[u]
    BY <1>7 DEF LeaveProducer, Leave
  <2>2. thread' \in [Thread -> PoolJob \cup {Free}]
    BY <1>7 DEF LeaveProducer, Leave, ReadersInv
  <2>3. QED
    BY <1>5, <2>1, <2>2, JobsDiffer
<1>8. CASE UNCHANGED <<reader, thread>>
  BY <1>8 DEF ReadersInv
<1>9. ASSUME NEW c \in Call, Send(c) \/ Cancel(c) PROVE ReadersInv'
  BY <1>8, <1>9 DEF Send, Cancel
<1>10. CASE UNCHANGED vars
  BY <1>8, <1>10 DEF vars
<1>11. QED
  BY <1>1, <1>2, <1>3, <1>4, <1>6, <1>7, <1>9, <1>10 DEF Next, ReaderStep

(* As long as fewer nonblocking realtime calls are made than the pool has  *)
(* threads, a producer that waits for a thread finds one that no reader    *)
(* holds: the condition under which libdengjenSpeak cannot starve itself.  *)
THEOREM PoolIsNotStarved == ASSUME FewerReadersThanThreads PROVE Spec => []NeverStarved
<1>1. ReadersInv => NeverStarved
  <2> SUFFICES ASSUME ReadersInv, \A t \in Thread : HeldByReader(t) PROVE FALSE
    BY DEF NeverStarved
  <2> DEFINE f == [t \in Thread |-> CHOOSE c \in Call : thread[t] = ReaderOf(c)]
  <2>1. \A t \in Thread : f[t] \in Call /\ thread[t] = ReaderOf(f[t])
    BY DEF HeldByReader
  <2>2. f \in [Thread -> OnPool]
    BY <2>1 DEF ReadersInv
  <2> HIDE DEF f
  <2>3. \E t, u \in Thread : t # u /\ f[t] = f[u]
    BY <2>2, FS_PigeonHole, ThreadAssumption, CallAssumption DEF FewerReadersThanThreads
  <2>4. QED
    BY <2>1, <2>3 DEF ReadersInv
<1>2. QED
  BY <1>1, ReadersInit, ReadersStep, PTL DEF Spec
=============================================================================
