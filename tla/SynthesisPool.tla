--------------------------- MODULE SynthesisPool ----------------------------
(***************************************************************************)
(* Who occupies the threads of the shared synthesis pool when realtime     *)
(* streams are read.  Every realtime stream spawns a producer job on the   *)
(* pool.  Its reader blocks in recv: on a thread of its own when the call  *)
(* is blocking or comes from another frontend, and on a thread of the very *)
(* same pool when it is a nonblocking libdengjenSpeak.  A reader that      *)
(* waits in recv does not run other jobs in the meantime.  What is sent is *)
(* RealtimeStream's subject; here only items are counted.                  *)
(***************************************************************************)
EXTENDS Integers, FiniteSets

CONSTANTS
  Thread,     (* threads of the pool; cores * 4 in the code                *)
  OnPool,     (* nonblocking realtime calls: their reader is a pool job    *)
  OffPool,    (* realtime calls whose reader has a thread of its own       *)
  Free,       (* a pool thread without a job                               *)
  MaxItems    (* bound: items a producer sends                             *)

Call == OnPool \cup OffPool

ASSUME ThreadAssumption == IsFiniteSet(Thread)
ASSUME CallAssumption   == IsFiniteSet(OnPool) /\ OnPool \cap OffPool = {}
ASSUME FreeAssumption   == Free \notin {"reader", "producer"} \X Call
ASSUME ItemsAssumption  == MaxItems \in Nat

VARIABLES
  reader,     (* where the reader of each call is                          *)
  producer,   (* where its producer job is                                 *)
  thread,     (* the job each pool thread is inside of                     *)
  buffered,   (* items in the channel                                      *)
  sent,       (* items the producer has sent                               *)
  cancelled,  (* the call's CancellationToken                              *)
  ended       (* history: events that ended the call's callbacks           *)

vars == <<reader, producer, thread, buffered, sent, cancelled, ended>>

ReaderOf(c) == <<"reader", c>>
ProducerOf(c) == <<"producer", c>>
PoolJob == {"reader", "producer"} \X Call
ReaderPlace == {"idle", "queued", "opening", "pulling", "receiving",
                "callback", "ending", "leaving", "done"}

Init ==
  /\ reader = [c \in Call |-> "idle"]
  /\ producer = [c \in Call |-> "none"]
  /\ thread = [t \in Thread |-> Free]
  /\ buffered = [c \in Call |-> 0]
  /\ sent = [c \in Call |-> 0]
  /\ cancelled = [c \in Call |-> FALSE]
  /\ ended = [c \in Call |-> 0]

Runs(t, job) ==
  /\ thread[t] = Free
  /\ thread' = [thread EXCEPT ![t] = job]

(* The end of a job frees the thread it was on. *)
Leave(job) ==
  thread' = [t \in Thread |-> IF thread[t] = job THEN Free ELSE thread[t]]

-----------------------------------------------------------------------------
(* The reader: _synthesize, _do_synthesize, iterate_stream.                *)

(* Variant for the mutation runs: blocking calls are pool jobs, too. *)
SpeakOnPool(c) ==
  /\ reader[c] = "idle"
  /\ reader' = [reader EXCEPT ![c] = "queued"]
  /\ UNCHANGED <<producer, thread, buffered, sent, cancelled, ended>>

Speak(c) ==
  /\ reader[c] = "idle"
  /\ reader' = [reader EXCEPT ![c] = IF c \in OnPool THEN "queued" ELSE "opening"]
  /\ UNCHANGED <<producer, thread, buffered, sent, cancelled, ended>>

RunReader(t, c) ==
  /\ reader[c] = "queued"
  /\ Runs(t, ReaderOf(c))
  /\ reader' = [reader EXCEPT ![c] = "opening"]
  /\ UNCHANGED <<producer, buffered, sent, cancelled, ended>>

(* RealtimeSpeechStream::new hands the producer to the pool and returns. *)
OpenStream(c) ==
  /\ reader[c] = "opening"
  /\ reader' = [reader EXCEPT ![c] = "pulling"]
  /\ producer' = [producer EXCEPT ![c] = "queued"]
  /\ UNCHANGED <<thread, buffered, sent, cancelled, ended>>

(* Phonemisation fails: the call ends with an error. *)
OpenStreamFails(c) ==
  /\ reader[c] = "opening"
  /\ reader' = [reader EXCEPT ![c] = "ending"]
  /\ UNCHANGED <<producer, thread, buffered, sent, cancelled, ended>>

Pull(c) ==
  /\ reader[c] = "pulling"
  /\ reader' = [reader EXCEPT ![c] = IF cancelled[c] THEN "ending" ELSE "receiving"]
  /\ UNCHANGED <<producer, thread, buffered, sent, cancelled, ended>>

Receive(c) ==
  /\ reader[c] = "receiving"
  /\ buffered[c] > 0
  /\ buffered' = [buffered EXCEPT ![c] = @ - 1]
  /\ reader' = [reader EXCEPT ![c] = "callback"]
  /\ UNCHANGED <<producer, thread, sent, cancelled, ended>>

(* Variant: the stream holds a sender itself, so the channel stays open. *)
DisconnectedNever(c) ==
  /\ reader[c] = "receiving"
  /\ buffered[c] = 0
  /\ producer[c] = "done"
  /\ cancelled[c]
  /\ reader' = [reader EXCEPT ![c] = "ending"]
  /\ UNCHANGED <<producer, thread, buffered, sent, cancelled, ended>>

Disconnected(c) ==
  /\ reader[c] = "receiving"
  /\ buffered[c] = 0
  /\ producer[c] = "done"
  /\ reader' = [reader EXCEPT ![c] = "ending"]
  /\ UNCHANGED <<producer, thread, buffered, sent, cancelled, ended>>

(* The callback wants more, or asks to stop. *)
CallbackReturns(c) ==
  /\ reader[c] = "callback"
  /\ \E p \in {"pulling", "leaving"} : reader' = [reader EXCEPT ![c] = p]
  /\ UNCHANGED <<producer, thread, buffered, sent, cancelled, ended>>

(* The FINISHED or ERROR event. *)
DeliverEnd(c) ==
  /\ reader[c] = "ending"
  /\ reader' = [reader EXCEPT ![c] = "leaving"]
  /\ ended' = [ended EXCEPT ![c] = @ + 1]
  /\ UNCHANGED <<producer, thread, buffered, sent, cancelled>>

LeaveReader(c) ==
  /\ reader[c] = "leaving"
  /\ reader' = [reader EXCEPT ![c] = "done"]
  /\ Leave(ReaderOf(c))
  /\ UNCHANGED <<producer, buffered, sent, cancelled, ended>>

-----------------------------------------------------------------------------
(* The producer job.                                                       *)

RunProducer(t, c) ==
  /\ producer[c] = "queued"
  /\ Runs(t, ProducerOf(c))
  /\ producer' = [producer EXCEPT ![c] = "running"]
  /\ UNCHANGED <<reader, buffered, sent, cancelled, ended>>

(* The channel is unbounded: a send never waits. *)
Send(c) ==
  /\ producer[c] = "running"
  /\ sent[c] < MaxItems
  /\ reader[c] # "done"
  /\ sent' = [sent EXCEPT ![c] = @ + 1]
  /\ buffered' = [buffered EXCEPT ![c] = @ + 1]
  /\ UNCHANGED <<reader, producer, thread, cancelled, ended>>

(* All sentences done, cancelled, failed, or the reader is gone. *)
LeaveProducer(c) ==
  /\ producer[c] = "running"
  /\ producer' = [producer EXCEPT ![c] = "done"]
  /\ Leave(ProducerOf(c))
  /\ UNCHANGED <<reader, buffered, sent, cancelled, ended>>

(* libdengjenCancel only sets the token. *)
Cancel(c) ==
  /\ reader[c] \notin {"idle", "queued", "done"}
  /\ ~cancelled[c]
  /\ cancelled' = [cancelled EXCEPT ![c] = TRUE]
  /\ UNCHANGED <<reader, producer, thread, buffered, sent, ended>>

ReaderStep(c) ==
  \/ OpenStream(c) \/ OpenStreamFails(c)
  \/ Pull(c) \/ Receive(c) \/ Disconnected(c)
  \/ CallbackReturns(c) \/ DeliverEnd(c) \/ LeaveReader(c)

Next ==
  \/ \E c \in Call :
       Speak(c) \/ ReaderStep(c) \/ Send(c) \/ LeaveProducer(c) \/ Cancel(c)
  \/ \E t \in Thread, c \in Call : RunReader(t, c) \/ RunProducer(t, c)

Spec == Init /\ [][Next]_vars

(* A free pool thread takes a queued job, and code that is not waiting     *)
(* runs on: models finish their streams and callbacks return.              *)
FairSpec ==
  /\ Spec
  /\ \A c \in Call :
       /\ WF_vars(ReaderStep(c))
       /\ WF_vars(LeaveProducer(c))
       /\ WF_vars(\E t \in Thread : RunReader(t, c))
       /\ WF_vars(\E t \in Thread : RunProducer(t, c))

-----------------------------------------------------------------------------
(* Properties.                                                             *)

TypeOK ==
  /\ reader \in [Call -> ReaderPlace]
  /\ producer \in [Call -> {"none", "queued", "running", "done"}]
  /\ thread \in [Thread -> PoolJob \cup {Free}]
  /\ buffered \in [Call -> 0..MaxItems]
  /\ sent \in [Call -> 0..MaxItems]
  /\ cancelled \in [Call -> BOOLEAN]
  /\ ended \in [Call -> Nat]

(* The readers of at most this many calls can sit on pool threads.         *)
FewerReadersThanThreads == Cardinality(OnPool) < Cardinality(Thread)

(* A producer that waits for a thread never finds all of them held by      *)
(* readers: one of them is free or will be given back by a producer, which *)
(* waits for nobody.                                                       *)
HeldByReader(t) == \E c \in Call : thread[t] = ReaderOf(c)
NeverStarved ==
  (\E c \in Call : producer[c] = "queued") => \E t \in Thread : ~HeldByReader(t)

(* Every speak call comes to its end, cancelled or not.                    *)
EveryCallEnds == \A c \in Call : reader[c] # "idle" ~> reader[c] = "done"

(* lib.rs:772: "The streaming callback still receives                      *)
(* SYNTH_EVENT_FINISHED after a successful cancellation": the callbacks of *)
(* a cancelled call come to their end.  A callback that declines more      *)
(* audio itself needs no event.                                            *)
CancelledCallEnds ==
  \A c \in Call : cancelled[c] ~> ended[c] = 1 \/ reader[c] = "done"
=============================================================================
