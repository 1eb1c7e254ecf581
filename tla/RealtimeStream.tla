--------------------------- MODULE RealtimeStream ---------------------------
(***************************************************************************)
(* One realtime synthesis (RealtimeSpeechStream of the synth crate).  A    *)
(* producer job on the synthesis pool walks the phonemised sentences, asks *)
(* the model for a stream of chunks per sentence, shapes each chunk and    *)
(* sends it through an unbounded channel.  The reader pulls items with     *)
(* Iterator::next.  Another thread may cancel at any time, the reader may  *)
(* drop the stream between two pulls, and model or shaping code may fail   *)
(* or panic.  Every load of the shared cancellation flag is a step of its  *)
(* own, since the flag can change between any two of them.                 *)
(***************************************************************************)
EXTENDS Integers, Sequences

CONSTANTS
  Sentences,      (* number of sentences the text was phonemised into      *)
  MaxChunks,      (* bound: chunks one sentence is split into              *)
  SilenceMs       (* whether appended_silence_ms is configured             *)

ASSUME SentencesAssumption == Sentences \in Nat
ASSUME MaxChunksAssumption == MaxChunks \in Nat
ASSUME SilenceAssumption   == SilenceMs \in BOOLEAN

VARIABLES
  producer,   (* where the producer job is                                 *)
  sentence,   (* the sentence it works on, from 1                          *)
  chunk,      (* chunks the model has yielded for that sentence            *)
  held,       (* kind of the chunk between the model and the channel       *)
  channel,    (* the flume channel                                         *)
  reader,     (* where the reader of the stream is                         *)
  cancelled,  (* the flag behind the CancellationToken                     *)
  received,   (* history: every item next() returned                       *)
  yielded,    (* history: chunks the model yielded, per sentence           *)
  late,       (* history: items next() returned after the cancellation     *)
  wasted      (* history: chunks inferred after the reader was dropped     *)

producerVars == <<producer, sentence, chunk, held>>
historyVars  == <<received, yielded, late, wasted>>
vars == <<producer, sentence, chunk, held, channel, reader, cancelled,
          received, yielded, late, wasted>>

Stopped  == {"completed", "stopped", "failed"}
Producer == {"queued", "sentence", "opening", "streaming", "decoding",
             "gate", "sending", "tail", "silence"} \cup Stopped

(* What travels through the channel: a shaped chunk, the error of one      *)
(* chunk, the appended silence, and the two errors that end production.    *)
ItemKind == {"audio", "chunkError", "silence", "openError", "panic"}
FatalKind == {"openError", "panic"}
Item == [sentence : 1..Sentences, index : 1..(MaxChunks + 1), kind : ItemKind]
Fatal == {item \in Item : item.kind \in FatalKind}

MkItem(i, k) == [sentence |-> sentence, index |-> i, kind |-> k]

Init ==
  /\ producer = "queued"
  /\ sentence = 1
  /\ chunk = 0
  /\ held = "audio"
  /\ channel = << >>
  /\ reader = "idle"
  /\ cancelled = FALSE
  /\ received = << >>
  /\ yielded = [s \in 1..Sentences |-> 0]
  /\ late = 0
  /\ wasted = 0

-----------------------------------------------------------------------------
(* The producer job.                                                       *)

(* The pool picks the job up. *)
StartJob ==
  /\ producer = "queued"
  /\ producer' = "sentence"
  /\ UNCHANGED <<sentence, chunk, held, channel, reader, cancelled, historyVars>>

(* Head of the sentence loop: sentences exhausted, or the cancel check. *)
TakeSentence ==
  /\ producer = "sentence"
  /\ producer' = IF sentence > Sentences THEN "completed"
                 ELSE IF cancelled THEN "stopped" ELSE "opening"
  /\ UNCHANGED <<sentence, chunk, held, channel, reader, cancelled, historyVars>>

(* model.stream_synthesis: a stream, or an error that ends production. *)
OpenStream ==
  /\ producer = "opening"
  /\ producer' = "streaming"
  /\ UNCHANGED <<sentence, chunk, held, channel, reader, cancelled, historyVars>>

(* The result of the send is ignored. *)
SendUnlessDropped(item) ==
  channel' = IF reader = "dropped" THEN channel ELSE Append(channel, item)

(* Variant: production goes on with the next sentence after the error. *)
OpenStreamSkips ==
  /\ producer = "opening"
  /\ SendUnlessDropped(MkItem(1, "openError"))
  /\ producer' = "sentence"
  /\ sentence' = sentence + 1
  /\ UNCHANGED <<chunk, held, reader, cancelled, historyVars>>

OpenStreamFails ==
  /\ producer = "opening"
  /\ SendUnlessDropped(MkItem(1, "openError"))
  /\ producer' = "failed"
  /\ UNCHANGED <<sentence, chunk, held, reader, cancelled, historyVars>>

(* next() of the model's stream starts: it ends when cancelled or when the *)
(* sentence is done, and otherwise decodes one more chunk.                 *)
StreamEnds ==
  /\ producer = "streaming"
  /\ producer' = "tail"
  /\ UNCHANGED <<sentence, chunk, held, channel, reader, cancelled, historyVars>>

StreamDecodes ==
  /\ producer = "streaming"
  /\ ~cancelled
  /\ chunk < MaxChunks
  /\ producer' = "decoding"
  /\ wasted' = IF reader = "dropped" THEN wasted + 1 ELSE wasted
  /\ UNCHANGED <<sentence, chunk, held, channel, reader, cancelled,
                 received, yielded, late>>

StreamYields ==
  /\ producer = "decoding"
  /\ producer' = "gate"
  /\ chunk' = chunk + 1
  /\ held' \in {"audio", "chunkError"}
  /\ yielded' = [yielded EXCEPT ![sentence] = chunk + 1]
  /\ UNCHANGED <<sentence, channel, reader, cancelled, received, late, wasted>>

NextSentence ==
  /\ producer' = "sentence"
  /\ sentence' = sentence + 1
  /\ chunk' = 0

SameSentence == UNCHANGED <<sentence, chunk>>

(* process_rt_stream: a chunk that arrives after a cancellation is dropped *)
(* and the sentence is over.                                               *)
CheckChunk ==
  /\ producer = "gate"
  /\ IF cancelled THEN NextSentence
                  ELSE producer' = "sending" /\ SameSentence
  /\ UNCHANGED <<held, channel, reader, cancelled, historyVars>>

(* Variant: the result of the send is ignored. *)
SendOrGoOn(item, resume) ==
  /\ SendUnlessDropped(item)
  /\ resume

(* A send that fails because the reader is gone ends production. *)
SendOrStop(item, resume) ==
  IF reader = "dropped"
  THEN /\ producer' = "stopped"
       /\ SameSentence
       /\ UNCHANGED channel
  ELSE /\ channel' = Append(channel, item)
       /\ resume

(* AudioOutputConfig::apply_to_raw_samples: rate, volume and pitch may turn *)
(* a good chunk into an error; an error stays one.                         *)
Shaped(kind) == {kind, "chunkError"}

(* The loop goes on after the error of a chunk. *)
SendChunk ==
  /\ producer = "sending"
  /\ \E k \in Shaped(held) :
       SendOrStop(MkItem(chunk, k), producer' = "streaming" /\ SameSentence)
  /\ UNCHANGED <<held, reader, cancelled, historyVars>>

FinishSentence ==
  /\ producer = "tail"
  /\ IF ~cancelled /\ SilenceMs THEN producer' = "silence" /\ SameSentence
                                ELSE NextSentence
  /\ UNCHANGED <<held, channel, reader, cancelled, historyVars>>

(* generate_silence: samples, or an error if there would be too many.      *)
Silence == {"silence", "chunkError"}

(* The error of the silence is sent in its place. *)
SendSilence ==
  /\ producer = "silence"
  /\ \E k \in Silence :
       SendOrStop(MkItem(chunk + 1, k), NextSentence)
  /\ UNCHANGED <<held, reader, cancelled, historyVars>>

(* Variant: the panic is caught but not reported. *)
PanicUnreported ==
  /\ producer \in {"opening", "decoding", "sending", "silence"}
  /\ producer' = "failed"
  /\ UNCHANGED <<sentence, chunk, held, channel, reader, cancelled, historyVars>>

(* A panic in model or shaping code is caught and sent as an error. *)
Panic ==
  /\ producer \in {"opening", "decoding", "sending", "silence"}
  /\ SendUnlessDropped(MkItem(chunk + 1, "panic"))
  /\ producer' = "failed"
  /\ UNCHANGED <<sentence, chunk, held, reader, cancelled, historyVars>>

-----------------------------------------------------------------------------
(* The reader: next() checks the token, then blocks in recv.               *)

CallNext ==
  /\ reader = "idle"
  /\ reader' = IF cancelled THEN "ended" ELSE "receiving"
  /\ UNCHANGED <<producerVars, channel, cancelled, historyVars>>

Receive ==
  /\ reader = "receiving"
  /\ channel # << >>
  /\ received' = Append(received, Head(channel))
  /\ channel' = Tail(channel)
  /\ reader' = "idle"
  /\ late' = IF cancelled THEN late + 1 ELSE late
  /\ UNCHANGED <<producerVars, cancelled, yielded, wasted>>

(* Variant: the stream keeps a sender of its own, so only the token ends it. *)
NeverDisconnected ==
  /\ reader = "receiving"
  /\ channel = << >>
  /\ cancelled
  /\ reader' = "ended"
  /\ UNCHANGED <<producerVars, channel, cancelled, historyVars>>

(* The sender is gone and the channel is empty: recv fails, next is None. *)
Disconnected ==
  /\ reader = "receiving"
  /\ channel = << >>
  /\ producer \in Stopped
  /\ reader' = "ended"
  /\ UNCHANGED <<producerVars, channel, cancelled, historyVars>>

DropStream ==
  /\ reader = "idle"
  /\ reader' = "dropped"
  /\ UNCHANGED <<producerVars, channel, cancelled, historyVars>>

(* CancellationToken::cancel, from any thread. *)
Cancel ==
  /\ ~cancelled
  /\ cancelled' = TRUE
  /\ UNCHANGED <<producerVars, channel, reader, historyVars>>

Produce ==
  \/ StartJob \/ TakeSentence
  \/ OpenStream \/ OpenStreamFails
  \/ StreamEnds \/ StreamDecodes \/ StreamYields
  \/ CheckChunk \/ SendChunk
  \/ FinishSentence \/ SendSilence
  \/ Panic

Read == CallNext \/ Receive \/ Disconnected

Next == Produce \/ Read \/ DropStream \/ Cancel

Spec == Init /\ [][Next]_vars

(* The pool runs the job to its end, and the reader keeps pulling (every   *)
(* frontend drains the iterator in a loop).  Nobody has to cancel or drop. *)
FairSpec == Spec /\ WF_vars(Produce) /\ WF_vars(Read)

-----------------------------------------------------------------------------
(* Properties.                                                             *)

TypeOK ==
  /\ producer \in Producer
  /\ sentence \in 1..(Sentences + 1)
  /\ chunk \in 0..MaxChunks
  /\ held \in {"audio", "chunkError"}
  /\ channel \in Seq(Item)
  /\ reader \in {"idle", "receiving", "ended", "dropped"}
  /\ cancelled \in BOOLEAN
  /\ received \in Seq(Item)
  /\ yielded \in [1..Sentences -> 0..MaxChunks]
  /\ late \in Nat
  /\ wasted \in Nat

(* Items reach the reader in the order the text has: sentence by sentence, *)
(* chunk by chunk, the appended silence after the last chunk of its        *)
(* sentence, and nothing after an error that ended production.             *)
Before(a, b) ==
  /\ a.kind \notin FatalKind
  /\ \/ a.sentence < b.sentence
     \/ a.sentence = b.sentence /\ a.index < b.index /\ a.kind # "silence"

DeliveredInOrder ==
  \A i \in 1..(Len(received) - 1) : Before(received[i], received[i + 1])

(* An end that is neither cancelled nor reported as an error is a complete *)
(* utterance: every chunk the model yielded, and every silence configured, *)
(* was handed out.  The code catches unwinding producers for this.         *)
HandedOut(s, i) == \E n \in DOMAIN received :
                     received[n].sentence = s /\ received[n].index = i

NoSilentTruncation ==
  /\ reader = "ended"
  /\ ~cancelled
  /\ \A n \in DOMAIN received : received[n].kind \notin FatalKind
  => \A s \in 1..Sentences :
       \A i \in 1..(yielded[s] + IF SilenceMs THEN 1 ELSE 0) : HandedOut(s, i)

(* Cancelling also hides what is already buffered: only the pull that was  *)
(* blocked in recv when the flag was set may still return an item.         *)
AtMostOneLateItem == late <= 1

(* Dropping the stream stops synthesis: at most one more chunk is decoded. *)
AtMostOneWastedChunk == wasted <= 1

(* Neither a cancelled nor a dropped stream goes on for longer. *)
StopsPromptly == AtMostOneLateItem /\ AtMostOneWastedChunk

(* The stream keeps the promises every stream makes. *)
Promise == INSTANCE SpeechStream WITH
  Item      <- Item,
  Failure   <- Fatal,
  owed      <- received \o channel,
  delivered <- received,
  source    <- IF producer \in Stopped THEN producer ELSE "open",
  reader    <- IF reader \in {"idle", "receiving"} THEN "reading" ELSE reader,
  late      <- late > 0

ImplementsSpeechStream == Promise!Spec

(* A reader that keeps pulling comes to the end of the stream, whether the *)
(* producer finishes, fails, panics or is cancelled.                       *)
EveryStreamEnds == <>(reader \in {"ended", "dropped"})
=============================================================================
