---------------------------- MODULE GroupedStream ----------------------------
(***************************************************************************)
(* The three streams of the synth crate that hand out whole sentences.     *)
(* All of them synthesise a group of sentences at a time, and the reader   *)
(* computes the next group when it asks for more than is buffered.         *)
(*   lazy      a group is one sentence, spoken by the reader itself        *)
(*   batched   a group is GroupSize sentences, spoken by the pool          *)
(*   parallel  the group is the whole text, spoken by the pool before the  *)
(*             stream exists                                               *)
(* The pool speaks the sentences of a group in any order and up to Workers *)
(* of them at once; a sentence may fail or panic.                          *)
(***************************************************************************)
EXTENDS Naturals, Sequences, FiniteSets

CONSTANTS
  Modes,        (* of "lazy", "batched" and "parallel", those to check     *)
  Sentences,    (* number of sentences the text was phonemised into        *)
  GroupSize,    (* batch_size, a NonZeroUsize                              *)
  Workers       (* threads of the synthesis pool                           *)

ASSUME ModesAssumption == Modes \subseteq {"lazy", "batched", "parallel"}
ASSUME SentencesAssumption == Sentences \in Nat
ASSUME GroupSizeAssumption == GroupSize \in Nat \ {0}
ASSUME WorkersAssumption == Workers \in Nat \ {0}

Sentence == 1..Sentences

VARIABLES
  mode,        (* which of the three streams this is                       *)
  poolBuilds,  (* whether the shared pool can be built (a OnceLock)        *)
  reader,      (* where the reader is                                      *)
  pending,     (* sentences not yet taken                                  *)
  group,       (* the sentences of the group that is being computed        *)
  work,        (* how far each sentence is                                 *)
  buffered,    (* computed items that were not asked for yet               *)
  received     (* history: every item next() returned                      *)

fixed == <<mode, poolBuilds>>
vars == <<fixed, reader, pending, group, work, buffered, received>>

(* How many sentences go into a group. *)
Size == CASE mode = "lazy" -> 1
          [] mode = "batched" -> GroupSize
          [] mode = "parallel" -> Sentences + 1

ItemKind == {"audio", "error", "poolError"}
Item == [sentence : 0..Sentences, kind : ItemKind]
PoolError == [sentence |-> 0, kind |-> "poolError"]
Spoken == {"audio", "error"}

Init ==
  /\ mode \in Modes
  /\ poolBuilds \in BOOLEAN
  /\ reader = "constructing"
  /\ pending = [i \in Sentence |-> i]
  /\ group = << >>
  /\ work = [s \in Sentence |-> "waiting"]
  /\ buffered = << >>
  /\ received = << >>

-----------------------------------------------------------------------------
(* Taking and computing a group.                                           *)

NeedsPool == mode # "lazy"
PoolMissing == NeedsPool /\ ~poolBuilds
Lesser(a, b) == IF a < b THEN a ELSE b

(* At most Size sentences leave `pending`, in text order. *)
TakeGroup ==
  LET n == Lesser(Size, Len(pending)) IN
  /\ group' = SubSeq(pending, 1, n)
  /\ pending' = SubSeq(pending, n + 1, Len(pending))

(* A worker takes one of the group's sentences. *)
Begin(s) ==
  /\ reader = "computing"
  /\ \E i \in DOMAIN group : group[i] = s
  /\ work[s] = "waiting"
  /\ Cardinality({t \in Sentence : work[t] = "speaking"}) < Workers
  /\ work' = [work EXCEPT ![s] = "speaking"]
  /\ UNCHANGED <<fixed, reader, pending, group, buffered, received>>

(* AudioOutputConfig::apply keeps an error and may make one of good audio. *)
Shaped(kind) == {kind, "error"}

(* speak_one_sentence and shape_output: audio, an error, or a panic. *)
Speak(s) ==
  /\ work[s] = "speaking"
  /\ \E kind \in Spoken : \E outcome \in Shaped(kind) \cup {"panic"} :
       work' = [work EXCEPT ![s] = outcome]
  /\ UNCHANGED <<fixed, reader, pending, group, buffered, received>>

(* Variant for the mutation runs: failed sentences are filtered out. *)
CollectedAudio ==
  LET outcome(i) == [sentence |-> group[i], kind |-> work[group[i]]]
      isAudio(item) == item.kind = "audio"
  IN  SelectSeq([i \in DOMAIN group |-> outcome(i)], isAudio)

(* The outcomes in the order of the text, however they came about. *)
Collected ==
  [i \in DOMAIN group |-> [sentence |-> group[i], kind |-> work[group[i]]]]

Collect ==
  /\ reader = "computing"
  /\ \A i \in DOMAIN group : work[group[i]] \in Spoken
  /\ buffered' = Collected
  /\ group' = << >>
  /\ reader' = IF mode = "parallel" THEN "idle" ELSE "taking"
  /\ UNCHANGED <<fixed, pending, work, received>>

(* Variant: the panic ends the job and nothing else. *)
PanicSwallowed ==
  /\ reader = "computing"
  /\ \E s \in Sentence : work[s] = "panic"
  /\ \A s \in Sentence : work[s] # "speaking"
  /\ UNCHANGED vars

(* A panic is raised again in the reader once no sentence is being spoken; *)
(* every frontend gives the stream up then.                                *)
PanicSurfaces ==
  /\ reader = "computing"
  /\ \E s \in Sentence : work[s] = "panic"
  /\ \A s \in Sentence : work[s] # "speaking"
  /\ reader' = "panicked"
  /\ UNCHANGED <<fixed, pending, group, work, buffered, received>>

-----------------------------------------------------------------------------
(* Constructing the stream.                                                *)

(* get_phonemes fails, or the pool a parallel stream needs at once does.   *)
Refuse ==
  /\ reader = "constructing"
  /\ reader' = "refused"
  /\ UNCHANGED <<fixed, pending, group, work, buffered, received>>

NewOnDemand ==
  /\ reader = "constructing"
  /\ mode # "parallel"
  /\ reader' = "idle"
  /\ UNCHANGED <<fixed, pending, group, work, buffered, received>>

NewParallel ==
  /\ reader = "constructing"
  /\ mode = "parallel"
  /\ ~PoolMissing
  /\ TakeGroup
  /\ reader' = "computing"
  /\ UNCHANGED <<fixed, work, buffered, received>>

-----------------------------------------------------------------------------
(* Iterator::next.                                                         *)

HandOut ==
  /\ reader \in {"idle", "taking"}
  /\ buffered # << >>
  /\ received' = Append(received, Head(buffered))
  /\ buffered' = Tail(buffered)
  /\ reader' = "idle"
  /\ UNCHANGED <<fixed, pending, group, work>>

(* Variant: the next group is started while items are still buffered. *)
AskEarly ==
  /\ reader = "idle"
  /\ pending # << >>

Ask ==
  /\ reader = "idle"
  /\ buffered = << >>
  /\ pending # << >>

ComputeGroup ==
  /\ Ask
  /\ ~PoolMissing
  /\ TakeGroup
  /\ reader' = "computing"
  /\ UNCHANGED <<fixed, work, buffered, received>>

(* Variant: the sentences after the failed group stay pending. *)
PoolFailsForGroup ==
  /\ Ask
  /\ PoolMissing
  /\ pending' = SubSeq(pending, Lesser(Size, Len(pending)) + 1, Len(pending))
  /\ buffered' = <<PoolError>>
  /\ reader' = "taking"
  /\ UNCHANGED <<fixed, group, work, received>>

(* Without a pool the text is given up with one error. *)
PoolFails ==
  /\ Ask
  /\ PoolMissing
  /\ pending' = << >>
  /\ buffered' = <<PoolError>>
  /\ reader' = "taking"
  /\ UNCHANGED <<fixed, group, work, received>>

NoMore ==
  /\ reader = "idle"
  /\ buffered = << >>
  /\ pending = << >>
  /\ reader' = "ended"
  /\ UNCHANGED <<fixed, pending, group, work, buffered, received>>

DropStream ==
  /\ reader = "idle"
  /\ reader' = "dropped"
  /\ UNCHANGED <<fixed, pending, group, work, buffered, received>>

-----------------------------------------------------------------------------
Compute == (\E s \in Sentence : Begin(s) \/ Speak(s)) \/ Collect \/ PanicSurfaces
Construct == Refuse \/ NewOnDemand \/ NewParallel
CallNext == HandOut \/ ComputeGroup \/ PoolFails \/ NoMore

Next == Construct \/ Compute \/ CallNext \/ DropStream

Spec == Init /\ [][Next]_vars

(* The pool runs the jobs it was given, the model answers, and the reader  *)
(* keeps pulling, as every frontend does.                                  *)
FairSpec == Spec /\ WF_vars(Construct) /\ WF_vars(Compute) /\ WF_vars(CallNext)

-----------------------------------------------------------------------------
(* Properties.                                                             *)

Gone == {"refused", "panicked", "dropped"}

TypeOK ==
  /\ mode \in Modes
  /\ poolBuilds \in BOOLEAN
  /\ reader \in {"constructing", "computing", "taking", "idle", "ended"} \cup Gone
  /\ pending \in Seq(Sentence)
  /\ group \in Seq(Sentence)
  /\ work \in [Sentence -> {"waiting", "speaking", "panic"} \cup Spoken]
  /\ buffered \in Seq(Item)
  /\ received \in Seq(Item)

(* The item in place i is what came of sentence i, audio or its own error, *)
(* whatever order the pool spoke the group in.                             *)
OutcomesInPlace ==
  \A i \in DOMAIN received :
    received[i] # PoolError =>
      received[i].sentence = i /\ received[i].kind = work[i]

(* The comment on DengjenSpeechStreamBatched: one group at a time, only    *)
(* when next() needs more.  No sentence is begun more than a group ahead   *)
(* of the reader.                                                          *)
OneGroupAhead ==
  Cardinality({s \in Sentence : work[s] # "waiting"}) <= Len(received) + Size

(* The stream keeps the promises every stream makes; nobody can cancel it. *)
Promise == INSTANCE SpeechStream WITH
  Item      <- Item,
  Failure   <- {PoolError},
  owed      <- received \o buffered,
  delivered <- received,
  source    <- IF PoolError \in {(received \o buffered)[i] :
                                   i \in DOMAIN (received \o buffered)}
                 THEN "failed"
               ELSE IF pending = << >> /\ group = << >> THEN "completed"
               ELSE "open",
  reader    <- IF reader \in Gone THEN "dropped"
               ELSE IF reader = "ended" THEN "ended" ELSE "reading",
  cancelled <- FALSE,
  late      <- FALSE

ImplementsSpeechStream == Promise!Spec

(* A reader that keeps pulling comes to the end of the stream. *)
EveryStreamEnds == <>(reader \in {"ended"} \cup Gone)
=============================================================================
