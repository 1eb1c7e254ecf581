---------------------------- MODULE GrpcService ----------------------------
(***************************************************************************)
(* The gRPC server: the registry of loaded voices, the permits that cap    *)
(* voice loads and syntheses, the blocking task behind every load and      *)
(* every synthesis, and the bounded channel a synthesis answers through.   *)
(* What a synthesis yields is one of the streams of the synth crate; here  *)
(* it is a number of chunks that an error, or a panic, may cut short.      *)
(* Clients are concurrent and may go away at any time.                     *)
(***************************************************************************)
EXTENDS Naturals, Sequences, FiniteSets

CONSTANTS
  Load,        (* LoadVoice requests                                       *)
  Utterance,   (* SynthesizeUtterance requests                             *)
  Realtime,    (* SynthesizeUtteranceRealtime requests                     *)
  Key,         (* voice keys, one per canonical config path                *)
  None,        (* no voice, no key                                         *)
  MaxVoices,   (* max_voices                                               *)
  MaxPermits,  (* max_concurrent_synthesis                                 *)
  Capacity,    (* of a response channel; 512 in the code                   *)
  Chunks       (* bound: chunks of an utterance                            *)

Synthesis == Utterance \cup Realtime
Request   == Load \cup Synthesis

ASSUME RequestAssumption ==
  /\ IsFiniteSet(Request)
  /\ Load \cap Synthesis = {}
  /\ Utterance \cap Realtime = {}
ASSUME NoneAssumption == None \notin Request \cup Key
ASSUME LimitAssumption ==
  /\ MaxVoices \in Nat \ {0}
  /\ MaxPermits \in Nat \ {0}
  /\ Capacity \in Nat \ {0}
  /\ Chunks \in Nat

VARIABLES
  voices,     (* the registry: which load a key's model came from          *)
  permits,    (* permits left in the semaphore                             *)
  call,       (* where each request's handler, then its response, is       *)
  key,        (* the voice key of each request                             *)
  using,      (* the model each request works on or answered with          *)
  task,       (* the request's blocking task                               *)
  spoken,     (* chunks the task has taken from its stream                 *)
  channel,    (* the response channel                                      *)
  got,        (* chunks the client has received                            *)
  answer,     (* how the request ended for its client                      *)
  panicked    (* history: tasks that ended in a panic                      *)

streamVars == <<spoken, channel, got>>
vars == <<voices, permits, call, key, using, task, spoken, channel, got,
          answer, panicked>>

Init ==
  /\ voices = [k \in Key |-> None]
  /\ permits = MaxPermits
  /\ call = [r \in Request |-> "idle"]
  /\ key = [r \in Request |-> None]
  /\ using = [r \in Request |-> None]
  /\ task = [r \in Request |-> "none"]
  /\ spoken = [r \in Request |-> 0]
  /\ channel = [r \in Request |-> << >>]
  /\ got = [r \in Request |-> 0]
  /\ answer = [r \in Request |-> "none"]
  /\ panicked = {}

(* The request ends for its client. *)
Answer(r, how) ==
  /\ call' = [call EXCEPT ![r] = "done"]
  /\ answer' = [answer EXCEPT ![r] = how]

(* The blocking task ends and drops what it owns, its permit included. *)
EndTask(r) ==
  /\ task' = [task EXCEPT ![r] = "done"]
  /\ permits' = permits + 1

Registered(k) == voices[k] # None

-----------------------------------------------------------------------------
(* LoadVoice.                                                              *)

(* The config path is resolved to its key, or does not exist. *)
ResolveKey(r) ==
  /\ call[r] = "idle"
  /\ \E k \in Key : key' = [key EXCEPT ![r] = k]
  /\ call' = [call EXCEPT ![r] = "keyed"]
  /\ UNCHANGED <<voices, permits, using, task, streamVars, answer, panicked>>

Reject(r) ==
  /\ call[r] = "idle"
  /\ Answer(r, "error")
  /\ UNCHANGED <<voices, permits, key, using, task, streamVars, panicked>>

AnswerCached(r) ==
  /\ call[r] = "keyed"
  /\ Registered(key[r])
  /\ using' = [using EXCEPT ![r] = voices[key[r]]]
  /\ Answer(r, "ok")
  /\ UNCHANGED <<voices, permits, key, task, streamVars, panicked>>

RefuseLoad(r) ==
  /\ call[r] = "keyed"
  /\ ~Registered(key[r])
  /\ permits = 0
  /\ Answer(r, "error")
  /\ UNCHANGED <<voices, permits, key, using, task, streamVars, panicked>>

StartLoad(r) ==
  /\ call[r] = "keyed"
  /\ ~Registered(key[r])
  /\ permits > 0
  /\ permits' = permits - 1
  /\ task' = [task EXCEPT ![r] = "loading"]
  /\ call' = [call EXCEPT ![r] = "loading"]
  /\ UNCHANGED <<voices, key, using, streamVars, answer, panicked>>

(* The permit goes back before the model is registered.  When the client   *)
(* went away nobody waits for the model, and it is dropped.                *)
FinishLoad(r) ==
  /\ task[r] = "loading"
  /\ EndTask(r)
  /\ call' = [call EXCEPT ![r] = IF @ = "loading" THEN "registering" ELSE @]
  /\ UNCHANGED <<voices, key, using, streamVars, answer, panicked>>

(* The load fails or panics, which run_blocking turns into an error. *)
FailLoad(r) ==
  /\ task[r] = "loading"
  /\ EndTask(r)
  /\ IF call[r] = "loading" THEN Answer(r, "error") ELSE UNCHANGED <<call, answer>>
  /\ UNCHANGED <<voices, key, using, streamVars, panicked>>

VoicesFull == Cardinality({k \in Key : Registered(k)}) >= MaxVoices

RefuseVoice(r) ==
  /\ call[r] = "registering"
  /\ ~Registered(key[r]) /\ VoicesFull
  /\ Answer(r, "error")
  /\ UNCHANGED <<voices, permits, key, using, task, streamVars, panicked>>

(* Variant for the mutation runs: the later load replaces the voice. *)
RegisterReplacing(r) ==
  /\ call[r] = "registering"
  /\ Registered(key[r]) \/ ~VoicesFull
  /\ voices' = [voices EXCEPT ![key[r]] = r]
  /\ using' = [using EXCEPT ![r] = r]
  /\ Answer(r, "ok")
  /\ UNCHANGED <<permits, key, task, streamVars, panicked>>

(* A voice that a concurrent load registered first wins, and is answered.  *)
Register(r) ==
  /\ call[r] = "registering"
  /\ Registered(key[r]) \/ ~VoicesFull
  /\ voices' = [voices EXCEPT ![key[r]] = IF @ = None THEN r ELSE @]
  /\ using' = [using EXCEPT ![r] = voices'[key[r]]]
  /\ Answer(r, "ok")
  /\ UNCHANGED <<permits, key, task, streamVars, panicked>>

-----------------------------------------------------------------------------
(* SynthesizeUtterance and SynthesizeUtteranceRealtime.                    *)

(* Invalid arguments are Reject; an unknown key or no permit is an error.  *)
RefuseSynthesis(r, k) ==
  /\ call[r] = "idle"
  /\ ~Registered(k) \/ permits = 0
  /\ key' = [key EXCEPT ![r] = k]
  /\ Answer(r, "error")
  /\ UNCHANGED <<voices, permits, using, task, streamVars, panicked>>

(* Variant: a permit is taken whether or not one is left. *)
StartAnyhow(r, k) ==
  /\ call[r] = "idle"
  /\ Registered(k)
  /\ key' = [key EXCEPT ![r] = k]
  /\ using' = [using EXCEPT ![r] = voices[k]]
  /\ permits' = IF permits > 0 THEN permits - 1 ELSE permits
  /\ task' = [task EXCEPT ![r] = "building"]
  /\ call' = [call EXCEPT ![r] = "streaming"]
  /\ UNCHANGED <<voices, streamVars, answer, panicked>>

StartSynthesis(r, k) ==
  /\ call[r] = "idle"
  /\ Registered(k)
  /\ permits > 0
  /\ key' = [key EXCEPT ![r] = k]
  /\ using' = [using EXCEPT ![r] = voices[k]]
  /\ permits' = permits - 1
  /\ task' = [task EXCEPT ![r] = "building"]
  /\ call' = [call EXCEPT ![r] = "streaming"]
  /\ UNCHANGED <<voices, streamVars, answer, panicked>>

(* The stream is built, or an error takes its place. *)
BuildStream(r) ==
  /\ task[r] = "building"
  /\ \E next \in {"pulling", "failing"} : task' = [task EXCEPT ![r] = next]
  /\ UNCHANGED <<voices, permits, call, key, using, streamVars, answer, panicked>>

PullChunk(r) ==
  /\ task[r] = "pulling"
  /\ spoken[r] < Chunks
  /\ task' = [task EXCEPT ![r] = "sending"]
  /\ spoken' = [spoken EXCEPT ![r] = @ + 1]
  /\ UNCHANGED <<voices, permits, call, key, using, channel, got, answer, panicked>>

(* Variant: the error ends the task and nothing else. *)
PullErrorQuietly(r) ==
  /\ task[r] = "pulling"
  /\ spoken[r] < Chunks
  /\ EndTask(r)
  /\ UNCHANGED <<voices, call, key, using, streamVars, answer, panicked>>

PullError(r) ==
  /\ task[r] = "pulling"
  /\ spoken[r] < Chunks
  /\ task' = [task EXCEPT ![r] = "failing"]
  /\ UNCHANGED <<voices, permits, call, key, using, streamVars, answer, panicked>>

PullEnd(r) ==
  /\ task[r] = "pulling"
  /\ spoken[r] = Chunks
  /\ EndTask(r)
  /\ UNCHANGED <<voices, call, key, using, streamVars, answer, panicked>>

(* Phonemiser or model code panics in the task, which nobody joins.  Once  *)
(* a realtime stream exists its producer turns panics into error items.    *)
TaskPanics(r) ==
  /\ \/ task[r] = "building"
     \/ r \in Utterance /\ task[r] = "pulling" /\ spoken[r] < Chunks
  /\ EndTask(r)
  /\ panicked' = panicked \cup {r}
  /\ UNCHANGED <<voices, call, key, using, streamVars, answer>>

Connected(r) == call[r] = "streaming"

Send(r, item) ==
  /\ Connected(r)
  /\ Len(channel[r]) < Capacity
  /\ channel' = [channel EXCEPT ![r] = Append(@, item)]

SendChunk(r) ==
  /\ task[r] = "sending"
  /\ Send(r, "chunk")
  /\ task' = [task EXCEPT ![r] = "pulling"]
  /\ UNCHANGED <<voices, permits, call, key, using, spoken, got, answer, panicked>>

(* Variant: the error is sent only if there is room for it. *)
TrySendError(r) ==
  /\ task[r] = "failing"
  /\ channel' = [channel EXCEPT ![r] =
                   IF Len(@) < Capacity THEN Append(@, "error") ELSE @]
  /\ EndTask(r)
  /\ UNCHANGED <<voices, call, key, using, spoken, got, answer, panicked>>

SendError(r) ==
  /\ task[r] = "failing"
  /\ Send(r, "error")
  /\ EndTask(r)
  /\ UNCHANGED <<voices, call, key, using, spoken, got, answer, panicked>>

(* Variant: a send to a client that is gone is tried for ever. *)
SendForever(r) ==
  /\ task[r] \in {"sending", "failing"}
  /\ ~Connected(r)
  /\ UNCHANGED vars

(* blocking_send fails once the receiver is gone: the task returns. *)
SendFails(r) ==
  /\ task[r] \in {"sending", "failing"}
  /\ ~Connected(r)
  /\ EndTask(r)
  /\ UNCHANGED <<voices, call, key, using, streamVars, answer, panicked>>

-----------------------------------------------------------------------------
(* The client's end of a response stream.                                  *)

Receive(r) ==
  /\ Connected(r)
  /\ channel[r] # << >>
  /\ channel' = [channel EXCEPT ![r] = Tail(@)]
  /\ IF Head(channel[r]) = "chunk"
     THEN got' = [got EXCEPT ![r] = @ + 1] /\ UNCHANGED <<call, answer>>
     ELSE Answer(r, "error") /\ UNCHANGED got
  /\ UNCHANGED <<voices, permits, key, using, task, spoken, panicked>>

(* All senders are gone: the response ends with status OK. *)
EndOfResponse(r) ==
  /\ Connected(r)
  /\ channel[r] = << >>
  /\ task[r] = "done"
  /\ Answer(r, "ok")
  /\ UNCHANGED <<voices, permits, key, using, task, streamVars, panicked>>

(* The handler's future or the response stream is dropped. *)
Disconnect(r) ==
  /\ call[r] \notin {"idle", "done"}
  /\ Answer(r, "gone")
  /\ channel' = [channel EXCEPT ![r] = << >>]
  /\ UNCHANGED <<voices, permits, key, using, task, spoken, got, panicked>>

LoadStep(r) ==
  \/ AnswerCached(r) \/ RefuseLoad(r) \/ StartLoad(r)
  \/ FinishLoad(r) \/ FailLoad(r)
  \/ RefuseVoice(r) \/ Register(r)

SynthesisStep(r) ==
  \/ BuildStream(r)
  \/ PullChunk(r) \/ PullError(r) \/ PullEnd(r) \/ TaskPanics(r)
  \/ SendChunk(r) \/ SendError(r) \/ SendFails(r)

ClientStep(r) == Receive(r) \/ EndOfResponse(r)

Next ==
  \/ \E r \in Request : Reject(r) \/ Disconnect(r)
  \/ \E r \in Load : ResolveKey(r) \/ LoadStep(r)
  \/ \E r \in Synthesis : SynthesisStep(r) \/ ClientStep(r)
  \/ \E r \in Synthesis, k \in Key : RefuseSynthesis(r, k) \/ StartSynthesis(r, k)

Spec == Init /\ [][Next]_vars

(* Handlers and blocking tasks run on; a client that stays reads on.       *)
FairSpec ==
  /\ Spec
  /\ \A r \in Load : WF_vars(LoadStep(r))
  /\ \A r \in Synthesis : WF_vars(SynthesisStep(r)) /\ WF_vars(ClientStep(r))

-----------------------------------------------------------------------------
(* Properties.                                                             *)

Working == {"loading", "building", "pulling", "sending", "failing"}
HoldsPermit(r) == task[r] \in Working

TypeOK ==
  /\ voices \in [Key -> Load \cup {None}]
  /\ permits \in Nat
  /\ call \in [Request -> {"idle", "keyed", "loading", "registering",
                           "streaming", "done"}]
  /\ key \in [Request -> Key \cup {None}]
  /\ using \in [Request -> Load \cup {None}]
  /\ task \in [Request -> Working \cup {"none", "done"}]
  /\ spoken \in [Request -> 0..Chunks]
  /\ channel \in [Request -> Seq({"chunk", "error"})]
  /\ \A r \in Request : Len(channel[r]) <= Capacity
  /\ got \in [Request -> 0..Chunks]
  /\ answer \in [Request -> {"none", "ok", "error", "gone"}]
  /\ panicked \subseteq Synthesis

(* Permits are neither lost nor minted, whichever way tasks end: what is   *)
(* not in the semaphore is held by exactly one running task.  So at most   *)
(* max_concurrent_synthesis loads and syntheses run (README.md:15).        *)
PermitsAddUp ==
  permits + Cardinality({r \in Request : HoldsPermit(r)}) = MaxPermits

(* Loads that race each other never push the registry over max_voices.     *)
VoiceCapHolds == Cardinality({k \in Key : Registered(k)}) <= MaxVoices

(* All requests on a key share the one model that was registered first, so *)
(* settings made through one of them reach the others.                     *)
OneModelPerKey ==
  \A r \in Request : using[r] # None => using[r] = voices[key[r]]

(* However loads of the same and of different configs race, the registry   *)
(* keeps within its cap and every request on a key has the one model that  *)
(* is registered for it (register_voice).                                  *)
RegistryIsSound == VoiceCapHolds /\ OneModelPerKey

(* A response that ends with OK has all the audio of its text, unless its  *)
(* task panicked.                                                          *)
OkIsCompleteOrPanicked ==
  \A r \in Synthesis \ panicked : answer[r] = "ok" => got[r] = Chunks

(* A failed synthesis is told to its client, however full the channel is.  *)
FailureIsTold ==
  \A r \in Synthesis :
    task[r] = "failing" ~> answer[r] \in {"error", "gone"}

(* Every permit comes back, also when the client stops listening.          *)
PermitsComeBack == \A r \in Request : HoldsPermit(r) ~> ~HoldsPermit(r)
=============================================================================
