-------------------------- MODULE GrpcServiceProofs --------------------------
(***************************************************************************)
(* The server for any number of requests, keys and permits, with channels  *)
(* of any capacity.  Four layers: Shapes (types, without the bound on what *)
(* clients got), SharedInv (who uses which model), the counts of permits   *)
(* and voices, and StreamInv (what the task took from its stream is what   *)
(* the client got, what the channel holds and what is being sent).         *)
(***************************************************************************)
EXTENDS GrpcService, FiniteSetTheorems, SequenceTheorems, TLAPS

Place == {"idle", "keyed", "loading", "registering", "streaming", "done"}

Shapes ==
  /\ voices \in [Key -> Load \cup {None}]
  /\ permits \in Nat
  /\ call \in [Request -> Place]
  /\ key \in [Request -> Key \cup {None}]
  /\ using \in [Request -> Load \cup {None}]
  /\ task \in [Request -> Working \cup {"none", "done"}]
  /\ spoken \in [Request -> 0..Chunks]
  /\ channel \in [Request -> Seq({"chunk", "error"})]
  /\ \A r \in Request : Len(channel[r]) <= Capacity
  /\ got \in [Request -> Nat]
  /\ answer \in [Request -> {"none", "ok", "error", "gone"}]
  /\ panicked \subseteq Synthesis
  /\ \A r \in Load : call[r] \in {"keyed", "loading", "registering"} => key[r] \in Key

LEMMA InitShapes == Init => Shapes
<1> SUFFICES ASSUME Init PROVE Shapes
  OBVIOUS
<1> USE LimitAssumption DEF Init
<1>1. channel \in [Request -> Seq({"chunk", "error"})]
  OBVIOUS
<1>2. \A r \in Request : Len(channel[r]) <= Capacity
  OBVIOUS
<1>3. /\ permits \in Nat /\ spoken \in [Request -> 0..Chunks] /\ got \in [Request -> Nat]
      /\ panicked \subseteq Synthesis
  OBVIOUS
<1>4. voices \in [Key -> Load \cup {None}] /\ using \in [Request -> Load \cup {None}]
  OBVIOUS
<1>5. /\ call \in [Request -> Place] /\ key \in [Request -> Key \cup {None}]
      /\ task \in [Request -> Working \cup {"none", "done"}]
      /\ answer \in [Request -> {"none", "ok", "error", "gone"}]
      /\ \A r \in Load : call[r] = "idle"
  BY DEF Place, Working, Request
<1> QED BY <1>1, <1>2, <1>3, <1>4, <1>5 DEF Shapes

LEMMA NextShapes == Shapes /\ [Next]_vars => Shapes'
<1> SUFFICES ASSUME Shapes, [Next]_vars PROVE Shapes'
  OBVIOUS
<1> USE LimitAssumption, NoneAssumption DEF Shapes, Place, Working, Answer, EndTask, streamVars
<1>1. ASSUME NEW r \in Request, Reject(r) PROVE Shapes'
  BY <1>1 DEF Reject
<1>2. ASSUME NEW r \in Request, Disconnect(r) PROVE Shapes'
  BY <1>2 DEF Disconnect
<1>3. ASSUME NEW r \in Load, ResolveKey(r) PROVE Shapes'
  <2> r \in Request
    BY DEF Request
  <2> PICK k \in Key : key' = [key EXCEPT ![r] = k]
    BY <1>3 DEF ResolveKey
  <2>1. key' \in [Request -> Key \cup {None}]
    OBVIOUS
  <2>2. \A l \in Load : call'[l] \in {"keyed", "loading", "registering"} => key'[l] \in Key
    BY <1>3 DEF ResolveKey, Request
  <2> QED BY <1>3, <2>1, <2>2 DEF ResolveKey
<1>4. ASSUME NEW r \in Load, LoadStep(r) PROVE Shapes'
  <2> r \in Request
    BY DEF Request
  <2>1. CASE AnswerCached(r)
    BY <2>1 DEF AnswerCached
  <2>2. CASE RefuseLoad(r)
    BY <2>2 DEF RefuseLoad
  <2>3. CASE StartLoad(r)
    BY <2>3 DEF StartLoad
  <2>4. CASE FinishLoad(r)
    BY <2>4 DEF FinishLoad
  <2>5. CASE FailLoad(r)
    <3>1. /\ call' \in [Request -> Place]
          /\ answer' \in [Request -> {"none", "ok", "error", "gone"}]
          /\ \A l \in Load : call'[l] = "done" \/ call'[l] = call[l]
      <4>1. CASE call[r] = "loading"
        BY <2>5, <4>1 DEF FailLoad, Request
      <4>2. CASE call[r] # "loading"
        BY <2>5, <4>2 DEF FailLoad
      <4> QED BY <4>1, <4>2
    <3>2. permits' \in Nat /\ task' \in [Request -> Working \cup {"none", "done"}]
      BY <2>5 DEF FailLoad
    <3> QED BY <2>5, <3>1, <3>2 DEF FailLoad
  <2>6. CASE RefuseVoice(r)
    BY <2>6 DEF RefuseVoice
  <2>7. CASE Register(r)
    <3> key[r] \in Key
      BY <2>7 DEF Register
    <3>1. voices' \in [Key -> Load \cup {None}]
      BY <2>7 DEF Register
    <3>2. using' \in [Request -> Load \cup {None}]
      BY <2>7, <3>1 DEF Register
    <3>3. /\ call' \in [Request -> Place] /\ call'[r] = "done"
          /\ \A l \in Load : call'[l] = "done" \/ call'[l] = call[l]
      BY <2>7 DEF Register, Request
    <3>4. answer' \in [Request -> {"none", "ok", "error", "gone"}]
      BY <2>7 DEF Register
    <3> QED BY <2>7, <3>1, <3>2, <3>3, <3>4 DEF Register
  <2> QED BY <1>4, <2>1, <2>2, <2>3, <2>4, <2>5, <2>6, <2>7 DEF LoadStep
<1>5. ASSUME NEW r \in Synthesis, SynthesisStep(r) PROVE Shapes'
  <2> r \in Request
    BY DEF Request
  <2>1. CASE BuildStream(r)
    BY <2>1 DEF BuildStream
  <2>2. CASE PullChunk(r)
    BY <2>2 DEF PullChunk
  <2>3. CASE PullError(r)
    BY <2>3 DEF PullError
  <2>4. CASE PullEnd(r)
    BY <2>4 DEF PullEnd
  <2>5. CASE TaskPanics(r)
    BY <2>5 DEF TaskPanics
  <2>6. CASE SendChunk(r)
    BY <2>6 DEF SendChunk, Send
  <2>7. CASE SendError(r)
    BY <2>7 DEF SendError, Send
  <2>8. CASE SendFails(r)
    BY <2>8 DEF SendFails
  <2> QED BY <1>5, <2>1, <2>2, <2>3, <2>4, <2>5, <2>6, <2>7, <2>8 DEF SynthesisStep
<1>6. ASSUME NEW r \in Synthesis, ClientStep(r) PROVE Shapes'
  <2> r \in Request
    BY DEF Request
  <2>1. CASE Receive(r)
    <3>1. Tail(channel[r]) \in Seq({"chunk", "error"}) /\ Len(Tail(channel[r])) <= Capacity
      BY <2>1 DEF Receive
    <3>2. channel' \in [Request -> Seq({"chunk", "error"})]
      BY <2>1, <3>1 DEF Receive
    <3>3. \A q \in Request : Len(channel'[q]) <= Capacity
      BY <2>1, <3>1 DEF Receive
    <3>4. CASE Head(channel[r]) = "chunk"
      <4>1. got' \in [Request -> Nat] /\ UNCHANGED <<call, answer>>
        BY <2>1, <3>4 DEF Receive
      <4> QED BY <2>1, <3>2, <3>3, <4>1 DEF Receive
    <3>5. CASE Head(channel[r]) # "chunk"
      <4>1. UNCHANGED got /\ Answer(r, "error")
        BY <2>1, <3>5 DEF Receive
      <4> QED BY <2>1, <3>2, <3>3, <4>1 DEF Receive
    <3> QED BY <3>4, <3>5
  <2>2. CASE EndOfResponse(r)
    BY <2>2 DEF EndOfResponse
  <2> QED BY <1>6, <2>1, <2>2 DEF ClientStep
<1>7. ASSUME NEW r \in Synthesis, NEW k \in Key, RefuseSynthesis(r, k) PROVE Shapes'
  BY <1>7, RequestAssumption DEF RefuseSynthesis, Request
<1>8. ASSUME NEW r \in Synthesis, NEW k \in Key, StartSynthesis(r, k) PROVE Shapes'
  BY <1>8, RequestAssumption DEF StartSynthesis, Request
<1>9. CASE UNCHANGED vars
  BY <1>9 DEF vars
<1> QED BY <1>1, <1>2, <1>3, <1>4, <1>5, <1>6, <1>7, <1>8, <1>9 DEF Next

-----------------------------------------------------------------------------
(* The registry.                                                           *)

(* Whoever uses a model uses the one that is registered for its key, and   *)
(* nobody uses one before its handler has found or registered it.          *)
Early == {"idle", "keyed", "loading", "registering"}

Sharing(r) ==
  /\ using[r] # None => key[r] \in Key /\ using[r] = voices[key[r]]
  /\ call[r] \in Early => using[r] = None

SharedInv == \A r \in Request : Sharing(r)

(* The registry changes by Register alone, which looks at the cap.         *)
LEMMA OnlyRegisterAdds ==
  ASSUME [Next]_vars
  PROVE  voices' = voices \/ \E r \in Load : Register(r)
<1>1. ASSUME NEW r \in Load, LoadStep(r), ~Register(r) PROVE voices' = voices
  BY <1>1 DEF LoadStep, AnswerCached, RefuseLoad, StartLoad, FinishLoad, FailLoad, RefuseVoice
<1>2. ASSUME NEW r \in Synthesis, SynthesisStep(r) \/ ClientStep(r) PROVE voices' = voices
  BY <1>2 DEF SynthesisStep, BuildStream, PullChunk, PullError, PullEnd, TaskPanics,
              SendChunk, SendError, SendFails, ClientStep, Receive, EndOfResponse
<1>3. ASSUME NEW r \in Request, Reject(r) \/ Disconnect(r) \/ ResolveKey(r)
      PROVE  voices' = voices
  BY <1>3 DEF Reject, Disconnect, ResolveKey
<1>4. ASSUME NEW r \in Synthesis, NEW k \in Key, RefuseSynthesis(r, k) \/ StartSynthesis(r, k)
      PROVE  voices' = voices
  BY <1>4 DEF RefuseSynthesis, StartSynthesis
<1>5. CASE UNCHANGED vars
  BY <1>5 DEF vars
<1> QED BY <1>1, <1>2, <1>3, <1>4, <1>5 DEF Next, Request

(* A key that has a model keeps it, since Register leaves it alone.        *)
LEMMA VoicesStay ==
  ASSUME Shapes, [Next]_vars, NEW k \in Key, Registered(k)
  PROVE  voices'[k] = voices[k]
<1>1. ASSUME NEW r \in Load, Register(r) PROVE voices'[k] = voices[k]
  BY <1>1 DEF Register, Registered, Shapes
<1> QED BY <1>1, OnlyRegisterAdds

(* A request that keeps its model goes on sharing it.                      *)
LEMMA KeptSharing ==
  ASSUME Shapes, SharedInv, [Next]_vars, NEW q \in Request,
         using'[q] = using[q], using[q] # None => key'[q] = key[q],
         call'[q] \in Early => call[q] \in Early
  PROVE  Sharing(q)'
<1>1. CASE using[q] = None
  BY <1>1 DEF Sharing
<1>2. CASE using[q] # None
  <2>1. /\ key[q] \in Key /\ using[q] = voices[key[q]]
        /\ call[q] \notin Early
    BY <1>2 DEF SharedInv, Sharing
  <2>2. voices'[key[q]] = voices[key[q]]
    BY <1>2, <2>1, VoicesStay DEF Registered
  <2> QED BY <2>1, <2>2 DEF Sharing
<1> QED BY <1>1, <1>2

LEMMA NextSharedInv == Shapes /\ SharedInv /\ [Next]_vars => SharedInv'
<1> SUFFICES ASSUME Shapes, SharedInv, [Next]_vars, NEW q \in Request PROVE Sharing(q)'
  BY DEF SharedInv
<1> DEFINE Keeps == /\ using'[q] = using[q]
                    /\ using[q] # None => key'[q] = key[q]
                    /\ call'[q] \in Early => call[q] \in Early
<1>1. SUFFICES ASSUME ~Keeps PROVE Sharing(q)'
  BY KeptSharing
<1> USE DEF Shapes, Sharing, SharedInv, Early, Answer
<1>2. ASSUME NEW r \in Request, Reject(r) \/ Disconnect(r) PROVE Keeps
  BY <1>2 DEF Reject, Disconnect
<1>3. ASSUME NEW r \in Load, ResolveKey(r) PROVE Keeps
  BY <1>3 DEF ResolveKey, Request
<1>4. ASSUME NEW r \in Load, LoadStep(r) PROVE Keeps \/ (q = r /\ (AnswerCached(r) \/ Register(r)))
  <2> r \in Request
    BY DEF Request
  <2>1. CASE AnswerCached(r) \/ Register(r)
    BY <2>1 DEF AnswerCached, Register
  <2>2. CASE RefuseLoad(r) \/ StartLoad(r) \/ RefuseVoice(r)
    BY <2>2 DEF RefuseLoad, StartLoad, RefuseVoice
  <2>3. CASE FinishLoad(r)
    BY <2>3 DEF FinishLoad
  <2>4. CASE FailLoad(r)
    BY <2>4 DEF FailLoad
  <2> QED BY <1>4, <2>1, <2>2, <2>3, <2>4 DEF LoadStep
<1>5. ASSUME NEW r \in Load, q = r, AnswerCached(r) \/ Register(r) PROVE Sharing(q)'
  <2>1. key[r] \in Key
    BY <1>5 DEF AnswerCached, Register
  <2>2. using'[r] = voices'[key[r]] /\ key' = key /\ call'[r] = "done"
    BY <1>5, <2>1 DEF AnswerCached, Register
  <2> QED BY <1>5, <2>1, <2>2
<1>6. ASSUME NEW r \in Synthesis, SynthesisStep(r) \/ ClientStep(r) PROVE Keeps
  <2>1. using' = using /\ key' = key
    BY <1>6 DEF SynthesisStep, BuildStream, PullChunk, PullError, PullEnd, TaskPanics,
                SendChunk, SendError, SendFails, ClientStep, Receive, EndOfResponse
  <2>2. call' = call \/ call' = [call EXCEPT ![r] = "done"]
    BY <1>6 DEF SynthesisStep, BuildStream, PullChunk, PullError, PullEnd, TaskPanics,
                SendChunk, SendError, SendFails, ClientStep, Receive, EndOfResponse
  <2> QED BY <2>1, <2>2
<1>7. ASSUME NEW r \in Synthesis, NEW k \in Key, RefuseSynthesis(r, k) PROVE Keeps
  BY <1>7 DEF RefuseSynthesis, Request
<1>8. ASSUME NEW r \in Synthesis, NEW k \in Key, StartSynthesis(r, k) PROVE Sharing(q)'
  <2>1. CASE q = r
    BY <1>8, <2>1 DEF StartSynthesis
  <2>2. CASE q # r
    BY <1>1, <1>8, <2>2 DEF StartSynthesis
  <2> QED BY <2>1, <2>2
<1>9. CASE UNCHANGED vars
  BY <1>1, <1>9 DEF vars
<1> QED BY <1>1, <1>2, <1>3, <1>4, <1>5, <1>6, <1>7, <1>8, <1>9 DEF Next

-----------------------------------------------------------------------------
(* Counting voices.                                                        *)

(* The keys may be infinitely many, the registered ones never are.         *)
Taken == {k \in Key : Registered(k)}
VoicesInv == IsFiniteSet(Taken) /\ VoiceCapHolds

LEMMA InitVoicesInv == Init => VoicesInv
<1> SUFFICES ASSUME Init PROVE VoicesInv
  OBVIOUS
<1>1. Taken = {}
  BY DEF Init, Taken, Registered
<1> QED BY <1>1, FS_EmptySet, LimitAssumption DEF VoicesInv, VoiceCapHolds, Taken

LEMMA NextVoicesInv == Shapes /\ VoicesInv /\ [Next]_vars => VoicesInv'
<1> SUFFICES ASSUME Shapes, VoicesInv, [Next]_vars PROVE VoicesInv'
  OBVIOUS
<1>1. CASE voices' = voices
  BY <1>1 DEF VoicesInv, VoiceCapHolds, Taken, Registered
<1>2. ASSUME NEW r \in Load, Register(r) PROVE VoicesInv'
  <2>1. key[r] \in Key
    BY <1>2 DEF Register, Shapes
  <2>2. CASE Registered(key[r])
    <3>1. voices' = voices
      BY <1>2, <2>2 DEF Register, Registered, Shapes
    <3> QED BY <1>1, <3>1
  <2>3. CASE ~Registered(key[r])
    <3>1. Taken' = Taken \cup {key[r]} /\ key[r] \notin Taken
      <4>1. \A k \in Key : voices'[k] = IF k = key[r] THEN r ELSE voices[k]
        BY <1>2, <2>1, <2>3 DEF Register, Registered, Shapes
      <4>2. r # None
        BY NoneAssumption DEF Request
      <4> QED BY <2>1, <2>3, <4>1, <4>2 DEF Taken, Registered
    <3>2. ~(Cardinality(Taken) >= MaxVoices)
      BY <1>2, <2>3 DEF Register, VoicesFull, Taken
    <3>3. IsFiniteSet(Taken') /\ Cardinality(Taken') = Cardinality(Taken) + 1
      BY <3>1, FS_AddElement DEF VoicesInv
    <3>4. Cardinality(Taken) \in Nat
      BY FS_CardinalityType DEF VoicesInv
    <3>5. Cardinality(Taken') <= MaxVoices
      BY <3>2, <3>3, <3>4, LimitAssumption
    <3> QED BY <3>3, <3>5 DEF VoicesInv, VoiceCapHolds, Taken
  <2> QED BY <2>2, <2>3
<1> QED BY <1>1, <1>2, OnlyRegisterAdds

-----------------------------------------------------------------------------
(* Counting permits.                                                       *)

Holders == {r \in Request : HoldsPermit(r)}

LEMMA InitPermits == Init => PermitsAddUp
<1> SUFFICES ASSUME Init PROVE PermitsAddUp
  OBVIOUS
<1>1. Holders = {}
  BY DEF Init, Holders, HoldsPermit, Working
<1>2. Cardinality(Holders) = 0
  BY <1>1, FS_EmptySet
<1>3. permits + Cardinality(Holders) = MaxPermits
  BY <1>2, LimitAssumption DEF Init
<1> QED BY <1>3 DEF PermitsAddUp, Holders

(* A task that starts takes one permit.                                    *)
LEMMA StartTakesOne ==
  ASSUME Shapes, PermitsAddUp, NEW r \in Request, NEW t \in Working, task[r] \notin Working,
         permits > 0, permits' = permits - 1, task' = [task EXCEPT ![r] = t]
  PROVE  PermitsAddUp'
<1>1. Holders' = Holders \cup {r} /\ r \notin Holders
  BY DEF Holders, HoldsPermit, Shapes
<1>2. IsFiniteSet(Holders)
  BY FS_Subset, RequestAssumption DEF Holders
<1>3. Cardinality(Holders') = Cardinality(Holders) + 1 /\ Cardinality(Holders) \in Nat
  BY <1>1, <1>2, FS_AddElement, FS_CardinalityType
<1>4. permits + Cardinality(Holders) = MaxPermits /\ permits \in Nat
  BY DEF PermitsAddUp, Holders, Shapes
<1>5. permits' + Cardinality(Holders') = MaxPermits
  BY <1>3, <1>4
<1> QED BY <1>5 DEF PermitsAddUp, Holders

(* A task that ends gives one back.                                        *)
LEMMA EndGivesOne ==
  ASSUME Shapes, PermitsAddUp, NEW r \in Request, task[r] \in Working, EndTask(r)
  PROVE  PermitsAddUp'
<1>1. Holders' = Holders \ {r} /\ r \in Holders
  BY DEF Holders, HoldsPermit, Shapes, EndTask, Working
<1>2. IsFiniteSet(Holders)
  BY FS_Subset, RequestAssumption DEF Holders
<1>3. /\ Cardinality(Holders') = Cardinality(Holders) - 1
      /\ Cardinality(Holders) \in Nat
  BY <1>1, <1>2, FS_RemoveElement, FS_CardinalityType
<1>4. permits + Cardinality(Holders) = MaxPermits /\ permits \in Nat /\ permits' = permits + 1
  BY DEF PermitsAddUp, Holders, Shapes, EndTask
<1>5. permits' + Cardinality(Holders') = MaxPermits
  BY <1>3, <1>4
<1> QED BY <1>5 DEF PermitsAddUp, Holders

(* Any other step leaves the holders who they are.                         *)
LEMMA SameHolders ==
  ASSUME PermitsAddUp, permits' = permits,
         \A r \in Request : (task'[r] \in Working) = (task[r] \in Working)
  PROVE  PermitsAddUp'
<1>1. Holders' = Holders
  BY DEF Holders, HoldsPermit
<1> QED BY <1>1 DEF PermitsAddUp, Holders

(* A request whose handler is not there yet has no task.                   *)
TaskInv == \A r \in Request : call[r] \in {"idle", "keyed"} => task[r] = "none"

LEMMA NextTaskInv == Shapes /\ TaskInv /\ [Next]_vars => TaskInv'
<1> SUFFICES ASSUME Shapes, TaskInv, [Next]_vars, NEW q \in Request,
                    call'[q] \in {"idle", "keyed"}
             PROVE  task'[q] = "none"
  BY DEF TaskInv
<1> USE DEF Shapes, TaskInv, Answer, EndTask
<1>1. ASSUME NEW r \in Request, Reject(r) \/ Disconnect(r) PROVE task'[q] = "none"
  BY <1>1 DEF Reject, Disconnect
<1>2. ASSUME NEW r \in Load, ResolveKey(r) PROVE task'[q] = "none"
  BY <1>2 DEF ResolveKey
<1>3. ASSUME NEW r \in Load, LoadStep(r) PROVE task'[q] = "none"
  <2>1. CASE AnswerCached(r) \/ RefuseLoad(r) \/ StartLoad(r) \/ RefuseVoice(r) \/ Register(r)
    BY <2>1 DEF AnswerCached, RefuseLoad, StartLoad, RefuseVoice, Register
  <2>2. CASE FinishLoad(r)
    BY <2>2 DEF FinishLoad
  <2>3. CASE FailLoad(r)
    BY <2>3 DEF FailLoad
  <2> QED BY <1>3, <2>1, <2>2, <2>3 DEF LoadStep
<1>4. ASSUME NEW r \in Synthesis, SynthesisStep(r) PROVE task'[q] = "none"
  BY <1>4 DEF SynthesisStep, BuildStream, PullChunk, PullError, PullEnd, TaskPanics,
              SendChunk, SendError, SendFails
<1>5. ASSUME NEW r \in Synthesis, ClientStep(r) PROVE task'[q] = "none"
  BY <1>5 DEF ClientStep, Receive, EndOfResponse
<1>6. ASSUME NEW r \in Synthesis, NEW k \in Key, RefuseSynthesis(r, k) \/ StartSynthesis(r, k)
      PROVE  task'[q] = "none"
  BY <1>6 DEF RefuseSynthesis, StartSynthesis
<1>7. CASE UNCHANGED vars
  BY <1>7 DEF vars
<1> QED BY <1>1, <1>2, <1>3, <1>4, <1>5, <1>6, <1>7 DEF Next

LEMMA NextPermits == Shapes /\ TaskInv /\ PermitsAddUp /\ [Next]_vars => PermitsAddUp'
<1> SUFFICES ASSUME Shapes, TaskInv, PermitsAddUp, [Next]_vars PROVE PermitsAddUp'
  OBVIOUS
<1>1. ASSUME NEW r \in Request, Reject(r) \/ Disconnect(r) \/ ResolveKey(r) PROVE PermitsAddUp'
  BY <1>1, SameHolders DEF Reject, Disconnect, ResolveKey
<1>2. ASSUME NEW r \in Load, LoadStep(r) PROVE PermitsAddUp'
  <2> r \in Request
    BY DEF Request
  <2>1. CASE AnswerCached(r) \/ RefuseLoad(r) \/ RefuseVoice(r) \/ Register(r)
    BY <2>1, SameHolders DEF AnswerCached, RefuseLoad, RefuseVoice, Register
  <2>2. CASE StartLoad(r)
    <3>1. task[r] \notin Working /\ "loading" \in Working
      BY <2>2 DEF StartLoad, TaskInv, Working
    <3> QED BY <2>2, <3>1, StartTakesOne DEF StartLoad
  <2>3. CASE FinishLoad(r) \/ FailLoad(r)
    BY <2>3, EndGivesOne DEF FinishLoad, FailLoad, Working
  <2> QED BY <1>2, <2>1, <2>2, <2>3 DEF LoadStep
<1>3. ASSUME NEW r \in Synthesis, SynthesisStep(r) PROVE PermitsAddUp'
  <2> r \in Request
    BY DEF Request
  <2>1. CASE BuildStream(r) \/ PullChunk(r) \/ PullError(r) \/ SendChunk(r)
    <3>1. /\ permits' = permits
          /\ task[r] \in Working
          /\ \E t \in Working : task' = [task EXCEPT ![r] = t]
      BY <2>1 DEF BuildStream, PullChunk, PullError, SendChunk, Working
    <3> QED BY <3>1, SameHolders DEF Shapes
  <2>2. CASE PullEnd(r) \/ TaskPanics(r) \/ SendError(r) \/ SendFails(r)
    BY <2>2, EndGivesOne DEF PullEnd, TaskPanics, SendError, SendFails, Working
  <2> QED BY <1>3, <2>1, <2>2 DEF SynthesisStep
<1>4. ASSUME NEW r \in Synthesis, ClientStep(r) PROVE PermitsAddUp'
  BY <1>4, SameHolders DEF ClientStep, Receive, EndOfResponse
<1>5. ASSUME NEW r \in Synthesis, NEW k \in Key, RefuseSynthesis(r, k) PROVE PermitsAddUp'
  BY <1>5, SameHolders DEF RefuseSynthesis
<1>6. ASSUME NEW r \in Synthesis, NEW k \in Key, StartSynthesis(r, k) PROVE PermitsAddUp'
  <2>1. task[r] \notin Working /\ "building" \in Working /\ r \in Request
    BY <1>6 DEF StartSynthesis, TaskInv, Working, Request
  <2> QED BY <1>6, <2>1, StartTakesOne DEF StartSynthesis
<1>7. CASE UNCHANGED vars
  BY <1>7, SameHolders DEF vars
<1> QED BY <1>1, <1>2, <1>3, <1>4, <1>5, <1>6, <1>7 DEF Next, Request

-----------------------------------------------------------------------------
(* What the task took from its stream and where it is now.                 *)

Held(r) == IF task[r] = "sending" THEN 1 ELSE 0
NoError(r) == \A i \in 1..Len(channel[r]) : channel[r][i] = "chunk"

(* While the client listens: chunks are with the client, in the channel or *)
(* in the sender's hand; an error is the last thing a task sends; a task   *)
(* that is done without one, and without a panic, sent everything.         *)
Open(r) == call[r] \in {"idle", "streaming"}

StreamInv(r) ==
  /\ got[r] <= spoken[r]
  /\ answer[r] # "none" => ~Open(r)
  /\ answer[r] = "ok" /\ r \notin panicked => got[r] = Chunks
  /\ call[r] = "idle" => task[r] = "none"
  /\ call[r] = "streaming" => task[r] # "none"
  /\ r \in panicked => task[r] = "done"
  /\ call[r] \in {"idle", "streaming", "done"}
  /\ answer[r] = "ok" => task[r] = "done"
  /\ Open(r) /\ NoError(r) =>
       /\ got[r] + Len(channel[r]) + Held(r) = spoken[r]
       /\ task[r] = "done" /\ r \notin panicked => spoken[r] = Chunks
  /\ Open(r) /\ ~NoError(r) =>
       /\ task[r] = "done"
       /\ channel[r][Len(channel[r])] = "error"
       /\ got[r] + Len(channel[r]) <= spoken[r] + 1
       /\ \A i \in 1..(Len(channel[r]) - 1) : channel[r][i] = "chunk"

StreamsInv == \A r \in Synthesis : StreamInv(r)

LEMMA InitStreamsInv == Init => StreamsInv
  BY RequestAssumption, LimitAssumption
  DEF Init, StreamsInv, StreamInv, Open, NoError, Held, Request

(* Steps of other requests, and of loads, leave a response as it is.       *)
LEMMA SameStream ==
  ASSUME NEW r \in Synthesis, StreamInv(r),
         spoken'[r] = spoken[r], channel'[r] = channel[r], got'[r] = got[r],
         call'[r] = call[r], answer'[r] = answer[r], task'[r] = task[r],
         (r \in panicked') = (r \in panicked)
  PROVE  StreamInv(r)'
  BY DEF StreamInv, Open, NoError, Held

(* Sending: the chunk moves from the hand into the channel, or the error   *)
(* follows the last chunk.                                                 *)
LEMMA SendingStream ==
  ASSUME Shapes, NEW r \in Synthesis, StreamInv(r), SendChunk(r) \/ SendError(r)
  PROVE  StreamInv(r)'
<1> DEFINE ch == channel[r]
           item == IF SendChunk(r) THEN "chunk" ELSE "error"
<1>1. /\ r \in Request /\ ch \in Seq({"chunk", "error"}) /\ Len(ch) \in Nat
      /\ spoken[r] \in Nat /\ got[r] \in Nat
  BY LimitAssumption DEF Shapes, Request
<1>2. call[r] = "streaming" /\ task[r] \in {"sending", "failing"}
  BY DEF SendChunk, SendError, Send, Connected
<1>3. /\ NoError(r)
      /\ got[r] + Len(ch) + Held(r) = spoken[r]
      /\ answer[r] = "none"
      /\ r \notin panicked
  BY <1>1, <1>2 DEF StreamInv, Open, Shapes
<1>4. UNCHANGED <<call, spoken, got, answer, panicked>>
  BY DEF SendChunk, SendError, EndTask
<1>5. channel'[r] = Append(ch, item)
  <2>1. CASE SendChunk(r)
    BY <1>1, <2>1 DEF SendChunk, Send, Shapes
  <2>2. CASE ~SendChunk(r)
    BY <1>1, <2>2 DEF SendError, Send, Shapes
  <2> QED BY <2>1, <2>2
<1>6. /\ Len(channel'[r]) = Len(ch) + 1
      /\ channel'[r][Len(ch) + 1] = item
      /\ \A i \in 1..Len(ch) : channel'[r][i] = "chunk"
  BY <1>1, <1>3, <1>5 DEF NoError
<1>7. CASE SendChunk(r)
  <2>1. task[r] = "sending" /\ task'[r] = "pulling"
    BY <1>1, <1>7 DEF SendChunk, Shapes
  <2>2. NoError(r)'
    BY <1>1, <1>6, <1>7 DEF NoError
  <2>3. got'[r] + Len(channel'[r]) + Held(r)' = spoken'[r] /\ got'[r] <= spoken'[r]
    BY <1>1, <1>3, <1>4, <1>6, <2>1 DEF Held
  <2> QED BY <1>2, <1>3, <1>4, <2>1, <2>2, <2>3 DEF StreamInv, Open
<1>8. CASE SendError(r) /\ ~SendChunk(r)
  <2>1. task[r] = "failing" /\ task'[r] = "done"
    BY <1>1, <1>8 DEF SendError, EndTask, Shapes
  <2>2. ~NoError(r)'
    BY <1>1, <1>6, <1>8 DEF NoError
  <2>3. got[r] + Len(ch) = spoken[r]
    BY <1>1, <1>3, <2>1 DEF Held
  <2>4. /\ channel'[r][Len(channel'[r])] = "error"
        /\ got'[r] + Len(channel'[r]) <= spoken'[r] + 1
        /\ got'[r] <= spoken'[r]
        /\ \A i \in 1..(Len(channel'[r]) - 1) : channel'[r][i] = "chunk"
    BY <1>1, <1>4, <1>6, <1>8, <2>3
  <2> QED BY <1>2, <1>3, <1>4, <2>1, <2>2, <2>4 DEF StreamInv, Open
<1> QED BY <1>7, <1>8

(* Receiving a chunk moves it to the client; receiving the error ends the  *)
(* response with that error.                                               *)
LEMMA ReceivingStream ==
  ASSUME Shapes, NEW r \in Synthesis, StreamInv(r), Receive(r)
  PROVE  StreamInv(r)'
<1> DEFINE ch == channel[r]
<1>1. /\ r \in Request /\ ch \in Seq({"chunk", "error"}) /\ Len(ch) \in Nat
      /\ spoken[r] \in Nat /\ got[r] \in Nat
  BY LimitAssumption DEF Shapes, Request
<1>2. call[r] = "streaming" /\ ch # << >> /\ channel'[r] = Tail(ch)
  BY <1>1 DEF Receive, Connected, Shapes
<1>3. /\ Len(channel'[r]) = Len(ch) - 1 /\ Len(ch) > 0
      /\ \A i \in 1..(Len(ch) - 1) : channel'[r][i] = ch[i + 1]
      /\ Head(ch) = ch[1]
  BY <1>1, <1>2
<1>4. UNCHANGED <<task, spoken, panicked>>
  BY DEF Receive
<1>5. answer[r] = "none"
  BY <1>1, <1>2 DEF StreamInv, Open, Shapes
<1>6. CASE Head(ch) = "chunk"
  <2>1. got'[r] = got[r] + 1 /\ call'[r] = call[r] /\ answer'[r] = answer[r]
    BY <1>1, <1>6 DEF Receive, Shapes
  <2>2. CASE NoError(r)
    <3>1. NoError(r)'
      BY <1>1, <1>3, <2>2 DEF NoError
    <3>2. got[r] + Len(ch) + Held(r) = spoken[r] /\ Held(r) \in Nat /\ Held(r)' = Held(r)
      BY <1>2, <1>4, <2>2 DEF StreamInv, Open, Held
    <3>3. /\ got'[r] + Len(channel'[r]) + Held(r)' = spoken'[r]
          /\ got'[r] <= spoken'[r]
      BY <1>1, <1>3, <1>4, <2>1, <3>2
    <3> QED BY <1>2, <1>4, <1>5, <2>1, <2>2, <3>1, <3>3 DEF StreamInv, Open
  <2>3. CASE ~NoError(r)
    <3>1. /\ task[r] = "done" /\ ch[Len(ch)] = "error"
          /\ got[r] + Len(ch) <= spoken[r] + 1
          /\ \A i \in 1..(Len(ch) - 1) : ch[i] = "chunk"
      BY <1>2, <2>3 DEF StreamInv, Open
    <3>2. Len(ch) > 1
      BY <1>1, <1>3, <1>6, <3>1
    <3>3. /\ channel'[r][Len(channel'[r])] = "error"
          /\ \A i \in 1..(Len(channel'[r]) - 1) : channel'[r][i] = "chunk"
      <4>1. Len(ch) - 1 \in 1..(Len(ch) - 1) /\ (Len(ch) - 1) + 1 = Len(ch)
        BY <1>1, <3>2
      <4>2. channel'[r][Len(ch) - 1] = ch[(Len(ch) - 1) + 1]
        BY <1>3, <4>1
      <4>3. channel'[r][Len(channel'[r])] = "error"
        BY <1>3, <3>1, <4>1, <4>2
      <4>4. ASSUME NEW i \in 1..(Len(channel'[r]) - 1) PROVE channel'[r][i] = "chunk"
        <5>1. i \in 1..(Len(ch) - 1) /\ i + 1 \in 1..(Len(ch) - 1)
          BY <1>1, <1>3, <4>4
        <5> QED BY <1>3, <3>1, <5>1
      <4> QED BY <4>3, <4>4
    <3>4. ~NoError(r)'
      BY <1>1, <1>3, <3>2, <3>3 DEF NoError
    <3>5. got'[r] + Len(channel'[r]) <= spoken'[r] + 1 /\ got'[r] <= spoken'[r]
      BY <1>1, <1>3, <1>4, <2>1, <3>1, <3>2
    <3> QED BY <1>2, <1>4, <1>5, <2>1, <3>1, <3>3, <3>4, <3>5 DEF StreamInv, Open
  <2> QED BY <2>2, <2>3
<1>7. CASE Head(ch) # "chunk"
  <2>1. got'[r] = got[r] /\ call'[r] = "done" /\ answer'[r] = "error"
    BY <1>1, <1>7 DEF Receive, Answer, Shapes
  <2> QED BY <1>2, <1>4, <2>1 DEF StreamInv, Open
<1> QED BY <1>6, <1>7

(* All other steps of the task: nothing moves through the channel.         *)
LEMMA TaskStream ==
  ASSUME Shapes, NEW r \in Synthesis, StreamInv(r),
         BuildStream(r) \/ PullChunk(r) \/ PullError(r) \/ PullEnd(r) \/ TaskPanics(r)
           \/ SendFails(r)
  PROVE  StreamInv(r)'
<1>1. /\ r \in Request /\ spoken[r] \in 0..Chunks /\ got[r] \in Nat /\ Len(channel[r]) \in Nat
      /\ Chunks \in Nat
  BY LimitAssumption DEF Shapes, Request
<1>2. UNCHANGED <<call, channel, got, answer>>
  BY DEF BuildStream, PullChunk, PullError, PullEnd, TaskPanics, SendFails, streamVars
<1>3. NoError(r)' = NoError(r) /\ Open(r)' = Open(r)
  BY <1>2 DEF NoError, Open
<1>4. task[r] \notin {"none", "done"} /\ r \notin panicked
  BY DEF BuildStream, PullChunk, PullError, PullEnd, TaskPanics, SendFails, StreamInv
<1>5. ASSUME Open(r)
      PROVE  NoError(r) /\ got[r] + Len(channel[r]) + Held(r) = spoken[r]
  BY <1>4, <1>5 DEF StreamInv
<1>6. answer[r] # "ok" /\ call[r] # "idle"
  BY <1>4 DEF StreamInv
<1>7. CASE BuildStream(r) \/ PullError(r)
  <2>1. task[r] \in {"building", "pulling"} /\ task'[r] \in {"pulling", "failing"}
    BY <1>1, <1>7 DEF BuildStream, PullError, Shapes
  <2>2. UNCHANGED <<spoken, panicked>>
    BY <1>7 DEF BuildStream, PullError, streamVars
  <2>3. Held(r) = 0 /\ Held(r)' = 0
    BY <2>1 DEF Held
  <2> QED BY <1>2, <1>3, <1>4, <1>5, <1>6, <2>1, <2>2, <2>3 DEF StreamInv
<1>8. CASE PullChunk(r)
  <2>1. task[r] = "pulling" /\ task'[r] = "sending" /\ spoken'[r] = spoken[r] + 1
    BY <1>1, <1>8 DEF PullChunk, Shapes
  <2>2. UNCHANGED panicked
    BY <1>8 DEF PullChunk
  <2>3. Held(r) = 0 /\ Held(r)' = 1
    BY <2>1 DEF Held
  <2>4. ASSUME Open(r) PROVE got'[r] + Len(channel'[r]) + Held(r)' = spoken'[r]
    BY <1>1, <1>2, <1>5, <2>1, <2>3, <2>4
  <2>5. got'[r] <= spoken'[r]
    BY <1>1, <1>2, <2>1 DEF StreamInv
  <2> QED BY <1>2, <1>3, <1>4, <1>5, <1>6, <2>1, <2>2, <2>4, <2>5 DEF StreamInv
<1>9. CASE PullEnd(r)
  <2>1. task[r] = "pulling" /\ task'[r] = "done" /\ spoken[r] = Chunks
    BY <1>1, <1>9 DEF PullEnd, EndTask, Shapes
  <2>2. UNCHANGED <<spoken, panicked>>
    BY <1>9 DEF PullEnd, streamVars
  <2>3. Held(r) = 0 /\ Held(r)' = 0
    BY <2>1 DEF Held
  <2> QED BY <1>2, <1>3, <1>4, <1>5, <1>6, <2>1, <2>2, <2>3 DEF StreamInv
<1>10. CASE TaskPanics(r)
  <2>1. task[r] \in {"building", "pulling"} /\ task'[r] = "done" /\ r \in panicked'
    BY <1>1, <1>10 DEF TaskPanics, EndTask, Shapes
  <2>2. UNCHANGED spoken
    BY <1>10 DEF TaskPanics, streamVars
  <2>3. Held(r) = 0 /\ Held(r)' = 0
    BY <2>1 DEF Held
  <2> QED BY <1>2, <1>3, <1>4, <1>5, <1>6, <2>1, <2>2, <2>3 DEF StreamInv
<1>11. CASE SendFails(r)
  <2>1. task'[r] = "done" /\ ~Open(r)
    BY <1>1, <1>6, <1>11 DEF SendFails, EndTask, Shapes, Connected, Open
  <2>2. UNCHANGED <<spoken, panicked>>
    BY <1>11 DEF SendFails, streamVars
  <2> QED BY <1>2, <1>3, <1>4, <1>6, <2>1, <2>2 DEF StreamInv
<1> QED BY <1>7, <1>8, <1>9, <1>10, <1>11

(* The response begins, ends in order, is refused, or is given up.         *)
LEMMA HandlerStream ==
  ASSUME Shapes, NEW r \in Synthesis, StreamInv(r),
         \/ Reject(r) \/ Disconnect(r) \/ EndOfResponse(r)
         \/ \E k \in Key : RefuseSynthesis(r, k) \/ StartSynthesis(r, k)
  PROVE  StreamInv(r)'
<1>1. /\ r \in Request /\ spoken[r] \in Nat /\ got[r] \in Nat
  BY LimitAssumption DEF Shapes, Request
<1>2. UNCHANGED <<spoken, got, panicked>>
  BY DEF Reject, Disconnect, EndOfResponse, RefuseSynthesis, StartSynthesis, streamVars
<1>3. CASE Reject(r) \/ \E k \in Key : RefuseSynthesis(r, k)
  <2>1. call'[r] = "done" /\ answer'[r] = "error" /\ task' = task
    BY <1>1, <1>3 DEF Reject, RefuseSynthesis, Answer, Shapes
  <2> QED BY <1>2, <2>1 DEF StreamInv, Open
<1>4. CASE Disconnect(r)
  <2>1. call'[r] = "done" /\ answer'[r] = "gone" /\ task' = task
    BY <1>1, <1>4 DEF Disconnect, Answer, Shapes
  <2> QED BY <1>2, <2>1 DEF StreamInv, Open
<1>5. CASE EndOfResponse(r)
  <2>1. /\ call[r] = "streaming" /\ channel[r] = << >> /\ task[r] = "done"
        /\ call'[r] = "done" /\ answer'[r] = "ok" /\ task' = task
    BY <1>1, <1>5 DEF EndOfResponse, Connected, Answer, Shapes
  <2>2. NoError(r) /\ Held(r) = 0 /\ Len(channel[r]) = 0
    BY <2>1 DEF NoError, Held
  <2>3. r \notin panicked => got[r] = Chunks
    BY <1>1, <2>1, <2>2 DEF StreamInv, Open
  <2> QED BY <1>2, <2>1, <2>3 DEF StreamInv, Open
<1>6. ASSUME NEW k \in Key, StartSynthesis(r, k) PROVE StreamInv(r)'
  <2>1. /\ call[r] = "idle" /\ task[r] = "none"
        /\ call'[r] = "streaming" /\ task'[r] = "building"
        /\ UNCHANGED <<channel, answer>>
    BY <1>1, <1>6 DEF StartSynthesis, StreamInv, streamVars, Shapes
  <2>2. Held(r) = 0 /\ Held(r)' = 0 /\ NoError(r)' = NoError(r)
    BY <2>1 DEF Held, NoError
  <2> QED BY <1>2, <2>1, <2>2 DEF StreamInv, Open
<1> QED BY <1>3, <1>4, <1>5, <1>6

LEMMA NextStreamsInv == Shapes /\ StreamsInv /\ [Next]_vars => StreamsInv'
<1> SUFFICES ASSUME Shapes, StreamsInv, [Next]_vars, NEW q \in Synthesis
             PROVE  StreamInv(q)'
  BY DEF StreamsInv
<1> StreamInv(q) /\ q \in Request
  BY DEF StreamsInv, Request
<1> DEFINE Same == /\ spoken'[q] = spoken[q] /\ channel'[q] = channel[q]
                   /\ got'[q] = got[q] /\ call'[q] = call[q]
                   /\ answer'[q] = answer[q] /\ task'[q] = task[q]
                   /\ (q \in panicked') = (q \in panicked)
<1>1. SUFFICES ASSUME ~Same PROVE StreamInv(q)'
  BY SameStream
<1> USE DEF Shapes, Answer, EndTask, streamVars
<1>2. ASSUME NEW r \in Request, Reject(r) \/ Disconnect(r), r # q PROVE Same
  BY <1>2 DEF Reject, Disconnect
<1>3. ASSUME NEW r \in Load, ResolveKey(r) PROVE Same
  BY <1>3, RequestAssumption DEF ResolveKey
<1>4. ASSUME NEW r \in Load, LoadStep(r) PROVE Same
  <2> r # q /\ r \in Request
    BY RequestAssumption DEF Request
  <2>1. CASE AnswerCached(r) \/ RefuseLoad(r) \/ StartLoad(r) \/ RefuseVoice(r) \/ Register(r)
    BY <2>1 DEF AnswerCached, RefuseLoad, StartLoad, RefuseVoice, Register
  <2>2. CASE FinishLoad(r)
    BY <2>2 DEF FinishLoad
  <2>3. CASE FailLoad(r)
    BY <2>3 DEF FailLoad
  <2> QED BY <1>4, <2>1, <2>2, <2>3 DEF LoadStep
<1>5. ASSUME NEW r \in Synthesis, SynthesisStep(r), r # q PROVE Same
  <2>1. CASE BuildStream(r) \/ PullChunk(r) \/ PullError(r) \/ PullEnd(r) \/ SendFails(r)
    BY <1>5, <2>1 DEF BuildStream, PullChunk, PullError, PullEnd, SendFails
  <2>2. CASE TaskPanics(r)
    <3>1. (q \in panicked') = (q \in panicked)
      BY <1>5, <2>2 DEF TaskPanics
    <3> QED BY <1>5, <2>2, <3>1 DEF TaskPanics
  <2>3. CASE SendChunk(r) \/ SendError(r)
    BY <1>5, <2>3 DEF SendChunk, SendError, Send
  <2> QED BY <1>5, <2>1, <2>2, <2>3 DEF SynthesisStep
<1>6. ASSUME NEW r \in Synthesis, ClientStep(r), r # q PROVE Same
  <2>1. CASE Receive(r)
    <3>1. CASE Head(channel[r]) = "chunk"
      BY <1>6, <2>1, <3>1 DEF Receive
    <3>2. CASE Head(channel[r]) # "chunk"
      BY <1>6, <2>1, <3>2 DEF Receive
    <3> QED BY <3>1, <3>2
  <2>2. CASE EndOfResponse(r)
    BY <1>6, <2>2 DEF EndOfResponse
  <2> QED BY <1>6, <2>1, <2>2 DEF ClientStep
<1>7. ASSUME NEW r \in Synthesis, NEW k \in Key,
             RefuseSynthesis(r, k) \/ StartSynthesis(r, k), r # q
      PROVE  Same
  BY <1>7 DEF RefuseSynthesis, StartSynthesis
<1>8. CASE UNCHANGED vars
  <2>1. panicked' = panicked
    BY <1>8 DEF vars
  <2>2. (q \in panicked') = (q \in panicked)
    BY <2>1
  <2>3. Same
    BY <1>8, <2>2 DEF vars
  <2> QED BY <1>1, <2>3
<1>9. CASE SynthesisStep(q)
  BY <1>9, TaskStream, SendingStream DEF SynthesisStep
<1>10. CASE ClientStep(q)
  BY <1>10, ReceivingStream, HandlerStream DEF ClientStep
<1>11. CASE Reject(q) \/ Disconnect(q)
  BY <1>11, HandlerStream
<1>12. ASSUME NEW k \in Key, RefuseSynthesis(q, k) \/ StartSynthesis(q, k)
       PROVE  StreamInv(q)'
  BY <1>12, HandlerStream
<1> QED
  BY <1>1, <1>2, <1>3, <1>4, <1>5, <1>6, <1>7, <1>8, <1>9, <1>10, <1>11, <1>12 DEF Next

(* Loads answer without audio.                                             *)
LoadsGetNothing == \A r \in Load : got[r] = 0

LEMMA NextLoadsGetNothing == Shapes /\ LoadsGetNothing /\ [Next]_vars => LoadsGetNothing'
<1> SUFFICES ASSUME Shapes, LoadsGetNothing, [Next]_vars, NEW q \in Load PROVE got'[q] = got[q]
  BY DEF LoadsGetNothing
<1> USE DEF streamVars
<1>1. ASSUME NEW r \in Request, Reject(r) \/ Disconnect(r) \/ ResolveKey(r) \/ LoadStep(r)
      PROVE  got' = got
  BY <1>1 DEF Reject, Disconnect, ResolveKey, LoadStep, AnswerCached, RefuseLoad, StartLoad,
              FinishLoad, FailLoad, RefuseVoice, Register
<1>2. ASSUME NEW r \in Synthesis, SynthesisStep(r) \/ EndOfResponse(r) PROVE got' = got
  BY <1>2 DEF SynthesisStep, BuildStream, PullChunk, PullError, PullEnd, TaskPanics,
              SendChunk, SendError, SendFails, EndOfResponse
<1>3. ASSUME NEW r \in Synthesis, Receive(r) PROVE got'[q] = got[q]
  <2> r # q
    BY RequestAssumption
  <2>1. CASE Head(channel[r]) = "chunk"
    BY <1>3, <2>1 DEF Receive, Shapes, Request
  <2>2. CASE Head(channel[r]) # "chunk"
    BY <1>3, <2>2 DEF Receive
  <2> QED BY <2>1, <2>2
<1>4. ASSUME NEW r \in Synthesis, NEW k \in Key, RefuseSynthesis(r, k) \/ StartSynthesis(r, k)
      PROVE  got' = got
  BY <1>4 DEF RefuseSynthesis, StartSynthesis
<1>5. CASE UNCHANGED vars
  BY <1>5 DEF vars
<1> QED BY <1>1, <1>2, <1>3, <1>4, <1>5 DEF Next, ClientStep, Request

-----------------------------------------------------------------------------
(* The theorems.                                                           *)

ServiceInv ==
  /\ Shapes /\ SharedInv /\ VoicesInv
  /\ TaskInv /\ PermitsAddUp
  /\ StreamsInv /\ LoadsGetNothing

LEMMA ServiceInvariant == Spec => []ServiceInv
<1>1. Init => ServiceInv
  <2>1. Init => SharedInv /\ TaskInv /\ LoadsGetNothing
    BY DEF Init, SharedInv, Sharing, TaskInv, LoadsGetNothing, Request
  <2> QED BY <2>1, InitShapes, InitVoicesInv, InitPermits, InitStreamsInv DEF ServiceInv
<1>2. ServiceInv /\ [Next]_vars => ServiceInv'
  BY NextShapes, NextSharedInv, NextVoicesInv, NextTaskInv, NextPermits, NextStreamsInv,
     NextLoadsGetNothing
  DEF ServiceInv
<1> QED BY <1>1, <1>2, PTL DEF Spec

(* Every state of the server is well typed: no channel overflows and no    *)
(* client gets more chunks than its utterance has.                         *)
THEOREM TypeCorrect == Spec => []TypeOK
<1>1. ServiceInv => TypeOK
  <2> SUFFICES ASSUME ServiceInv PROVE TypeOK
    OBVIOUS
  <2>1. ASSUME NEW r \in Synthesis PROVE got[r] \in 0..Chunks
    BY <2>1, LimitAssumption DEF ServiceInv, Shapes, StreamsInv, StreamInv, Request
  <2>2. ASSUME NEW r \in Load PROVE got[r] \in 0..Chunks
    BY <2>2, LimitAssumption DEF ServiceInv, LoadsGetNothing
  <2>3. got \in [Request -> 0..Chunks]
    BY <2>1, <2>2 DEF ServiceInv, Shapes, Request
  <2> QED BY <2>3 DEF ServiceInv, Shapes, Place, TypeOK
<1> QED BY <1>1, ServiceInvariant, PTL

(* PermitsAddUp: whichever way the tasks of loads and syntheses end, what  *)
(* try_acquire_owned took from the semaphore is held by exactly one task.  *)
THEOREM PermitsBalance == Spec => []PermitsAddUp
<1>1. ServiceInv => PermitsAddUp
  BY DEF ServiceInv
<1> QED BY <1>1, ServiceInvariant, PTL

(* VoiceCapHolds: register_voice checks the cap under the same write lock  *)
(* that inserts, so racing loads never exceed max_voices.                  *)
THEOREM VoiceCap == Spec => []VoiceCapHolds
<1>1. ServiceInv => VoiceCapHolds
  BY DEF ServiceInv, VoicesInv
<1> QED BY <1>1, ServiceInvariant, PTL

(* OneModelPerKey: of racing loads of one config path the first registered *)
(* model is answered to all of them, and no step replaces it.              *)
THEOREM ModelIsShared == Spec => []OneModelPerKey
<1>1. ServiceInv => OneModelPerKey
  BY DEF ServiceInv, SharedInv, Sharing, OneModelPerKey
<1> QED BY <1>1, ServiceInvariant, PTL

(* RegistryIsSound: the two together.                                      *)
THEOREM RegistrySound == Spec => []RegistryIsSound
<1>1. VoiceCapHolds /\ OneModelPerKey => RegistryIsSound
  BY DEF RegistryIsSound
<1> QED BY <1>1, VoiceCap, ModelIsShared, PTL

(* OkIsCompleteOrPanicked: a response that ends with OK carried every      *)
(* chunk of its text, unless its task panicked.                            *)
THEOREM OkIsComplete == Spec => []OkIsCompleteOrPanicked
<1>1. ServiceInv => OkIsCompleteOrPanicked
  BY DEF ServiceInv, StreamsInv, StreamInv, OkIsCompleteOrPanicked
<1> QED BY <1>1, ServiceInvariant, PTL
=============================================================================
