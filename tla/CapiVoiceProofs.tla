-------------------------- MODULE CapiVoiceProofs ---------------------------
(***************************************************************************)
(* CapiVoice for any number of voices, calls and pool threads, any nesting *)
(* of jobs, and callbacks that unload any voice; and, at the end, the Go   *)
(* and Java bindings of BindingVoice over it.                              *)
(***************************************************************************)
EXTENDS BindingVoice, FiniteSetTheorems, TLAPS

(* TypeOK but for the counters, which need more than types.                *)
Types ==
  /\ pc \in [Job -> Place]
  /\ voice \in [Job -> Voice \cup {Nobody}]
  /\ mode \in [Job -> {"grouped", "realtime"}]
  /\ blocking \in [Job -> BOOLEAN]
  /\ left \in [Job -> 0..MaxItems]
  /\ stack \in [Thread -> Seq(Job)]
  /\ active \in [Thread -> Voice \cup {Nobody}]
  /\ previous \in [Job -> Voice \cup {Nobody}]
  /\ slot \in [Voice -> Job \cup {Nobody}]
  /\ cancelled \in [Job -> BOOLEAN]
  /\ closing \in [Voice -> BOOLEAN]
  /\ running \in [Voice -> Int]
  /\ unload \in [Voice -> {"loaded", "cancelling", "waiting", "freed"}]
  /\ unloader \in [Voice -> Job \cup {Nobody, Host}]
  /\ newest \in [Voice -> Job \cup {Nobody}]
  /\ terminal \in [Job -> Nat]
  /\ declined \in [Job -> BOOLEAN]

(* A step inside one call that takes nothing from and gives nothing to the *)
(* rest of the program.                                                    *)
Moves(j) ==
  /\ \E p \in Place :
       /\ pc' = [pc EXCEPT ![j] = p]
       /\ \/ pc[j] \in Streaming /\ p \in Streaming
          \/ pc[j] = "cbReport" /\ p = "restoring"
  /\ Runs(j) \/ pc[j] \in InCallback
  /\ pc[j] \in InCallback => CanReturn(j)
  /\ UNCHANGED <<callVars, poolVars, tokenVars, unloadVars, running>>

Inside(j) ==
  \/ Open(j) \/ OpenFails(j) \/ Pull(j)
  \/ StreamEnds(j) \/ StreamPanics(j) \/ StreamYields(j)
  \/ DeliverItem(j) \/ DeliverFinished(j)
  \/ WantsMore(j) \/ Declines(j) \/ Ends(j)

LEMMA InsideMoves == ASSUME NEW j \in Job, Inside(j) PROVE Moves(j)
<1> USE DEF Streaming, Place, InCallback
<1>1. ASSUME NEW from \in Streaming \ InCallback, NEW to \in Streaming,
             Step(j, from, to)
      PROVE  Moves(j)
  BY <1>1 DEF Moves, Step, Goto, eventVars
<1>2. ASSUME NEW from \in InCallback \cap Streaming, NEW to \in Streaming,
             Return(j, from, to)
      PROVE  Moves(j)
  BY <1>2 DEF Moves, Return, Goto
<1>3. CASE Open(j) \/ OpenFails(j) \/ StreamEnds(j) \/ StreamPanics(j) \/ DeliverFinished(j)
  BY <1>1, <1>3 DEF Open, OpenFails, StreamEnds, StreamPanics, DeliverFinished
<1>4. CASE Pull(j) \/ DeliverItem(j)
  BY <1>1, <1>4 DEF Pull, DeliverItem
<1>5. CASE StreamYields(j)
  BY <1>5 DEF StreamYields, Goto, Moves
<1>6. CASE WantsMore(j) \/ Declines(j) \/ Ends(j)
  <2>1. CASE Return(j, "cbSpeech", "pulling") \/ Return(j, "cbSpeech", "leaving")
    BY <1>2, <2>1
  <2>2. CASE Return(j, "cbError", "leaving") \/ Return(j, "cbFinished", "leaving")
    BY <1>2, <2>2
  <2>3. CASE Return(j, "cbReport", "restoring")
    BY <2>3 DEF Moves, Return, Goto
  <2>4. QED
    BY <1>6, <2>1, <2>2, <2>3 DEF WantsMore, Declines, Ends
<1>7. QED
  BY <1>3, <1>4, <1>5, <1>6 DEF Inside

(* The steps of the program, by what they do to the shared state.          *)
LEMMA StepKinds ==
  ASSUME [Next]_vars
  PROVE  \/ \E j \in Job, v \in Voice, m \in Modes :
              Speak(j, v, m) \/ SpeakBlocking(j, v, m)
         \/ \E j \in Job, t \in Thread :
              Dispatch(t, j) \/ RestoreActive(t, j) \/ DropGuard(t, j)
         \/ \E j \in Job : TakeSlot(j) \/ Inside(j) \/ ReleaseSlot(j)
         \/ \E v \in Voice : Cancel(v) \/ UnloadCloses(v) \/ UnloadFrees(v)
         \/ \E v \in Voice, who \in Job \cup {Host} : UnloadCancels(who, v)
         \/ UNCHANGED vars
  BY DEF Next, JobStep, UnloadStep, Inside

LEMMA TypesInit == Init => Types
  BY ItemsAssumption DEF Init, Types, Place

LEMMA TopIsJob ==
  ASSUME Types, NEW t \in Thread
  PROVE  Top(t) \in Job \cup {Nobody}
  BY DEF Types, Top

LEMMA TypesStep == Types /\ [Next]_vars => Types'
<1> SUFFICES ASSUME Types, [Next]_vars PROVE Types'
  OBVIOUS
<1> USE DEF Types
<1>1. ASSUME NEW j \in Job, NEW v \in Voice, NEW m \in Modes,
             Speak(j, v, m) \/ SpeakBlocking(j, v, m)
      PROVE  Types'
  <2>1. PICK b \in BOOLEAN, p \in {"queued", "starting"} :
          Call(j, v, m, b) /\ Goto(j, p) /\
          (running' = [running EXCEPT ![v] = @ + 1] \/ UNCHANGED running)
    BY <1>1 DEF Speak, SpeakBlocking
  <2>2. m \in {"grouped", "realtime"}
    BY ModesAssumption
  <2>3. running' \in [Voice -> Int]
    BY <2>1
  <2>4. pc' \in [Job -> Place]
    BY <2>1 DEF Goto, Place
  <2>5. voice' \in [Job -> Voice \cup {Nobody}]
    BY <2>1 DEF Call
  <2>6. mode' \in [Job -> {"grouped", "realtime"}] /\ blocking' \in [Job -> BOOLEAN]
    BY <2>1, <2>2 DEF Call
  <2>7. QED
    BY <2>1, <2>3, <2>4, <2>5, <2>6
    DEF Call, poolVars, tokenVars, unloadVars, eventVars
<1>2. ASSUME NEW j \in Job, NEW t \in Thread, Dispatch(t, j) PROVE Types'
  <2>1. pc' \in [Job -> Place]
    BY <1>2 DEF Dispatch, Goto, Place
  <2>2. stack' \in [Thread -> Seq(Job)]
    BY <1>2 DEF Dispatch
  <2>3. QED
    BY <1>2, <2>1, <2>2 DEF Dispatch, callVars, tokenVars, unloadVars, eventVars
<1>3. ASSUME NEW j \in Job, NEW t \in Thread, RestoreActive(t, j) PROVE Types'
  BY <1>3 DEF RestoreActive, Goto, Place, callVars, tokenVars, unloadVars, eventVars
<1>4. ASSUME NEW j \in Job, NEW t \in Thread, DropGuard(t, j) PROVE Types'
  <2>1. pc' \in [Job -> Place]
    BY <1>4 DEF DropGuard, Goto, Place
  <2>2. stack' \in [Thread -> Seq(Job)]
    <3>1. stack[t] # << >>
      BY <1>4, JobAssumption DEF DropGuard, Top
    <3>2. SubSeq(stack[t], 1, Len(stack[t]) - 1) \in Seq(Job)
      BY <3>1
    <3>3. QED
      BY <1>4, <3>2 DEF DropGuard
  <2>3. running' \in [Voice -> Int]
    <3>1. running' = [running EXCEPT ![voice[j]] = running[voice[j]] - 1]
      BY <1>4 DEF DropGuard
    <3>2. \A v \in Voice : running'[v] \in Int
      BY <3>1
    <3>3. DOMAIN running' = Voice /\ running' = [v \in DOMAIN running' |-> running'[v]]
      BY <3>1
    <3>4. QED
      BY <3>2, <3>3
  <2>4. UNCHANGED <<callVars, left, active, previous, tokenVars, unloadVars, eventVars>>
    BY <1>4 DEF DropGuard
  <2>5. QED
    BY <2>1, <2>2, <2>3, <2>4 DEF callVars, tokenVars, unloadVars, eventVars
<1>5. ASSUME NEW j \in Job, TakeSlot(j) PROVE Types'
  <2>1. pc' \in [Job -> Place]
    BY <1>5 DEF TakeSlot, Goto, Place, Streaming
  <2>2. slot' \in [Voice -> Job \cup {Nobody}] /\ newest' \in [Voice -> Job \cup {Nobody}]
    BY <1>5 DEF TakeSlot
  <2>3. QED
    BY <1>5, <2>1, <2>2 DEF TakeSlot, callVars, poolVars, unloadVars, eventVars
<1>6. ASSUME NEW j \in Job, Inside(j) PROVE Types'
  <2>1. Moves(j)
    BY <1>6, InsideMoves
  <2>2. left' \in [Job -> 0..MaxItems]
    <3>1. CASE StreamYields(j)
      <4>1. left[j] \in 0..MaxItems /\ left[j] > 0 /\ left' = [left EXCEPT ![j] = @ - 1]
        BY <3>1 DEF StreamYields
      <4>2. left[j] - 1 \in 0..MaxItems
        BY <4>1, ItemsAssumption
      <4>3. QED
        BY <4>1, <4>2
    <3>2. CASE left' = left
      BY <3>2
    <3>3. QED
      BY <1>6, <3>1, <3>2
      DEF Inside, Open, OpenFails, Pull, StreamEnds, StreamPanics, DeliverItem,
          DeliverFinished, WantsMore, Declines, Ends, Step, Return
  <2>3. terminal' \in [Job -> Nat]
    BY <1>6
    DEF Inside, Open, OpenFails, Pull, StreamEnds, StreamPanics, StreamYields,
        DeliverItem, DeliverFinished, WantsMore, Declines, Ends, Step, Return, eventVars
  <2>4. declined' \in [Job -> BOOLEAN]
    BY <1>6
    DEF Inside, Open, OpenFails, Pull, StreamEnds, StreamPanics, StreamYields,
        DeliverItem, DeliverFinished, WantsMore, Declines, Ends, Step, Return, eventVars
  <2>5. QED
    BY <2>1, <2>2, <2>3, <2>4 DEF Moves, callVars, poolVars, tokenVars, unloadVars
<1>7. ASSUME NEW j \in Job, ReleaseSlot(j) PROVE Types'
  <2>1. pc' \in [Job -> Place]
    BY <1>7 DEF ReleaseSlot, AfterSlot, Goto, Place
  <2>2. slot' \in [Voice -> Job \cup {Nobody}]
    BY <1>7 DEF ReleaseSlot
  <2>3. QED
    BY <1>7, <2>1, <2>2 DEF ReleaseSlot, callVars, poolVars, unloadVars, eventVars
<1>8. ASSUME NEW v \in Voice, Cancel(v) \/ UnloadCloses(v) \/ UnloadFrees(v) PROVE Types'
  <2>1. CASE Cancel(v)
    BY <2>1 DEF Cancel, CancelToken, callVars, poolVars, unloadVars, eventVars
  <2>2. CASE UnloadCloses(v)
    BY <2>2 DEF UnloadCloses, callVars, poolVars, tokenVars, eventVars
  <2>3. CASE UnloadFrees(v)
    BY <2>3 DEF UnloadFrees, callVars, poolVars, tokenVars, eventVars
  <2>4. QED
    BY <1>8, <2>1, <2>2, <2>3
<1>9. ASSUME NEW v \in Voice, NEW who \in Job \cup {Host}, UnloadCancels(who, v) PROVE Types'
  BY <1>9 DEF UnloadCancels, CancelToken, callVars, poolVars, eventVars
<1>10. CASE UNCHANGED vars
  BY <1>10 DEF vars, callVars, poolVars, tokenVars, unloadVars, eventVars
<1>11. QED
  BY <1>1, <1>2, <1>3, <1>4, <1>5, <1>6, <1>7, <1>8, <1>9, <1>10, StepKinds

-----------------------------------------------------------------------------
(* The cancel slot.                                                        *)

(* A call that has begun has a voice; the newest realtime call of a voice  *)
(* has stored its token.                                                   *)
SlotInv ==
  /\ \A j \in Job : pc[j] # "idle" => voice[j] \in Voice
  /\ \A v \in Voice : newest[v] # Nobody =>
       /\ voice[newest[v]] = v
       /\ pc[newest[v]] \notin {"idle", "queued", "starting"}
  /\ CancelReachesNewest

LEMMA SlotInit == Init => SlotInv
  BY DEF Init, SlotInv, CancelReachesNewest

LEMMA AfterSlotCases ==
  ASSUME NEW j \in Job
  PROVE  /\ blocking[j] => AfterSlot(j) = "done"
         /\ ~blocking[j] /\ pc[j] = "unwinding" => AfterSlot(j) = "cbReport"
         /\ ~blocking[j] /\ pc[j] # "unwinding" => AfterSlot(j) = "restoring"
         /\ AfterSlot(j) \in {"done", "cbReport", "restoring"}
  BY DEF AfterSlot

LEMMA SlotStep == Types /\ SlotInv /\ [Next]_vars => SlotInv'
<1> SUFFICES ASSUME Types, SlotInv, [Next]_vars PROVE SlotInv'
  OBVIOUS
<1> USE JobAssumption, VoiceAssumption
(* A call that moves without touching the slot, and stays a synthesis or   *)
(* stays none.                                                             *)
<1>0. ASSUME NEW j \in Job, NEW p \in Place, pc' = [pc EXCEPT ![j] = p],
             UNCHANGED <<slot, newest>>,
             p \in Streaming <=> pc[j] \in Streaming,
             voice' = voice,
             pc[j] # "idle",
             pc[j] \in {"queued"} \/ p \notin {"idle", "queued", "starting"}
      PROVE  SlotInv'
  <2>1. \A i \in Job : pc'[i] = IF i = j THEN p ELSE pc[i]
    BY <1>0 DEF Types
  <2>2. \A v \in Voice : newest[v] \in Job \cup {Nobody}
    BY DEF Types
  <2>3. \A i \in Job : pc'[i] # "idle" => voice'[i] \in Voice
    BY <1>0, <2>1 DEF SlotInv
  <2>4. \A v \in Voice : newest'[v] # Nobody =>
          voice'[newest'[v]] = v /\ pc'[newest'[v]] \notin {"idle", "queued", "starting"}
    BY <1>0, <2>1, <2>2 DEF SlotInv
  <2>5. CancelReachesNewest'
    <3> SUFFICES ASSUME NEW v \in Voice
                 PROVE  slot[v] = IF newest[v] # Nobody /\ pc'[newest[v]] \in Streaming
                                  THEN newest[v] ELSE Nobody
      BY <1>0 DEF CancelReachesNewest
    <3>1. slot[v] = IF newest[v] # Nobody /\ pc[newest[v]] \in Streaming
                    THEN newest[v] ELSE Nobody
      BY DEF SlotInv, CancelReachesNewest
    <3>2. newest[v] # Nobody => (pc'[newest[v]] \in Streaming <=> pc[newest[v]] \in Streaming)
      BY <1>0, <2>1, <2>2
    <3>3. QED
      BY <3>1, <3>2
  <2>6. QED
    BY <2>3, <2>4, <2>5 DEF SlotInv
<1>1. ASSUME NEW j \in Job, NEW v \in Voice, NEW m \in Modes,
             Speak(j, v, m) \/ SpeakBlocking(j, v, m)
      PROVE  SlotInv'
  <2>1. PICK b \in BOOLEAN, p \in {"queued", "starting"} : Call(j, v, m, b) /\ Goto(j, p)
    BY <1>1 DEF Speak, SpeakBlocking
  <2>2. pc[j] = "idle" /\ UNCHANGED <<slot, newest>>
    BY <2>1 DEF Call, tokenVars
  <2>3. \A i \in Job : /\ pc'[i] = IF i = j THEN p ELSE pc[i]
                       /\ voice'[i] = IF i = j THEN v ELSE voice[i]
    BY <2>1 DEF Call, Goto, Types
  <2>4. \A u \in Voice : newest[u] \in Job \cup {Nobody} /\ newest[u] # j
    BY <2>2 DEF Types, SlotInv
  <2>5. \A u \in Voice : newest[u] # Nobody =>
          pc'[newest[u]] = pc[newest[u]] /\ voice'[newest[u]] = voice[newest[u]]
    BY <2>3, <2>4
  <2>6. CancelReachesNewest'
    BY <2>2, <2>5 DEF SlotInv, CancelReachesNewest
  <2>7. QED
    BY <2>2, <2>3, <2>5, <2>6 DEF SlotInv
<1>2. ASSUME NEW j \in Job, NEW t \in Thread,
             Dispatch(t, j) \/ RestoreActive(t, j) \/ DropGuard(t, j)
      PROVE  SlotInv'
  <2>1. PICK p \in {"starting", "dropping", "done"} :
          /\ pc' = [pc EXCEPT ![j] = p]
          /\ pc[j] \in {"queued", "restoring", "dropping"}
          /\ p = "starting" => pc[j] = "queued"
          /\ UNCHANGED <<voice, slot, newest>>
    BY <1>2 DEF Dispatch, RestoreActive, DropGuard, Goto, callVars, tokenVars
  <2>2. QED
    BY <1>0, <2>1 DEF Place, Streaming
<1>3. ASSUME NEW j \in Job, TakeSlot(j) PROVE SlotInv'
  <2>1. pc[j] = "starting" /\ voice' = voice
    BY <1>3 DEF TakeSlot, callVars
  <2>2. voice[j] \in Voice /\ \A u \in Voice : newest[u] \in Job \cup {Nobody} /\ newest[u] # j
    BY <2>1 DEF Types, SlotInv
  <2>3. \A i \in Job : pc'[i] = IF i = j THEN "opening" ELSE pc[i]
    BY <1>3 DEF TakeSlot, Goto, Types
  <2>4. \A u \in Voice : newest[u] # Nobody => pc'[newest[u]] = pc[newest[u]]
    BY <2>2, <2>3
  <2>5. \A i \in Job : pc'[i] # "idle" => voice'[i] \in Voice
    BY <2>1, <2>2, <2>3 DEF SlotInv
  <2>6. CASE mode[j] = "realtime"
    <3>1. \A u \in Voice : /\ newest'[u] = IF u = voice[j] THEN j ELSE newest[u]
                           /\ slot'[u] = IF u = voice[j] THEN j ELSE slot[u]
      BY <1>3, <2>6, <2>2 DEF TakeSlot, Types
    <3>2. "opening" \in Streaming /\ "opening" \notin {"idle", "queued", "starting"}
      BY DEF Streaming
    <3>3. \A u \in Voice : newest'[u] # Nobody =>
            voice'[newest'[u]] = u /\ pc'[newest'[u]] \notin {"idle", "queued", "starting"}
      BY <2>1, <2>3, <2>4, <3>1, <3>2 DEF SlotInv
    <3>4. CancelReachesNewest'
      BY <2>3, <2>4, <3>1, <3>2 DEF SlotInv, CancelReachesNewest
    <3>5. QED
      BY <2>5, <3>3, <3>4 DEF SlotInv
  <2>7. CASE mode[j] # "realtime"
    <3>1. UNCHANGED <<slot, newest>>
      BY <1>3, <2>7 DEF TakeSlot
    <3>2. CancelReachesNewest'
      BY <2>4, <3>1 DEF SlotInv, CancelReachesNewest
    <3>3. QED
      BY <2>1, <2>4, <2>5, <3>1, <3>2 DEF SlotInv
  <2>8. QED
    BY <2>6, <2>7
<1>4. ASSUME NEW j \in Job, Inside(j) PROVE SlotInv'
  <2>1. Moves(j)
    BY <1>4, InsideMoves
  <2>2. PICK p \in Place :
          /\ pc' = [pc EXCEPT ![j] = p]
          /\ \/ pc[j] \in Streaming /\ p \in Streaming
             \/ pc[j] = "cbReport" /\ p = "restoring"
    BY <2>1 DEF Moves
  <2>3. UNCHANGED <<voice, slot, newest>>
    BY <2>1 DEF Moves, callVars, tokenVars
  <2>4. QED
    BY <1>0, <2>2, <2>3 DEF Streaming
<1>5. ASSUME NEW j \in Job, ReleaseSlot(j) PROVE SlotInv'
  <2>1. PICK p \in {"done", "cbReport", "restoring"} : pc' = [pc EXCEPT ![j] = p]
    <3>1. AfterSlot(j) \in {"done", "cbReport", "restoring"}
      BY AfterSlotCases
    <3>2. QED
      BY <1>5, <3>1 DEF ReleaseSlot, Goto
  <2>2. pc[j] \in Streaming /\ pc[j] # "idle" /\ p \notin Streaming
    BY <1>5 DEF ReleaseSlot, Streaming
  <2>3. \A i \in Job : pc'[i] = IF i = j THEN p ELSE pc[i]
    BY <2>1 DEF Types
  <2>4. UNCHANGED <<voice, newest>> /\ voice[j] \in Voice
    BY <1>5, <2>2 DEF ReleaseSlot, callVars, SlotInv
  <2>5. \A u \in Voice : newest[u] \in Job \cup {Nobody}
    BY DEF Types
  <2>6. \A u \in Voice : newest[u] # Nobody =>
            voice[newest[u]] = u /\ pc'[newest[u]] \notin {"idle", "queued", "starting"}
    BY <2>3, <2>5 DEF SlotInv
  <2>7. \A u \in Voice : slot'[u] = IF slot[u] = j THEN Nobody ELSE slot[u]
    <3>1. \A u \in Voice : slot[u] = j => u = voice[j]
      BY <2>5 DEF SlotInv, CancelReachesNewest
    <3>2. slot' = IF slot[voice[j]] = j THEN [slot EXCEPT ![voice[j]] = Nobody] ELSE slot
      BY <1>5 DEF ReleaseSlot
    <3>3. QED
      BY <2>4, <3>1, <3>2 DEF Types
  <2>8. CancelReachesNewest'
    <3> SUFFICES ASSUME NEW u \in Voice
                 PROVE  slot'[u] = IF newest[u] # Nobody /\ pc'[newest[u]] \in Streaming
                                   THEN newest[u] ELSE Nobody
      BY <2>4 DEF CancelReachesNewest
    <3>1. slot[u] = IF newest[u] # Nobody /\ pc[newest[u]] \in Streaming
                    THEN newest[u] ELSE Nobody
      BY DEF SlotInv, CancelReachesNewest
    <3>2. CASE newest[u] = j
      BY <2>2, <2>3, <2>7, <3>1, <3>2
    <3>3. CASE newest[u] # j
      BY <2>3, <2>5, <2>7, <3>1, <3>3
    <3>4. QED
      BY <3>2, <3>3
  <2>9. \A i \in Job : pc'[i] # "idle" => voice'[i] \in Voice
    BY <2>2, <2>3, <2>4 DEF SlotInv
  <2>10. QED
    BY <2>4, <2>6, <2>8, <2>9 DEF SlotInv
<1>6. CASE UNCHANGED <<pc, voice, slot, newest>>
  BY <1>6 DEF SlotInv, CancelReachesNewest
<1>7. ASSUME NEW v \in Voice, Cancel(v) \/ UnloadCloses(v) \/ UnloadFrees(v)
      PROVE  UNCHANGED <<pc, voice, slot, newest>>
  BY <1>7 DEF Cancel, UnloadCloses, UnloadFrees, callVars, tokenVars
<1>8. ASSUME NEW v \in Voice, NEW who \in Job \cup {Host}, UnloadCancels(who, v)
      PROVE  UNCHANGED <<pc, voice, slot, newest>>
  BY <1>8 DEF UnloadCancels, callVars
<1>9. CASE UNCHANGED vars
  BY <1>6, <1>9 DEF vars, callVars, tokenVars
<1>10. QED
  BY <1>1, <1>2, <1>3, <1>4, <1>5, <1>6, <1>7, <1>8, <1>9, StepKinds

(* libdengjenCancel always reaches the most recently started realtime      *)
(* synthesis of the voice and nothing else, whatever number of calls of    *)
(* that voice start, fail and end around it.                               *)
THEOREM CancelTarget == Spec => []CancelReachesNewest
<1>1. SlotInv => CancelReachesNewest
  BY DEF SlotInv
<1>2. QED
  BY <1>1, TypesInit, TypesStep, SlotInit, SlotStep, PTL DEF Spec

-----------------------------------------------------------------------------
(* The pool threads: what is nested in what.                               *)

(* A frame is a worker under way, no worker has two frames, a frame with   *)
(* another one on top waits for its sentences, and the thread-local can be *)
(* restored down the stack.                                                *)
Frames(t) == 1..Len(stack[t])
StackInv ==
  /\ \A j \in Job : pc[j] \in {"queued", "cbReport", "restoring", "dropping"} => ~blocking[j]
  /\ \A t \in Thread : \A i \in Frames(t) :
       ~blocking[stack[t][i]] /\ pc[stack[t][i]] \notin {"idle", "queued", "done"}
  /\ \A t, u \in Thread : \A i \in Frames(t), k \in Frames(u) :
       stack[t][i] = stack[u][k] => t = u /\ i = k
  /\ \A t \in Thread : \A i \in Frames(t) :
       i # Len(stack[t]) => pc[stack[t][i]] \in {"opening", "computing"}
  /\ \A t \in Thread : \A i \in Frames(t) :
       previous[stack[t][i]] = IF i = 1 THEN Nobody ELSE voice[stack[t][i - 1]]
  /\ \A t \in Thread :
       active[t] = IF stack[t] = << >> THEN Nobody
                   ELSE IF pc[Top(t)] = "dropping" THEN previous[Top(t)] ELSE voice[Top(t)]

LEMMA StackInit == Init => StackInv
  BY DEF Init, StackInv, Frames

LEMMA FrameIsJob ==
  ASSUME Types, NEW t \in Thread, NEW i \in Frames(t)
  PROVE  stack[t][i] \in Job /\ i \in Nat /\ Len(stack[t]) \in Nat /\ stack[t] # << >>
  BY DEF Types, Frames

LEMMA TopFrame ==
  ASSUME Types, NEW t \in Thread, stack[t] # << >>
  PROVE  /\ Len(stack[t]) \in Frames(t)
         /\ Top(t) = stack[t][Len(stack[t])]
         /\ Top(t) \in Job
  BY DEF Types, Frames, Top

(* A call that moves on in place.                                          *)
LEMMA StackMove ==
  ASSUME Types, StackInv, NEW j \in Job, NEW p \in Place,
         pc' = [pc EXCEPT ![j] = p],
         UNCHANGED <<stack, active, previous, voice, blocking>>,
         Runs(j) \/ pc[j] \notin {"opening", "computing"},
         pc[j] # "dropping",
         p \notin {"idle", "queued", "dropping"},
         p = "done" => blocking[j],
         p \in {"cbReport", "restoring"} => ~blocking[j]
  PROVE  StackInv'
<1>1. \A i \in Job : pc'[i] = IF i = j THEN p ELSE pc[i]
  BY DEF Types
<1>2. \A t \in Thread : Frames(t)' = Frames(t) /\ Top(t)' = Top(t)
  BY DEF Frames, Top
<1>3. \A i \in Job : pc'[i] \in {"queued", "cbReport", "restoring", "dropping"} => ~blocking'[i]
  BY <1>1 DEF StackInv
<1>4. \A t \in Thread : \A i \in Frames(t) :
        ~blocking[stack[t][i]] /\ pc'[stack[t][i]] \notin {"idle", "queued", "done"}
  BY <1>1, FrameIsJob DEF StackInv
<1>5. ASSUME NEW t \in Thread, NEW i \in Frames(t), i # Len(stack[t])
      PROVE  pc'[stack[t][i]] \in {"opening", "computing"}
  <2>1. stack[t][i] \in Job /\ pc[stack[t][i]] \in {"opening", "computing"} /\ ~blocking[stack[t][i]]
    BY <1>5, FrameIsJob DEF StackInv
  <2>2. CASE stack[t][i] = j
    <3>1. PICK u \in Thread : Top(u) = j
      BY <2>1, <2>2 DEF Runs, OnTop
    <3>2. stack[u] # << >>
      BY <3>1, JobAssumption DEF Top
    <3>3. Len(stack[u]) \in Frames(u) /\ stack[u][Len(stack[u])] = j
      BY <3>1, <3>2, TopFrame
    <3>4. t = u /\ i = Len(stack[u])
      BY <2>2, <3>3 DEF StackInv
    <3>5. QED
      BY <1>5, <3>4
  <2>3. QED
    BY <1>1, <2>1, <2>2
<1>6. ASSUME NEW t \in Thread
      PROVE  active[t] = IF stack[t] = << >> THEN Nobody
                         ELSE IF pc'[Top(t)] = "dropping" THEN previous[Top(t)] ELSE voice[Top(t)]
  <2>1. CASE stack[t] = << >>
    BY <2>1 DEF StackInv
  <2>2. CASE stack[t] # << >>
    BY <1>1, <2>2, TopFrame DEF StackInv
  <2>3. QED
    BY <2>1, <2>2
<1>7. \A t, u \in Thread : \A i \in Frames(t), k \in Frames(u) :
        stack'[t][i] = stack'[u][k] => t = u /\ i = k
  BY DEF StackInv
<1>8. \A t \in Thread : \A i \in Frames(t) :
        previous'[stack'[t][i]] = IF i = 1 THEN Nobody ELSE voice'[stack'[t][i - 1]]
  BY DEF StackInv
<1>9. QED
  BY <1>2, <1>3, <1>4, <1>5, <1>6, <1>7, <1>8 DEF StackInv

(* A new call is on no stack.                                              *)
LEMMA StackCall ==
  ASSUME Types, StackInv, NEW j \in Job, NEW v \in Voice, NEW m \in Modes,
         Speak(j, v, m) \/ SpeakBlocking(j, v, m)
  PROVE  StackInv'
<1>1. PICK b \in BOOLEAN, p \in {"queued", "starting"} :
        Call(j, v, m, b) /\ Goto(j, p) /\ (p = "queued" => b = FALSE)
  BY DEF Speak, SpeakBlocking
<1>2. pc[j] = "idle" /\ UNCHANGED <<stack, active, previous>>
  BY <1>1 DEF Call, poolVars
<1>3. \A i \in Job : /\ pc'[i] = IF i = j THEN p ELSE pc[i]
                     /\ voice'[i] = IF i = j THEN v ELSE voice[i]
  BY <1>1 DEF Call, Goto, Types
<1>4. \A i \in Job : blocking'[i] = IF i = j THEN b ELSE blocking[i]
  BY <1>1 DEF Call, Types
<1>5. \A t \in Thread : \A i \in Frames(t) : stack[t][i] \in Job /\ stack[t][i] # j
  BY <1>2, FrameIsJob DEF StackInv
<1>6. \A t \in Thread : Frames(t)' = Frames(t) /\ Top(t)' = Top(t)
  BY <1>2 DEF Frames, Top
<1>7. \A i \in Job : pc'[i] \in {"queued", "cbReport", "restoring", "dropping"} => ~blocking'[i]
  BY <1>1, <1>3, <1>4 DEF StackInv
<1>8. \A t \in Thread : \A i \in Frames(t) :
        /\ ~blocking'[stack[t][i]] /\ pc'[stack[t][i]] \notin {"idle", "queued", "done"}
        /\ i # Len(stack[t]) => pc'[stack[t][i]] \in {"opening", "computing"}
  BY <1>3, <1>4, <1>5 DEF StackInv
<1>9. ASSUME NEW t \in Thread, NEW i \in Frames(t)
      PROVE  previous[stack[t][i]] = IF i = 1 THEN Nobody ELSE voice'[stack[t][i - 1]]
  <2>1. i # 1 => i - 1 \in Frames(t)
    BY <1>9 DEF Frames
  <2>2. QED
    BY <1>3, <1>5, <2>1 DEF StackInv
<1>10. ASSUME NEW t \in Thread
       PROVE  active[t] = IF stack[t] = << >> THEN Nobody
                          ELSE IF pc'[Top(t)] = "dropping" THEN previous[Top(t)] ELSE voice'[Top(t)]
  <2>1. CASE stack[t] = << >>
    BY <2>1 DEF StackInv
  <2>2. CASE stack[t] # << >>
    <3>1. Top(t) \in Job /\ Top(t) # j
      BY <1>5, <2>2, TopFrame
    <3>2. QED
      BY <1>3, <2>2, <3>1 DEF StackInv
  <2>3. QED
    BY <2>1, <2>2
<1>11. QED
  BY <1>2, <1>6, <1>7, <1>8, <1>9, <1>10 DEF StackInv

LEMMA StackDispatch ==
  ASSUME Types, StackInv, NEW j \in Job, NEW t \in Thread, Dispatch(t, j)
  PROVE  StackInv'
<1> DEFINE n == Len(stack[t])
<1>1. /\ pc[j] = "queued" /\ Takes(t)
      /\ UNCHANGED <<voice, blocking>>
  BY DEF Dispatch, callVars
<1>2. \A i \in Job : /\ pc'[i] = IF i = j THEN "starting" ELSE pc[i]
                     /\ previous'[i] = IF i = j THEN active[t] ELSE previous[i]
  BY DEF Dispatch, Goto, Types
<1>3. \A u \in Thread : active'[u] = IF u = t THEN voice[j] ELSE active[u]
  BY DEF Dispatch, Types
<1>4. /\ \A u \in Thread : u # t => stack'[u] = stack[u]
      /\ stack'[t] = Append(stack[t], j)
  BY DEF Dispatch, Types
<1>5. n \in Nat /\ stack[t] \in Seq(Job)
  BY DEF Types
<1>6. /\ Len(stack'[t]) = n + 1 /\ stack'[t][n + 1] = j /\ stack'[t] # << >>
      /\ \A i \in 1..n : stack'[t][i] = stack[t][i]
  BY <1>4, <1>5
<1>7. /\ Frames(t) = 1..n /\ Frames(t)' = 1..(n + 1)
      /\ \A u \in Thread : u # t => Frames(u)' = Frames(u) /\ Top(u)' = Top(u)
      /\ Top(t)' = j
  BY <1>4, <1>6 DEF Frames, Top
<1> HIDE DEF n
<1>8. \A u \in Thread : \A i \in Frames(u) : stack[u][i] \in Job /\ stack[u][i] # j
  BY <1>1, FrameIsJob DEF StackInv
<1>9. ~blocking[j]
  BY <1>1 DEF StackInv
<1>10. \A i \in Job : pc'[i] \in {"queued", "cbReport", "restoring", "dropping"} => ~blocking'[i]
  BY <1>1, <1>2 DEF StackInv
(* What a frame of the new stacks is.                                      *)
<1>11. ASSUME NEW u \in Thread, NEW i \in Frames(u)'
       PROVE  \/ u = t /\ i = n + 1 /\ stack'[u][i] = j
              \/ i \in Frames(u) /\ stack'[u][i] = stack[u][i] /\ stack'[u][i] # j
  <2>1. CASE u # t
    BY <1>4, <1>7, <1>8, <2>1
  <2>2. CASE u = t
    <3>1. i \in 1..(n + 1)
      BY <1>7, <2>2
    <3>2. i = n + 1 \/ i \in 1..n
      BY <1>5, <3>1
    <3>3. QED
      BY <1>6, <1>7, <1>8, <2>2, <3>2
  <2>3. QED
    BY <2>1, <2>2
<1>12. \A u \in Thread : \A i \in Frames(u)' :
         ~blocking'[stack'[u][i]] /\ pc'[stack'[u][i]] \notin {"idle", "queued", "done"}
  BY <1>1, <1>2, <1>8, <1>9, <1>11 DEF StackInv
<1>13. \A u, w \in Thread : \A i \in Frames(u)', k \in Frames(w)' :
         stack'[u][i] = stack'[w][k] => u = w /\ i = k
  <2> SUFFICES ASSUME NEW u \in Thread, NEW w \in Thread,
                      NEW i \in Frames(u)', NEW k \in Frames(w)',
                      stack'[u][i] = stack'[w][k]
               PROVE  u = w /\ i = k
    OBVIOUS
  <2>1. CASE stack'[u][i] = j
    <3>1. u = t /\ i = n + 1
      BY <1>11, <2>1
    <3>2. w = t /\ k = n + 1
      BY <1>11, <2>1
    <3>3. QED
      BY <3>1, <3>2
  <2>2. CASE stack'[u][i] # j
    <3>1. i \in Frames(u) /\ stack'[u][i] = stack[u][i]
      BY <1>11, <2>2
    <3>2. k \in Frames(w) /\ stack'[w][k] = stack[w][k]
      BY <1>11, <2>2
    <3>3. stack[u][i] = stack[w][k]
      BY <3>1, <3>2
    <3>4. QED
      BY <3>1, <3>2, <3>3 DEF StackInv
  <2>3. QED
    BY <2>1, <2>2
<1>14. ASSUME NEW u \in Thread, NEW i \in Frames(u)', i # Len(stack'[u])
       PROVE  pc'[stack'[u][i]] \in {"opening", "computing"}
  <2>1. i \in Frames(u) /\ stack'[u][i] = stack[u][i] /\ stack[u][i] # j
    BY <1>6, <1>11, <1>14
  <2>2. pc[stack[u][i]] \in {"opening", "computing"}
    <3>1. CASE u = t /\ i = n
      <4>1. stack[t] # << >> /\ Top(t) = stack[u][i]
        BY <2>1, <3>1, <1>5, FrameIsJob, TopFrame DEF n
      <4>2. QED
        BY <1>1, <4>1 DEF Takes
    <3>2. CASE u # t \/ i # n
      BY <1>4, <1>14, <2>1, <3>2 DEF StackInv, n
    <3>3. QED
      BY <3>1, <3>2
  <2>3. QED
    BY <1>2, <1>8, <2>1, <2>2
<1>15. active[t] = IF n = 0 THEN Nobody ELSE voice[stack[t][n]]
  <2>1. CASE n = 0
    <3>1. stack[t] = << >>
      BY <1>5, <2>1 DEF n
    <3>2. QED
      BY <2>1, <3>1 DEF StackInv
  <2>2. CASE n # 0
    <3>1. stack[t] # << >>
      BY <1>5, <2>2 DEF n
    <3>2. Top(t) = stack[t][n] /\ pc[Top(t)] # "dropping"
      BY <1>1, <3>1, TopFrame DEF Takes, n
    <3>3. QED
      BY <2>2, <3>1, <3>2 DEF StackInv
  <2>3. QED
    BY <2>1, <2>2
<1>16. ASSUME NEW u \in Thread, NEW i \in Frames(u)'
       PROVE  previous'[stack'[u][i]] = IF i = 1 THEN Nobody ELSE voice'[stack'[u][i - 1]]
  <2>1. CASE u = t /\ i = n + 1
    <3>1. previous'[stack'[u][i]] = active[t]
      BY <1>2, <1>6, <2>1
    <3>2. i = 1 <=> n = 0
      BY <1>5, <2>1
    <3>3. n # 0 => stack'[u][i - 1] = stack[t][n]
      <4>1. i - 1 = n /\ (n # 0 => n \in 1..n)
        BY <1>5, <2>1
      <4>2. QED
        BY <1>6, <2>1, <4>1
    <3>4. QED
      BY <1>1, <1>15, <3>1, <3>2, <3>3
  <2>2. CASE ~(u = t /\ i = n + 1)
    <3>1. i \in Frames(u) /\ stack'[u][i] = stack[u][i] /\ stack[u][i] # j
      BY <1>11, <2>2
    <3>2. i # 1 => i - 1 \in Frames(u) /\ stack'[u][i - 1] = stack[u][i - 1]
      <4>1. i # 1 => i - 1 \in Frames(u)
        BY <1>5, <3>1, FrameIsJob DEF Frames
      <4>2. QED
        BY <1>4, <1>6, <1>7, <4>1
    <3>3. QED
      BY <1>1, <1>2, <1>8, <3>1, <3>2 DEF StackInv
  <2>3. QED
    BY <2>1, <2>2
<1>17. ASSUME NEW u \in Thread
       PROVE  active'[u] = IF stack'[u] = << >> THEN Nobody
                           ELSE IF pc'[Top(u)'] = "dropping" THEN previous'[Top(u)'] ELSE voice'[Top(u)']
  <2>1. CASE u = t
    BY <1>1, <1>2, <1>3, <1>6, <1>7, <2>1
  <2>2. CASE u # t /\ stack[u] = << >>
    BY <1>3, <1>4, <2>2 DEF StackInv
  <2>3. CASE u # t /\ stack[u] # << >>
    <3>1. Top(u) \in Job /\ Top(u) # j
      BY <1>8, <2>3, TopFrame
    <3>2. QED
      BY <1>1, <1>2, <1>3, <1>4, <1>7, <2>3, <3>1 DEF StackInv
  <2>4. QED
    BY <2>1, <2>2, <2>3
<1>18. QED
  BY <1>10, <1>12, <1>13, <1>14, <1>16, <1>17 DEF StackInv

LEMMA StackRestore ==
  ASSUME Types, StackInv, NEW j \in Job, NEW t \in Thread, RestoreActive(t, j)
  PROVE  StackInv'
<1>1. /\ pc[j] = "restoring" /\ Top(t) = j
      /\ UNCHANGED <<voice, blocking, stack, previous>>
  BY DEF RestoreActive, callVars
<1>2. \A i \in Job : pc'[i] = IF i = j THEN "dropping" ELSE pc[i]
  BY DEF RestoreActive, Goto, Types
<1>3. \A u \in Thread : active'[u] = IF u = t THEN previous[j] ELSE active[u]
  BY DEF RestoreActive, Types
<1>4. \A u \in Thread : Frames(u)' = Frames(u) /\ Top(u)' = Top(u)
  BY <1>1 DEF Frames, Top
<1>5. stack[t] # << >>
  BY <1>1, JobAssumption DEF Top
<1>6. \A i \in Job : pc'[i] \in {"queued", "cbReport", "restoring", "dropping"} => ~blocking'[i]
  BY <1>1, <1>2 DEF StackInv
<1>7. \A u \in Thread : \A i \in Frames(u) :
        /\ ~blocking[stack[u][i]] /\ pc'[stack[u][i]] \notin {"idle", "queued", "done"}
        /\ i # Len(stack[u]) => pc'[stack[u][i]] \in {"opening", "computing"}
  BY <1>1, <1>2, FrameIsJob DEF StackInv
<1>8. ASSUME NEW u \in Thread
      PROVE  active'[u] = IF stack[u] = << >> THEN Nobody
                          ELSE IF pc'[Top(u)] = "dropping" THEN previous[Top(u)] ELSE voice[Top(u)]
  <2>1. CASE u = t
    BY <1>1, <1>2, <1>3, <1>5, <2>1
  <2>2. CASE u # t /\ stack[u] = << >>
    BY <1>3, <2>2 DEF StackInv
  <2>3. CASE u # t /\ stack[u] # << >>
    <3>1. Top(u) \in Job /\ Top(u) # j
      <4>1. Len(stack[u]) \in Frames(u) /\ Top(u) = stack[u][Len(stack[u])] /\ Top(u) \in Job
        BY <2>3, TopFrame
      <4>2. Len(stack[t]) \in Frames(t) /\ j = stack[t][Len(stack[t])]
        BY <1>1, <1>5, TopFrame
      <4>3. QED
        BY <2>3, <4>1, <4>2 DEF StackInv
    <3>2. QED
      BY <1>2, <1>3, <2>3, <3>1 DEF StackInv
  <2>4. QED
    BY <2>1, <2>2, <2>3
<1>9. QED
  BY <1>1, <1>4, <1>6, <1>7, <1>8 DEF StackInv

LEMMA StackDrop ==
  ASSUME Types, StackInv, NEW j \in Job, NEW t \in Thread, DropGuard(t, j)
  PROVE  StackInv'
<1> DEFINE n == Len(stack[t])
<1>1. /\ pc[j] = "dropping" /\ Top(t) = j
      /\ UNCHANGED <<voice, blocking, active, previous>>
  BY DEF DropGuard, callVars
<1>2. \A i \in Job : pc'[i] = IF i = j THEN "done" ELSE pc[i]
  BY DEF DropGuard, Goto, Types
<1>3. stack[t] # << >> /\ n \in Nat /\ n # 0 /\ stack[t] \in Seq(Job)
  BY <1>1, JobAssumption DEF Top, Types
<1>4. /\ \A u \in Thread : u # t => stack'[u] = stack[u]
      /\ stack'[t] = SubSeq(stack[t], 1, n - 1)
  BY DEF DropGuard, Types
<1>5. /\ Len(stack'[t]) = n - 1 /\ stack'[t] \in Seq(Job)
      /\ \A i \in 1..(n - 1) : stack'[t][i] = stack[t][i]
  BY <1>3, <1>4
<1>6. /\ Frames(t) = 1..n /\ Frames(t)' = 1..(n - 1)
      /\ \A u \in Thread : u # t => Frames(u)' = Frames(u) /\ Top(u)' = Top(u)
  BY <1>4, <1>5 DEF Frames, Top
<1>7. n \in Frames(t) /\ stack[t][n] = j
  BY <1>1, <1>3, TopFrame
<1> HIDE DEF n
<1>8. ASSUME NEW u \in Thread, NEW i \in Frames(u)'
      PROVE  /\ i \in Frames(u) /\ stack'[u][i] = stack[u][i]
             /\ stack[u][i] \in Job /\ stack[u][i] # j
             /\ u = t => i # n
  <2>1. CASE u # t
    <3>1. i \in Frames(u) /\ stack'[u][i] = stack[u][i]
      BY <1>4, <1>6, <2>1
    <3>2. stack[u][i] # j
      BY <1>7, <2>1, <3>1 DEF StackInv
    <3>3. QED
      BY <2>1, <3>1, <3>2, FrameIsJob
  <2>2. CASE u = t
    <3>1. i \in 1..(n - 1) /\ i \in 1..n /\ i # n
      BY <1>3, <1>6, <2>2
    <3>2. i \in Frames(u) /\ stack'[u][i] = stack[u][i]
      BY <1>5, <1>6, <2>2, <3>1
    <3>3. stack[u][i] # j
      BY <1>7, <2>2, <3>1, <3>2 DEF StackInv
    <3>4. QED
      BY <3>1, <3>2, <3>3, FrameIsJob
  <2>3. QED
    BY <2>1, <2>2
<1>9. \A i \in Job : pc'[i] \in {"queued", "cbReport", "restoring", "dropping"} => ~blocking'[i]
  BY <1>1, <1>2 DEF StackInv
<1>10. \A u \in Thread : \A i \in Frames(u)' :
         ~blocking'[stack'[u][i]] /\ pc'[stack'[u][i]] \notin {"idle", "queued", "done"}
  BY <1>1, <1>2, <1>8 DEF StackInv
<1>11. \A u, w \in Thread : \A i \in Frames(u)', k \in Frames(w)' :
         stack'[u][i] = stack'[w][k] => u = w /\ i = k
  <2> SUFFICES ASSUME NEW u \in Thread, NEW w \in Thread,
                      NEW i \in Frames(u)', NEW k \in Frames(w)',
                      stack'[u][i] = stack'[w][k]
               PROVE  u = w /\ i = k
    OBVIOUS
  <2>1. i \in Frames(u) /\ k \in Frames(w) /\ stack[u][i] = stack[w][k]
    BY <1>8
  <2>2. QED
    BY <2>1 DEF StackInv
<1>12. ASSUME NEW u \in Thread, NEW i \in Frames(u)'
       PROVE  pc[stack[u][i]] \in {"opening", "computing"} \/ (u # t /\ i = Len(stack[u]))
  BY <1>8 DEF StackInv, n
<1>13. \A u \in Thread : \A i \in Frames(u)' :
         i # Len(stack'[u]) => pc'[stack'[u][i]] \in {"opening", "computing"}
  BY <1>2, <1>4, <1>8, <1>12
<1>14. ASSUME NEW u \in Thread, NEW i \in Frames(u)'
       PROVE  previous'[stack'[u][i]] = IF i = 1 THEN Nobody ELSE voice'[stack'[u][i - 1]]
  <2>1. i # 1 => stack'[u][i - 1] = stack[u][i - 1]
    <3>1. i # 1 => i - 1 \in Frames(u)'
      <4>1. CASE u = t
        BY <1>3, <1>6, <4>1
      <4>2. CASE u # t
        BY <1>6, <1>8, <4>2, FrameIsJob DEF Frames
      <4>3. QED
        BY <4>1, <4>2
    <3>2. QED
      BY <1>8, <3>1
  <2>2. QED
    BY <1>1, <1>8, <2>1 DEF StackInv
<1>15. ASSUME NEW u \in Thread
       PROVE  active'[u] = IF stack'[u] = << >> THEN Nobody
                           ELSE IF pc'[Top(u)'] = "dropping" THEN previous'[Top(u)'] ELSE voice'[Top(u)']
  <2>1. CASE u = t
    <3>1. active[t] = IF n = 1 THEN Nobody ELSE voice[stack[t][n - 1]]
      BY <1>1, <1>3, <1>7 DEF StackInv
    <3>2. CASE n = 1
      <4>1. stack'[t] = << >>
        BY <1>5, <3>2
      <4>2. QED
        BY <1>1, <2>1, <3>1, <3>2, <4>1
    <3>3. CASE n # 1
      <4>1. n - 1 \in Frames(t)' /\ n - 1 \in Nat \ {0}
        BY <1>3, <1>6, <3>3
      <4>2. stack'[t] # << >> /\ Top(t)' = stack[t][n - 1]
        BY <1>5, <1>8, <4>1 DEF Top
      <4>3. pc'[stack[t][n - 1]] # "dropping"
        BY <1>2, <1>8, <1>12, <4>1
      <4>4. QED
        BY <1>1, <2>1, <3>1, <3>3, <4>2, <4>3
    <3>4. QED
      BY <3>2, <3>3
  <2>2. CASE u # t /\ stack[u] = << >>
    BY <1>1, <1>4, <2>2 DEF StackInv
  <2>3. CASE u # t /\ stack[u] # << >>
    <3>1. Top(u) \in Job /\ Top(u) # j
      <4>1. Len(stack[u]) \in Frames(u) /\ Top(u) = stack[u][Len(stack[u])] /\ Top(u) \in Job
        BY <2>3, TopFrame
      <4>2. QED
        BY <1>7, <2>3, <4>1 DEF StackInv
    <3>2. QED
      BY <1>1, <1>2, <1>4, <1>6, <2>3, <3>1 DEF StackInv
  <2>4. QED
    BY <2>1, <2>2, <2>3
<1>16. QED
  BY <1>9, <1>10, <1>11, <1>13, <1>14, <1>15 DEF StackInv

LEMMA StackStep == Types /\ StackInv /\ [Next]_vars => StackInv'
<1> SUFFICES ASSUME Types, StackInv, [Next]_vars PROVE StackInv'
  OBVIOUS
<1>1. ASSUME NEW j \in Job, TakeSlot(j) PROVE StackInv'
  <2>1. /\ pc' = [pc EXCEPT ![j] = "opening"] /\ pc[j] = "starting"
        /\ UNCHANGED <<stack, active, previous, voice, blocking>>
    BY <1>1 DEF TakeSlot, Goto, callVars, poolVars
  <2>2. QED
    BY <2>1, StackMove DEF Place, Streaming
<1>2. ASSUME NEW j \in Job, Inside(j) PROVE StackInv'
  <2>1. Moves(j)
    BY <1>2, InsideMoves
  <2>2. PICK p \in Place :
          /\ pc' = [pc EXCEPT ![j] = p]
          /\ \/ pc[j] \in Streaming /\ p \in Streaming
             \/ pc[j] = "cbReport" /\ p = "restoring"
    BY <2>1 DEF Moves
  <2>3. /\ UNCHANGED <<stack, active, previous, voice, blocking>>
        /\ Runs(j) \/ pc[j] \notin {"opening", "computing"}
    BY <2>1 DEF Moves, callVars, poolVars, InCallback
  <2>4. /\ pc[j] # "dropping" /\ p \notin {"idle", "queued", "dropping", "done", "cbReport"}
        /\ p = "restoring" => pc[j] = "cbReport"
    BY <2>2 DEF Streaming
  <2>5. p = "restoring" => ~blocking[j]
    BY <2>4 DEF StackInv
  <2>6. QED
    BY <2>2, <2>3, <2>4, <2>5, StackMove
<1>3. ASSUME NEW j \in Job, ReleaseSlot(j) PROVE StackInv'
  <2>1. /\ pc' = [pc EXCEPT ![j] = AfterSlot(j)]
        /\ pc[j] \in {"leaving", "unwinding"}
        /\ UNCHANGED <<stack, active, previous, voice, blocking>>
    BY <1>3 DEF ReleaseSlot, Goto, callVars, poolVars
  <2>2. /\ AfterSlot(j) \in {"done", "cbReport", "restoring"}
        /\ AfterSlot(j) = "done" <=> blocking[j]
    BY AfterSlotCases
  <2>3. AfterSlot(j) \in Place
    BY <2>2 DEF Place
  <2>4. QED
    BY <2>1, <2>2, <2>3, StackMove
<1>4. CASE UNCHANGED <<pc, voice, blocking, stack, active, previous>>
  BY <1>4 DEF StackInv, Frames, Top
<1>5. ASSUME NEW v \in Voice, Cancel(v) \/ UnloadCloses(v) \/ UnloadFrees(v)
      PROVE  UNCHANGED <<pc, voice, blocking, stack, active, previous>>
  BY <1>5 DEF Cancel, UnloadCloses, UnloadFrees, callVars, poolVars
<1>6. ASSUME NEW v \in Voice, NEW who \in Job \cup {Host}, UnloadCancels(who, v)
      PROVE  UNCHANGED <<pc, voice, blocking, stack, active, previous>>
  BY <1>6 DEF UnloadCancels, callVars, poolVars
<1>7. CASE UNCHANGED vars
  BY <1>4, <1>7 DEF vars, callVars, poolVars
<1>8. QED
  BY <1>1, <1>2, <1>3, <1>4, <1>5, <1>6, <1>7, StepKinds,
     StackCall, StackDispatch, StackRestore, StackDrop

(* ACTIVE_WORKER_VOICE names the voice whose callback is running, however  *)
(* deep the pool nests jobs of different voices on one thread.             *)
THEOREM WorkerVoiceIsRight == Spec => []CallbackKnowsItsVoice
<1>1. StackInv => CallbackKnowsItsVoice
  BY DEF StackInv, CallbackKnowsItsVoice, InCallback
<1>2. QED
  BY <1>1, TypesInit, TypesStep, StackInit, StackStep, PTL DEF Spec

-----------------------------------------------------------------------------
(* InFlight counts the workers of its voice.                               *)

Holders(v) == {i \in Job : Holds(i, v)}
CountInv == \A v \in Voice : running[v] = Cardinality(Holders(v))

LEMMA HoldersFinite ==
  ASSUME NEW v \in Voice
  PROVE  IsFiniteSet(Holders(v)) /\ Cardinality(Holders(v)) \in Nat
<1>1. Holders(v) \subseteq Job /\ IsFiniteSet(Job)
  BY JobAssumption DEF Holders
<1>2. IsFiniteSet(Holders(v))
  BY <1>1, FS_Subset
<1>3. QED
  BY <1>2, FS_CardinalityType

LEMMA CountInit == Init => CountInv
<1> SUFFICES ASSUME Init, NEW v \in Voice PROVE running[v] = Cardinality(Holders(v))
  BY DEF CountInv
<1>1. Holders(v) = {}
  BY DEF Init, Holders, Holds
<1>2. QED
  BY <1>1, FS_EmptySet DEF Init

(* The steps that neither register nor deregister a worker.                *)
LEMMA HoldersKept ==
  ASSUME Types, StackInv, CountInv, UNCHANGED <<voice, blocking, running>>,
         \A i \in Job :
           ~blocking[i] => (pc'[i] \in {"idle", "done"} <=> pc[i] \in {"idle", "done"})
  PROVE  CountInv'
<1>1. ASSUME NEW v \in Voice PROVE Holders(v)' = Holders(v)
  <2>1. \A i \in Job : Holds(i, v)' <=> Holds(i, v)
    BY DEF Holds
  <2>2. QED
    BY <2>1 DEF Holders
<1>2. ASSUME NEW v \in Voice PROVE running'[v] = Cardinality(Holders(v)')
  <2>1. running[v] = Cardinality(Holders(v)) /\ running'[v] = running[v]
    BY DEF CountInv
  <2>2. QED
    BY <1>1, <2>1
<1>3. QED
  BY <1>2 DEF CountInv

LEMMA CountStep == Types /\ SlotInv /\ StackInv /\ CountInv /\ [Next]_vars => CountInv'
<1> SUFFICES ASSUME Types, SlotInv, StackInv, CountInv, [Next]_vars PROVE CountInv'
  OBVIOUS
<1>1. ASSUME NEW j \in Job, NEW v \in Voice, NEW m \in Modes, Speak(j, v, m) PROVE CountInv'
  <2>1. /\ pc[j] = "idle"
        /\ \A i \in Job : /\ pc'[i] = IF i = j THEN "queued" ELSE pc[i]
                          /\ voice'[i] = IF i = j THEN v ELSE voice[i]
        /\ \A u \in Voice : running'[u] = IF u = v THEN running[u] + 1 ELSE running[u]
    BY <1>1 DEF Speak, Call, Goto, Types
  <2>2. \A i \in Job : blocking'[i] = IF i = j THEN FALSE ELSE blocking[i]
    BY <1>1 DEF Speak, Call, Types
  <2>3. Holders(v)' = Holders(v) \cup {j} /\ j \notin Holders(v)
    BY <2>1, <2>2 DEF Holders, Holds
  <2>4. \A u \in Voice : u # v => Holders(u)' = Holders(u)
    BY <2>1, <2>2 DEF Holders, Holds
  <2>5. Cardinality(Holders(v)') = Cardinality(Holders(v)) + 1
    BY <2>3, HoldersFinite, FS_AddElement
  <2>6. QED
    BY <2>1, <2>4, <2>5 DEF CountInv
<1>2. ASSUME NEW j \in Job, NEW t \in Thread, DropGuard(t, j) PROVE CountInv'
  <2>1. pc[j] = "dropping" /\ UNCHANGED <<voice, blocking>>
    BY <1>2 DEF DropGuard, callVars
  <2>2. voice[j] \in Voice /\ ~blocking[j]
    BY <2>1 DEF SlotInv, StackInv
  <2>3. /\ \A i \in Job : pc'[i] = IF i = j THEN "done" ELSE pc[i]
        /\ \A u \in Voice : running'[u] = IF u = voice[j] THEN running[u] - 1 ELSE running[u]
    BY <1>2, <2>2 DEF DropGuard, Goto, Types
  <2>4. Holders(voice[j])' = Holders(voice[j]) \ {j} /\ j \in Holders(voice[j])
    BY <2>1, <2>2, <2>3 DEF Holders, Holds
  <2>5. \A u \in Voice : u # voice[j] => Holders(u)' = Holders(u)
    BY <2>1, <2>2, <2>3 DEF Holders, Holds
  <2>6. Cardinality(Holders(voice[j])') = Cardinality(Holders(voice[j])) - 1
    BY <2>2, <2>4, HoldersFinite, FS_RemoveElement
  <2>7. QED
    BY <2>1, <2>2, <2>3, <2>5, <2>6 DEF CountInv
<1>3. ASSUME NEW j \in Job, NEW v \in Voice, NEW m \in Modes, SpeakBlocking(j, v, m) PROVE CountInv'
  <2>1. /\ pc[j] = "idle" /\ running' = running
        /\ \A i \in Job : /\ pc'[i] = IF i = j THEN "starting" ELSE pc[i]
                          /\ voice'[i] = IF i = j THEN v ELSE voice[i]
    BY <1>3 DEF SpeakBlocking, Call, Goto, Types
  <2>2. \A i \in Job : blocking'[i] = IF i = j THEN TRUE ELSE blocking[i]
    BY <1>3 DEF SpeakBlocking, Call, Types
  <2>3. ASSUME NEW u \in Voice PROVE Holders(u)' = Holders(u)
    BY <2>1, <2>2 DEF Holders, Holds
  <2>4. QED
    BY <2>1, <2>3 DEF CountInv
<1>4. ASSUME NEW j \in Job, NEW t \in Thread, Dispatch(t, j) \/ RestoreActive(t, j) PROVE CountInv'
  <2>1. PICK p \in {"starting", "dropping"} :
          /\ pc' = [pc EXCEPT ![j] = p]
          /\ pc[j] \in {"queued", "restoring"}
          /\ UNCHANGED <<voice, blocking, running>>
    BY <1>4 DEF Dispatch, RestoreActive, Goto, callVars
  <2>2. QED
    BY <2>1, HoldersKept DEF Types
<1>5. ASSUME NEW j \in Job, TakeSlot(j) PROVE CountInv'
  <2>1. pc' = [pc EXCEPT ![j] = "opening"] /\ pc[j] = "starting" /\ UNCHANGED <<voice, blocking, running>>
    BY <1>5 DEF TakeSlot, Goto, callVars
  <2>2. QED
    BY <2>1, HoldersKept DEF Types
<1>6. ASSUME NEW j \in Job, Inside(j) PROVE CountInv'
  <2>1. Moves(j)
    BY <1>6, InsideMoves
  <2>2. PICK p \in Place :
          /\ pc' = [pc EXCEPT ![j] = p]
          /\ \/ pc[j] \in Streaming /\ p \in Streaming
             \/ pc[j] = "cbReport" /\ p = "restoring"
    BY <2>1 DEF Moves
  <2>3. UNCHANGED <<voice, blocking, running>>
    BY <2>1 DEF Moves, callVars
  <2>4. pc[j] \notin {"idle", "done"} /\ p \notin {"idle", "done"}
    BY <2>2 DEF Streaming
  <2>5. QED
    BY <2>2, <2>3, <2>4, HoldersKept DEF Types
<1>7. ASSUME NEW j \in Job, ReleaseSlot(j) PROVE CountInv'
  <2>1. /\ pc' = [pc EXCEPT ![j] = AfterSlot(j)] /\ pc[j] \in {"leaving", "unwinding"}
        /\ UNCHANGED <<voice, blocking, running>>
    BY <1>7 DEF ReleaseSlot, Goto, callVars
  <2>2. ~blocking[j] => AfterSlot(j) \notin {"idle", "done"}
    BY AfterSlotCases
  <2>3. QED
    BY <2>1, <2>2, HoldersKept DEF Types
<1>8. ASSUME NEW v \in Voice, Cancel(v) \/ UnloadCloses(v) \/ UnloadFrees(v) PROVE CountInv'
  <2>1. UNCHANGED <<pc, voice, blocking, running>>
    BY <1>8 DEF Cancel, UnloadCloses, UnloadFrees, callVars
  <2>2. QED
    BY <2>1, HoldersKept
<1>9. ASSUME NEW v \in Voice, NEW who \in Job \cup {Host}, UnloadCancels(who, v) PROVE CountInv'
  <2>1. UNCHANGED <<pc, voice, blocking, running>>
    BY <1>9 DEF UnloadCancels, callVars
  <2>2. QED
    BY <2>1, HoldersKept
<1>10. CASE UNCHANGED vars
  <2>1. UNCHANGED <<pc, voice, blocking, running>>
    BY <1>10 DEF vars, callVars
  <2>2. QED
    BY <2>1, HoldersKept
<1>11. QED
  BY <1>1, <1>2, <1>3, <1>4, <1>5, <1>6, <1>7, <1>8, <1>9, <1>10, StepKinds

(* Every variable keeps its type; that the in-flight count never goes      *)
(* below zero, so that no guard is dropped twice, is the part that needs   *)
(* the invariants above.                                                   *)
THEOREM TypeCorrect == Spec => []TypeOK
<1>1. Types /\ CountInv => TypeOK
  <2> SUFFICES ASSUME Types, CountInv PROVE TypeOK
    OBVIOUS
  <2>1. \A v \in Voice : running[v] \in Nat
    BY HoldersFinite DEF CountInv
  <2>2. running \in [Voice -> Nat]
    BY <2>1 DEF Types
  <2>3. QED
    BY <2>2 DEF Types, TypeOK
<1>2. QED
  BY <1>1, TypesInit, TypesStep, SlotInit, SlotStep, StackInit, StackStep,
     CountInit, CountStep, PTL DEF Spec

-----------------------------------------------------------------------------
(* Unloading.                                                              *)

(* A voice handed over for unloading gets no new calls; a callback that    *)
(* unloads it is kept until the unload returns; and no blocking call but   *)
(* the unloading one is under way on it.                                   *)
UnloadInv ==
  /\ \A v \in Voice : unload[v] # "loaded" =>
       /\ unloader[v] \in Job \cup {Host}
       /\ unloader[v] \in Job =>
            /\ pc[unloader[v]] # "idle"
            /\ unload[v] # "freed" => pc[unloader[v]] \in InCallback
       /\ \A j \in Job : blocking[j] /\ voice[j] = v => pc[j] = "done" \/ j = unloader[v]
  /\ UnloadedVoiceIsSilent

LEMMA UnloadInit == Init => UnloadInv
  BY DEF Init, UnloadInv, UnloadedVoiceIsSilent

LEMMA UnloadMove ==
  ASSUME Types, UnloadInv, NEW j \in Job, NEW p \in Place \ {"idle"},
         pc' = [pc EXCEPT ![j] = p],
         UNCHANGED <<voice, blocking, unload, unloader>>,
         pc[j] \notin {"idle", "done"},
         pc[j] \in InCallback => CanReturn(j)
  PROVE  UnloadInv'
<1>1. \A i \in Job : pc'[i] = IF i = j THEN p ELSE pc[i]
  BY DEF Types
<1>2. ASSUME NEW v \in Voice, unload[v] # "loaded"
      PROVE  /\ unloader[v] \in Job \cup {Host}
             /\ unloader[v] \in Job =>
                  /\ pc'[unloader[v]] # "idle"
                  /\ unload[v] # "freed" => pc'[unloader[v]] \in InCallback
  <2>1. /\ unloader[v] \in Job \cup {Host}
        /\ unloader[v] \in Job =>
             /\ pc[unloader[v]] # "idle"
             /\ unload[v] # "freed" => pc[unloader[v]] \in InCallback
    BY <1>2 DEF UnloadInv
  <2>2. unload[v] # "freed" => unloader[v] # j
    <3>1. ASSUME unload[v] # "freed", unloader[v] = j PROVE FALSE
      <4>1. pc[j] \in InCallback
        BY <2>1, <3>1
      <4>2. Unloading(j, v)
        BY <3>1 DEF Unloading
      <4>3. QED
        BY <4>1, <4>2 DEF CanReturn
    <3>2. QED
      BY <3>1
  <2>3. QED
    BY <1>1, <2>1, <2>2
<1>3. ASSUME NEW v \in Voice, unload[v] # "loaded",
             NEW i \in Job, blocking[i], voice[i] = v
      PROVE  pc'[i] = "done" \/ i = unloader[v]
  <2>1. pc[i] = "done" \/ i = unloader[v]
    BY <1>3 DEF UnloadInv
  <2>2. QED
    BY <1>1, <2>1
<1>4. UnloadedVoiceIsSilent'
  <2> SUFFICES ASSUME NEW v \in Voice, unload[v] = "freed",
                      ~(unloader[v] \in Job /\ voice[unloader[v]] = v),
                      NEW i \in Job, voice[i] = v
               PROVE  pc'[i] \in {"idle", "done"}
    BY DEF UnloadedVoiceIsSilent
  <2>1. pc[i] \in {"idle", "done"}
    BY DEF UnloadInv, UnloadedVoiceIsSilent
  <2>2. QED
    BY <1>1, <2>1
<1>5. QED
  BY <1>2, <1>3, <1>4 DEF UnloadInv

LEMMA UnloadCall ==
  ASSUME Types, UnloadInv, NEW j \in Job, NEW v \in Voice, NEW m \in Modes,
         Speak(j, v, m) \/ SpeakBlocking(j, v, m)
  PROVE  UnloadInv'
<1>1. PICK b \in BOOLEAN, p \in {"queued", "starting"} : Call(j, v, m, b) /\ Goto(j, p)
  BY DEF Speak, SpeakBlocking
<1>2. pc[j] = "idle" /\ unload[v] = "loaded" /\ UNCHANGED <<unload, unloader>>
  BY <1>1 DEF Call, unloadVars
<1>3. \A i \in Job : /\ pc'[i] = IF i = j THEN p ELSE pc[i]
                     /\ voice'[i] = IF i = j THEN v ELSE voice[i]
  BY <1>1 DEF Call, Goto, Types
<1>4. \A i \in Job : i # j => blocking'[i] = blocking[i]
  BY <1>1 DEF Call, Types
<1>5. \A u \in Voice : unload[u] # "loaded" =>
        u # v /\ (unloader[u] \in Job => unloader[u] # j)
  BY <1>2 DEF UnloadInv
<1>6. ASSUME NEW u \in Voice, unload[u] # "loaded"
      PROVE  /\ unloader[u] \in Job \cup {Host}
             /\ unloader[u] \in Job =>
                  /\ pc'[unloader[u]] # "idle"
                  /\ unload[u] # "freed" => pc'[unloader[u]] \in InCallback
  BY <1>3, <1>5, <1>6 DEF UnloadInv
<1>7. ASSUME NEW u \in Voice, unload[u] # "loaded",
             NEW i \in Job, blocking'[i], voice'[i] = u
      PROVE  pc'[i] = "done" \/ i = unloader[u]
  <2>1. i # j
    BY <1>3, <1>5, <1>7
  <2>2. blocking[i] /\ voice[i] = u
    BY <1>3, <1>4, <1>7, <2>1
  <2>3. QED
    BY <1>3, <1>7, <2>1, <2>2 DEF UnloadInv
<1>8. UnloadedVoiceIsSilent'
  <2> SUFFICES ASSUME NEW u \in Voice, unload[u] = "freed",
                      ~(unloader[u] \in Job /\ voice'[unloader[u]] = u),
                      NEW i \in Job, voice'[i] = u
               PROVE  pc'[i] \in {"idle", "done"}
    BY <1>2 DEF UnloadedVoiceIsSilent
  <2>1. i # j /\ (unloader[u] \in Job => unloader[u] # j)
    BY <1>3, <1>5
  <2>2. ~(unloader[u] \in Job /\ voice[unloader[u]] = u) /\ voice[i] = u
    BY <1>3, <2>1
  <2>3. pc[i] \in {"idle", "done"}
    BY <2>2 DEF UnloadInv, UnloadedVoiceIsSilent
  <2>4. QED
    BY <1>3, <2>1, <2>3
<1>9. QED
  BY <1>2, <1>6, <1>7, <1>8 DEF UnloadInv

(* close_and_wait: it either waited for all workers, or found itself on    *)
(* one of them.                                                            *)
LEMMA UnloadFree ==
  ASSUME Types, SlotInv, StackInv, CountInv, UnloadInv,
         NEW v \in Voice, UnloadFrees(v)
  PROVE  UnloadInv'
<1>1. /\ unload[v] = "waiting"
      /\ UNCHANGED <<pc, voice, blocking, unloader>>
      /\ \A u \in Voice : unload'[u] = IF u = v THEN "freed" ELSE unload[u]
  BY DEF UnloadFrees, callVars, Types
<1>2. unloader[v] \in Job \cup {Host}
  BY <1>1 DEF UnloadInv
<1>3. OnOwnWorker(v) => voice[unloader[v]] = v
  <2> SUFFICES ASSUME NEW t \in Thread, unloader[v] # Host, Top(t) = unloader[v], active[t] = v
               PROVE  voice[unloader[v]] = v
    BY DEF OnOwnWorker
  <2>1. unloader[v] \in Job /\ pc[unloader[v]] \in InCallback
    BY <1>1 DEF UnloadInv
  <2>2. stack[t] # << >> /\ pc[Top(t)] # "dropping"
    BY <2>1, JobAssumption DEF Top, InCallback
  <2>3. active[t] = voice[Top(t)]
    BY <2>2 DEF StackInv
  <2>4. QED
    BY <2>3
<1>4. ASSUME running[v] = 0, ~(unloader[v] \in Job /\ voice[unloader[v]] = v),
             NEW i \in Job, voice[i] = v
      PROVE  pc[i] \in {"idle", "done"}
  <2>1. Holders(v) = {}
    <3>1. Cardinality(Holders(v)) = 0
      BY <1>4 DEF CountInv
    <3>2. QED
      BY <3>1, HoldersFinite, FS_EmptySet
  <2>2. ~Holds(i, v)
    BY <2>1 DEF Holders
  <2>3. CASE ~blocking[i]
    BY <1>4, <2>2, <2>3 DEF Holds
  <2>4. CASE blocking[i]
    BY <1>1, <1>4, <2>4 DEF UnloadInv
  <2>5. QED
    BY <2>3, <2>4
<1>5. OnOwnWorker(v) \/ running[v] = 0
  BY DEF UnloadFrees
<1>6. UnloadedVoiceIsSilent'
  <2> SUFFICES ASSUME NEW u \in Voice, unload'[u] = "freed"
               PROVE  \/ unloader[u] \in Job /\ voice[unloader[u]] = u
                      \/ \A i \in Job : voice[i] = u => pc[i] \in {"idle", "done"}
    BY <1>1 DEF UnloadedVoiceIsSilent
  <2>1. CASE u = v /\ OnOwnWorker(v)
    <3>1. unloader[v] \in Job
      BY <1>2, <2>1 DEF OnOwnWorker
    <3>2. QED
      BY <1>3, <2>1, <3>1
  <2>2. CASE u = v /\ running[v] = 0
    BY <1>4, <2>2
  <2>3. CASE u # v
    BY <1>1, <2>3 DEF UnloadInv, UnloadedVoiceIsSilent
  <2>4. QED
    BY <1>5, <2>1, <2>2, <2>3
<1>7. ASSUME NEW u \in Voice, unload'[u] # "loaded"
      PROVE  unload[u] # "loaded" /\ (unload'[u] # "freed" => unload[u] # "freed")
  BY <1>1, <1>7
<1>8. QED
  BY <1>1, <1>6, <1>7 DEF UnloadInv

LEMMA UnloadStart ==
  ASSUME Types, UnloadInv, NEW v \in Voice, NEW who \in Job \cup {Host},
         UnloadCancels(who, v)
  PROVE  UnloadInv'
<1>1. /\ unload[v] = "loaded"
      /\ who # Host => pc[who] \in InCallback
      /\ \A i \in Job : blocking[i] /\ voice[i] = v => pc[i] = "done" \/ i = who
      /\ UNCHANGED <<pc, voice, blocking>>
  BY DEF UnloadCancels, MayUnload, callVars
<1>2. \A u \in Voice : /\ unload'[u] = IF u = v THEN "cancelling" ELSE unload[u]
                       /\ unloader'[u] = IF u = v THEN who ELSE unloader[u]
  BY DEF UnloadCancels, Types
<1>3. who \in Job => pc[who] # "idle" /\ pc[who] \in InCallback
  BY <1>1, JobAssumption DEF InCallback
<1>4. UnloadedVoiceIsSilent'
  BY <1>1, <1>2 DEF UnloadInv, UnloadedVoiceIsSilent
<1>5. ASSUME NEW u \in Voice, unload'[u] # "loaded"
      PROVE  /\ unloader'[u] \in Job \cup {Host}
             /\ unloader'[u] \in Job =>
                  /\ pc[unloader'[u]] # "idle"
                  /\ unload'[u] # "freed" => pc[unloader'[u]] \in InCallback
             /\ \A j \in Job : blocking[j] /\ voice[j] = u => pc[j] = "done" \/ j = unloader'[u]
  <2>1. CASE u = v
    BY <1>1, <1>2, <1>3, <2>1
  <2>2. CASE u # v
    BY <1>2, <1>5, <2>2 DEF UnloadInv
  <2>3. QED
    BY <2>1, <2>2
<1>6. QED
  BY <1>1, <1>4, <1>5 DEF UnloadInv

LEMMA UnloadInvStep ==
  Types /\ SlotInv /\ StackInv /\ CountInv /\ UnloadInv /\ [Next]_vars => UnloadInv'
<1> SUFFICES ASSUME Types, SlotInv, StackInv, CountInv, UnloadInv, [Next]_vars
             PROVE  UnloadInv'
  OBVIOUS
<1>1. ASSUME NEW j \in Job, NEW t \in Thread,
             Dispatch(t, j) \/ RestoreActive(t, j) \/ DropGuard(t, j)
      PROVE  UnloadInv'
  <2>1. PICK p \in {"starting", "dropping", "done"} :
          /\ pc' = [pc EXCEPT ![j] = p]
          /\ pc[j] \in {"queued", "restoring", "dropping"}
          /\ UNCHANGED <<voice, blocking, unload, unloader>>
    BY <1>1 DEF Dispatch, RestoreActive, DropGuard, Goto, callVars, unloadVars
  <2>2. QED
    BY <2>1, UnloadMove DEF Place, InCallback
<1>2. ASSUME NEW j \in Job, TakeSlot(j) PROVE UnloadInv'
  <2>1. /\ pc' = [pc EXCEPT ![j] = "opening"] /\ pc[j] = "starting"
        /\ UNCHANGED <<voice, blocking, unload, unloader>>
    BY <1>2 DEF TakeSlot, Goto, callVars, unloadVars
  <2>2. QED
    BY <2>1, UnloadMove DEF Place, Streaming, InCallback
<1>3. ASSUME NEW j \in Job, Inside(j) PROVE UnloadInv'
  <2>1. Moves(j)
    BY <1>3, InsideMoves
  <2>2. PICK p \in Place :
          /\ pc' = [pc EXCEPT ![j] = p]
          /\ \/ pc[j] \in Streaming /\ p \in Streaming
             \/ pc[j] = "cbReport" /\ p = "restoring"
    BY <2>1 DEF Moves
  <2>3. UNCHANGED <<voice, blocking, unload, unloader>> /\ (pc[j] \in InCallback => CanReturn(j))
    BY <2>1 DEF Moves, callVars, unloadVars
  <2>4. pc[j] \notin {"idle", "done"} /\ p # "idle"
    BY <2>2 DEF Streaming
  <2>5. QED
    BY <2>2, <2>3, <2>4, UnloadMove
<1>4. ASSUME NEW j \in Job, ReleaseSlot(j) PROVE UnloadInv'
  <2>1. /\ pc' = [pc EXCEPT ![j] = AfterSlot(j)] /\ pc[j] \in {"leaving", "unwinding"}
        /\ UNCHANGED <<voice, blocking, unload, unloader>>
    BY <1>4 DEF ReleaseSlot, Goto, callVars, unloadVars
  <2>2. AfterSlot(j) \in Place \ {"idle"}
    <3>1. AfterSlot(j) \in {"done", "cbReport", "restoring"}
      BY AfterSlotCases
    <3>2. QED
      BY <3>1 DEF Place
  <2>3. QED
    BY <2>1, <2>2, UnloadMove DEF InCallback
<1>5. CASE UNCHANGED <<pc, voice, blocking, unload, unloader>>
  BY <1>5 DEF UnloadInv, UnloadedVoiceIsSilent
<1>6. ASSUME NEW v \in Voice, Cancel(v) PROVE UnloadInv'
  BY <1>5, <1>6 DEF Cancel, callVars, unloadVars
<1>7. ASSUME NEW v \in Voice, UnloadCloses(v) PROVE UnloadInv'
  <2>1. /\ UNCHANGED <<pc, voice, blocking, unloader>> /\ unload[v] = "cancelling"
        /\ \A u \in Voice : unload'[u] = IF u = v THEN "waiting" ELSE unload[u]
    BY <1>7 DEF UnloadCloses, callVars, Types
  <2>2. \A u \in Voice : /\ unload'[u] # "loaded" <=> unload[u] # "loaded"
                         /\ unload'[u] # "freed" <=> unload[u] # "freed"
    BY <2>1
  <2>3. QED
    BY <2>1, <2>2 DEF UnloadInv, UnloadedVoiceIsSilent
<1>8. CASE UNCHANGED vars
  BY <1>5, <1>8 DEF vars, callVars, unloadVars
<1>9. QED
  BY <1>1, <1>2, <1>3, <1>4, <1>6, <1>7, <1>8, StepKinds,
     UnloadCall, UnloadFree, UnloadStart

(* "No callback fires after this returns", of libdengjenUnloadDengjenVoice *)
(* from outside the voice's own callbacks: when it has returned no call on *)
(* the voice is queued or under way, for any number of voices, calls and   *)
(* threads and any nesting of jobs on the pool.                            *)
THEOREM SilentAfterUnload == Spec => []UnloadedVoiceIsSilent
<1>1. UnloadInv => UnloadedVoiceIsSilent
  BY DEF UnloadInv
<1>2. QED
  BY <1>1, TypesInit, TypesStep, SlotInit, SlotStep, StackInit, StackStep,
     CountInit, CountStep, UnloadInit, UnloadInvStep, PTL DEF Spec

-----------------------------------------------------------------------------
(* How a call ends.                                                        *)

(* Nothing is recorded of a call before its last event or its callback's   *)
(* refusal, and one of the two afterwards; only a blocking call, which     *)
(* returns its error, ends without either.                                 *)
Ended == {"leaving", "restoring", "dropping", "done"}
EndInv ==
  \A j \in Job :
    /\ terminal[j] \in {0, 1}
    /\ pc[j] \notin Ended => terminal[j] = 0 /\ ~declined[j]
    /\ declined[j] => terminal[j] = 0
    /\ pc[j] \in Ended => blocking[j] \/ declined[j] \/ terminal[j] = 1

LEMMA EndInit == Init => EndInv
  BY DEF Init, EndInv, Ended

LEMMA EndMove ==
  ASSUME Types, EndInv, NEW j \in Job, NEW p \in Place,
         pc' = [pc EXCEPT ![j] = p],
         pc[j] \in Ended => p \in Ended,
         p \in Ended => pc[j] \in Ended \/ blocking[j],
         UNCHANGED <<blocking, terminal, declined>>
  PROVE  EndInv'
<1>1. \A i \in Job : pc'[i] = IF i = j THEN p ELSE pc[i]
  BY DEF Types
<1>2. QED
  BY <1>1 DEF EndInv

(* The host hears of the end at the return of a callback.                  *)
LEMMA EndReturn ==
  ASSUME Types, EndInv, NEW j \in Job, WantsMore(j) \/ Declines(j) \/ Ends(j)
  PROVE  EndInv'
<1> USE DEF Ended
<1>1. CASE WantsMore(j)
  <2>1. /\ pc[j] = "cbSpeech" /\ pc' = [pc EXCEPT ![j] = "pulling"]
        /\ UNCHANGED <<blocking, terminal, declined>>
    BY <1>1 DEF WantsMore, Return, Goto, callVars, eventVars
  <2>2. QED
    BY <2>1, EndMove DEF Place, Streaming
<1>2. CASE Declines(j)
  <2>1. /\ pc[j] = "cbSpeech" /\ pc' = [pc EXCEPT ![j] = "leaving"]
        /\ declined' = [declined EXCEPT ![j] = TRUE] /\ UNCHANGED <<blocking, terminal>>
    BY <1>2 DEF Declines, Return, Goto, callVars
  <2>2. \A i \in Job : /\ pc'[i] = IF i = j THEN "leaving" ELSE pc[i]
                       /\ declined'[i] = IF i = j THEN TRUE ELSE declined[i]
    BY <2>1 DEF Types
  <2>3. QED
    BY <2>1, <2>2 DEF EndInv
<1>3. CASE Ends(j)
  <2>1. PICK p \in {"leaving", "restoring"} :
          /\ pc[j] \in {"cbError", "cbFinished", "cbReport"}
          /\ pc' = [pc EXCEPT ![j] = p]
          /\ terminal' = [terminal EXCEPT ![j] = @ + 1] /\ UNCHANGED <<blocking, declined>>
    BY <1>3 DEF Ends, Return, Goto, callVars
  <2>2. terminal[j] = 0 /\ ~declined[j]
    BY <2>1 DEF EndInv
  <2>3. \A i \in Job : /\ pc'[i] = IF i = j THEN p ELSE pc[i]
                       /\ terminal'[i] = IF i = j THEN 1 ELSE terminal[i]
    BY <2>1, <2>2 DEF Types
  <2>4. QED
    BY <2>1, <2>2, <2>3 DEF EndInv
<1>4. QED
  BY <1>1, <1>2, <1>3

LEMMA EndStep == Types /\ StackInv /\ EndInv /\ [Next]_vars => EndInv'
<1> SUFFICES ASSUME Types, StackInv, EndInv, [Next]_vars PROVE EndInv'
  OBVIOUS
<1> USE DEF Ended
<1>1. ASSUME NEW j \in Job, NEW v \in Voice, NEW m \in Modes,
             Speak(j, v, m) \/ SpeakBlocking(j, v, m)
      PROVE  EndInv'
  <2>1. PICK b \in BOOLEAN, p \in {"queued", "starting"} : Call(j, v, m, b) /\ Goto(j, p)
    BY <1>1 DEF Speak, SpeakBlocking
  <2>2. \A i \in Job : /\ pc'[i] = IF i = j THEN p ELSE pc[i]
                       /\ i # j => blocking'[i] = blocking[i]
    BY <2>1 DEF Call, Goto, Types
  <2>3. pc[j] = "idle" /\ UNCHANGED <<terminal, declined>>
    BY <2>1 DEF Call, eventVars
  <2>4. QED
    BY <2>2, <2>3 DEF EndInv
<1>2. ASSUME NEW j \in Job, NEW t \in Thread,
             Dispatch(t, j) \/ RestoreActive(t, j) \/ DropGuard(t, j)
      PROVE  EndInv'
  <2>1. PICK p \in {"starting", "dropping", "done"} :
          /\ pc' = [pc EXCEPT ![j] = p]
          /\ pc[j] \in {"queued", "restoring", "dropping"}
          /\ p = "starting" <=> pc[j] = "queued"
          /\ UNCHANGED <<blocking, terminal, declined>>
    BY <1>2 DEF Dispatch, RestoreActive, DropGuard, Goto, callVars, eventVars
  <2>2. QED
    BY <2>1, EndMove DEF Place
<1>3. ASSUME NEW j \in Job, TakeSlot(j) PROVE EndInv'
  <2>1. /\ pc' = [pc EXCEPT ![j] = "opening"] /\ pc[j] = "starting"
        /\ UNCHANGED <<blocking, terminal, declined>>
    BY <1>3 DEF TakeSlot, Goto, callVars, eventVars
  <2>2. QED
    BY <2>1, EndMove DEF Place, Streaming
<1>4. ASSUME NEW j \in Job, Inside(j) PROVE EndInv'
  <2>1. CASE WantsMore(j) \/ Declines(j) \/ Ends(j)
    BY <2>1, EndReturn
  <2>2. CASE ~(WantsMore(j) \/ Declines(j) \/ Ends(j))
    <3>1. PICK p \in Streaming \ {"leaving"} :
            /\ pc' = [pc EXCEPT ![j] = p] /\ pc[j] \in Streaming \ {"leaving"}
            /\ UNCHANGED <<blocking, terminal, declined>>
      BY <1>4, <2>2
      DEF Inside, Open, OpenFails, Pull, StreamEnds, StreamPanics, StreamYields, DeliverItem,
          DeliverFinished, Step, Goto, callVars, eventVars, Streaming
    <3>2. p \notin Ended /\ pc[j] \notin Ended /\ p \in Place
      BY <3>1 DEF Streaming, Place
    <3>3. QED
      BY <3>1, <3>2, EndMove
  <2>3. QED
    BY <2>1, <2>2
<1>5. ASSUME NEW j \in Job, ReleaseSlot(j) PROVE EndInv'
  <2>1. /\ pc' = [pc EXCEPT ![j] = AfterSlot(j)] /\ pc[j] \in {"leaving", "unwinding"}
        /\ UNCHANGED <<blocking, terminal, declined>>
    BY <1>5 DEF ReleaseSlot, Goto, callVars, eventVars
  <2>2. AfterSlot(j) \in Place
    BY AfterSlotCases DEF Place
  <2>3. CASE blocking[j]
    BY <2>1, <2>2, <2>3, AfterSlotCases, EndMove
  <2>4. CASE ~blocking[j] /\ pc[j] = "unwinding"
    BY <2>1, <2>2, <2>4, AfterSlotCases, EndMove
  <2>5. CASE ~blocking[j] /\ pc[j] # "unwinding"
    BY <2>1, <2>2, <2>5, AfterSlotCases, EndMove
  <2>6. QED
    BY <2>3, <2>4, <2>5
<1>6. CASE UNCHANGED <<pc, blocking, terminal, declined>>
  BY <1>6 DEF EndInv
<1>7. ASSUME NEW v \in Voice, Cancel(v) \/ UnloadCloses(v) \/ UnloadFrees(v) PROVE EndInv'
  BY <1>6, <1>7 DEF Cancel, UnloadCloses, UnloadFrees, callVars, eventVars
<1>8. ASSUME NEW v \in Voice, NEW who \in Job \cup {Host}, UnloadCancels(who, v) PROVE EndInv'
  BY <1>6, <1>8 DEF UnloadCancels, callVars, eventVars
<1>9. CASE UNCHANGED vars
  BY <1>6, <1>9 DEF vars, callVars, eventVars
<1>10. QED
  BY <1>1, <1>2, <1>3, <1>4, <1>5, <1>7, <1>8, <1>9, StepKinds

(* The host learns of the end of every nonblocking call exactly once, by a *)
(* FINISHED or an ERROR event, unless its own callback refused to go on:   *)
(* for any interleaving of the calls, failures and panics of the stream,   *)
(* and unloads from anywhere.                                              *)
THEOREM EveryEndIsReportedOnce == Spec => []EndIsReportedOnce
<1>1. EndInv => EndIsReportedOnce
  BY DEF EndInv, EndIsReportedOnce, Ended
<1>2. QED
  BY <1>1, TypesInit, TypesStep, StackInit, StackStep, EndInit, EndStep, PTL DEF Spec

(* A call enters its speech callback by a delivery only.                   *)
LEMMA EnteringSpeech ==
  ASSUME Types, [Next]_vars, NEW j \in Job, pc[j] # "cbSpeech", pc'[j] = "cbSpeech"
  PROVE  DeliverItem(j)
<1>1. ASSUME NEW i \in Job, NEW p, pc' = [pc EXCEPT ![i] = p], p # "cbSpeech" PROVE FALSE
  BY <1>1 DEF Types
<1>2. CASE \E i \in Job, v \in Voice, m \in Modes : Speak(i, v, m) \/ SpeakBlocking(i, v, m)
  BY <1>1, <1>2 DEF Speak, SpeakBlocking, Goto
<1>3. CASE \E i \in Job, t \in Thread : Dispatch(t, i) \/ RestoreActive(t, i) \/ DropGuard(t, i)
  BY <1>1, <1>3 DEF Dispatch, RestoreActive, DropGuard, Goto
<1>4. CASE \E i \in Job : TakeSlot(i)
  BY <1>1, <1>4 DEF TakeSlot, Goto
<1>5. CASE \E i \in Job : ReleaseSlot(i)
  <2>1. PICK i \in Job : ReleaseSlot(i)
    BY <1>5
  <2>2. AfterSlot(i) # "cbSpeech"
    BY AfterSlotCases
  <2>3. QED
    BY <1>1, <2>1, <2>2 DEF ReleaseSlot, Goto
<1>6. ASSUME NEW i \in Job, Inside(i) PROVE DeliverItem(j)
  <2>1. CASE DeliverItem(i)
    <3>1. PICK p : pc' = [pc EXCEPT ![i] = p]
      BY <2>1 DEF DeliverItem, Step, Goto
    <3>2. i = j
      BY <3>1 DEF Types
    <3>3. QED
      BY <2>1, <3>2
  <2>2. CASE ~DeliverItem(i)
    <3>1. PICK p : pc' = [pc EXCEPT ![i] = p] /\ p # "cbSpeech"
      BY <1>6, <2>2
      DEF Inside, Open, OpenFails, Pull, StreamEnds, StreamPanics, StreamYields,
          DeliverFinished, WantsMore, Declines, Ends, Return, Step, Goto
    <3>2. QED
      BY <1>1, <3>1
  <2>3. QED
    BY <2>1, <2>2
<1>7. CASE \E v \in Voice : Cancel(v) \/ UnloadCloses(v) \/ UnloadFrees(v)
  BY <1>7 DEF Cancel, UnloadCloses, UnloadFrees
<1>8. CASE \E v \in Voice, who \in Job \cup {Host} : UnloadCancels(who, v)
  BY <1>8 DEF UnloadCancels
<1>9. CASE UNCHANGED vars
  BY <1>9 DEF vars
<1>10. QED
  BY <1>2, <1>3, <1>4, <1>5, <1>6, <1>7, <1>8, <1>9, StepKinds

(* Once close_and_wait has set the flag no worker of the voice, however    *)
(* many there are, hands another chunk of audio to the host.               *)
THEOREM ClosingIsQuiet == Spec => NoAudioOnceClosing
<1>1. ASSUME Types, [Next]_vars
      PROVE  [\A j \in Job : pc[j] # "cbSpeech" /\ pc'[j] = "cbSpeech" => ~closing[voice[j]]]_vars
  <2> SUFFICES ASSUME NEW j \in Job, pc[j] # "cbSpeech", pc'[j] = "cbSpeech"
               PROVE  ~closing[voice[j]]
    OBVIOUS
  <2>1. DeliverItem(j)
    BY <1>1, EnteringSpeech
  <2>2. pc'[j] = IF closing[voice[j]] THEN "finishing" ELSE IF pc[j] = "gotItem" THEN "cbSpeech" ELSE "cbError"
    BY <1>1, <2>1 DEF DeliverItem, Step, Goto, Types
  <2>3. QED
    BY <2>2
<1>2. QED
  BY <1>1, TypesInit, TypesStep, PTL DEF Spec, NoAudioOnceClosing

-----------------------------------------------------------------------------
(* The bindings.                                                           *)

(* Every step of a binding is a step of the C API or none at all.          *)
LEMMA BindingStepIsVoiceStep == [BindingNext]_allVars => [Next]_vars
<1> SUFFICES ASSUME [BindingNext]_allVars PROVE [Next]_vars
  OBVIOUS
<1>1. ASSUME NEW j \in Job, NEW v \in Voice, NEW m \in Modes, BindingSpeak(j, v, m)
      PROVE  Next
  BY <1>1 DEF BindingSpeak, Next
<1>2. ASSUME NEW j \in Job, NEW v \in Voice, HandlerWaits(j, v) PROVE UNCHANGED vars
  BY <1>2 DEF HandlerWaits
<1>3. ASSUME NEW j \in Job, NativeStep(j) \/ CallEnds(j) \/ CallbackReturns(j)
      PROVE  Next
  <2>1. JobStep(j)
    BY <1>3 DEF NativeStep, CallEnds, CallbackReturns, HandlerWantsMore, HandlerStops,
                TerminalEventReturns, HandlerThrows, JobStep
  <2>2. QED
    BY <2>1 DEF Next
<1>4. ASSUME NEW v \in Voice, Cancel(v) PROVE Next
  BY <1>4 DEF Next
<1>5. ASSUME NEW v \in Voice, NEW who \in Job \cup {Host}, Close(who, v) PROVE Next
  BY <1>5 DEF Close, Next
<1>6. ASSUME NEW v \in Voice, CloseAgain(v) \/ CloseStep(v) PROVE [Next]_vars
  BY <1>6 DEF CloseAgain, CloseStep, GoForgets, Next
<1>7. CASE UNCHANGED allVars
  BY <1>7 DEF allVars
<1>8. QED
  BY <1>1, <1>2, <1>3, <1>4, <1>5, <1>6, <1>7 DEF BindingNext, CallStep

(* A binding uses the C API as its header allows, so that everything that  *)
(* is proved of the C API holds under the Go and the Java binding as well. *)
THEOREM BindingKeepsTheContract == BindingSpec => Spec
<1>1. BindingSpec => BindingInit /\ [][BindingNext]_allVars
  BY PTL DEF BindingSpec
<1>2. BindingInit => Init
  BY DEF BindingInit
<1>3. QED
  BY <1>1, <1>2, BindingStepIsVoiceStep, PTL DEF Spec

(* A call has its entry from before the native call until its last event,  *)
(* its callback's refusal, or the error of a blocking call; a Java voice   *)
(* gives up its handle together with unloading.                            *)
BindingInv ==
  /\ BindingTypeOK
  /\ \A j \in Job : entry[j] <=> pc[j] \notin {"idle"} \cup Ended
  /\ \A v \in Voice : lang[v] = "java" => unloads[v] = IF ptr[v] THEN 0 ELSE 1

LEMMA BindingInvInit == BindingInit => BindingInv
  BY DEF BindingInit, Init, BindingInv, BindingTypeOK

(* How the registry follows a call.                                        *)
EntryFollows(j, p) ==
  /\ pc' = [pc EXCEPT ![j] = p]
  /\ entry' = [entry EXCEPT ![j] = p \notin {"idle"} \cup Ended]

LEMMA EntryMove ==
  ASSUME Types, BindingInv, NEW j \in Job, NEW p, EntryFollows(j, p),
         waiting' \in [Job -> Voice \cup {Nobody}], UNCHANGED handleVars
  PROVE  BindingInv'
<1>1. \A i \in Job : /\ pc'[i] = IF i = j THEN p ELSE pc[i]
                     /\ entry'[i] = IF i = j THEN p \notin {"idle"} \cup Ended ELSE entry[i]
  BY DEF EntryFollows, Types, BindingInv, BindingTypeOK
<1>2. entry' \in [Job -> BOOLEAN]
  BY DEF EntryFollows, BindingInv, BindingTypeOK
<1>3. \A i \in Job : entry'[i] <=> pc'[i] \notin {"idle"} \cup Ended
  BY <1>1 DEF BindingInv
<1>4. QED
  BY <1>2, <1>3 DEF BindingInv, BindingTypeOK, handleVars

LEMMA BindingCallStep ==
  ASSUME Types, BindingInv, NEW j \in Job, NativeStep(j) \/ CallEnds(j) \/ CallbackReturns(j)
  PROVE  BindingInv'
<1> USE DEF Ended
<1>1. waiting \in [Job -> Voice \cup {Nobody}] /\ entry \in [Job -> BOOLEAN]
  BY DEF BindingInv, BindingTypeOK
<1>2. entry[j] <=> pc[j] \notin {"idle"} \cup Ended
  BY DEF BindingInv
<1>3. CASE NativeStep(j)
  <2>1. UNCHANGED bindingVars
    BY <1>3 DEF NativeStep
  <2>2. PICK p : /\ pc' = [pc EXCEPT ![j] = p]
                 /\ pc[j] \in {"restoring", "dropping"} => p \in Ended
                 /\ pc[j] \notin {"restoring", "dropping"} =>
                      pc[j] \notin {"idle"} \cup Ended /\ p \notin {"idle"} \cup Ended
    <3>1. CASE \E t \in Thread : Dispatch(t, j) \/ RestoreActive(t, j) \/ DropGuard(t, j)
      <4>1. PICK p \in {"starting", "dropping", "done"} :
              /\ pc' = [pc EXCEPT ![j] = p]
              /\ \/ pc[j] = "queued" /\ p = "starting"
                 \/ pc[j] \in {"restoring", "dropping"} /\ p \in {"dropping", "done"}
        BY <3>1 DEF Dispatch, RestoreActive, DropGuard, Goto
      <4>2. QED
        BY <4>1
    <3>2. CASE TakeSlot(j)
      <4>1. PICK p \in {"opening"} : pc[j] = "starting" /\ pc' = [pc EXCEPT ![j] = p]
        BY <3>2 DEF TakeSlot, Goto
      <4>2. QED
        BY <4>1
    <3>3. CASE \/ Open(j) \/ OpenFails(j) \/ Pull(j) \/ StreamEnds(j) \/ StreamPanics(j)
               \/ StreamYields(j) \/ DeliverItem(j) \/ DeliverFinished(j)
      <4>1. PICK p \in Streaming \ {"leaving"} :
              pc' = [pc EXCEPT ![j] = p] /\ pc[j] \in Streaming \ {"leaving"}
        BY <3>3
        DEF Open, OpenFails, Pull, StreamEnds, StreamPanics, StreamYields, DeliverItem,
            DeliverFinished, Step, Goto, Streaming
      <4>2. QED
        BY <4>1 DEF Streaming
    <3>4. QED
      BY <1>3, <3>1, <3>2, <3>3 DEF NativeStep
  <2>3. entry' = [entry EXCEPT ![j] = p \notin {"idle"} \cup Ended]
    BY <1>1, <1>2, <2>1, <2>2 DEF bindingVars
  <2>4. QED
    BY <1>1, <2>1, <2>2, <2>3, EntryMove DEF EntryFollows, bindingVars
<1>4. CASE CallEnds(j)
  <2>1. /\ pc[j] \in {"leaving", "unwinding"} /\ pc' = [pc EXCEPT ![j] = AfterSlot(j)]
        /\ entry' = IF blocking[j] /\ pc[j] = "unwinding" THEN [entry EXCEPT ![j] = FALSE] ELSE entry
        /\ UNCHANGED <<handleVars, waiting>>
    BY <1>4 DEF CallEnds, ReleaseSlot, Goto
  <2>2. entry' = [entry EXCEPT ![j] = AfterSlot(j) \notin {"idle"} \cup Ended]
    <3>1. CASE blocking[j] /\ pc[j] = "unwinding"
      BY <2>1, <3>1, AfterSlotCases
    <3>2. CASE ~blocking[j] /\ pc[j] = "unwinding"
      BY <1>1, <1>2, <2>1, <3>2, AfterSlotCases
    <3>3. CASE pc[j] # "unwinding"
      <4>1. AfterSlot(j) \in {"done", "restoring"}
        BY <3>3, AfterSlotCases DEF Types
      <4>2. ~entry[j] /\ entry' = entry
        BY <1>2, <2>1, <3>3
      <4>3. QED
        BY <1>1, <4>1, <4>2
    <3>4. QED
      BY <3>1, <3>2, <3>3
  <2>3. QED
    BY <1>1, <2>1, <2>2, EntryMove DEF EntryFollows
<1>5. CASE HandlerWantsMore(j)
  <2>1. /\ pc[j] = "cbSpeech" /\ pc' = [pc EXCEPT ![j] = "pulling"] /\ UNCHANGED bindingVars
    BY <1>5 DEF HandlerWantsMore, WantsMore, Return, Goto
  <2>2. entry' = [entry EXCEPT ![j] = "pulling" \notin {"idle"} \cup Ended]
    BY <1>1, <1>2, <2>1 DEF bindingVars
  <2>3. QED
    BY <1>1, <2>1, <2>2, EntryMove DEF EntryFollows, bindingVars
<1>6. CASE HandlerStops(j) \/ TerminalEventReturns(j) \/ HandlerThrows(j)
  <2>1. PICK p \in {"leaving", "restoring"} : pc' = [pc EXCEPT ![j] = p]
    BY <1>6 DEF HandlerStops, TerminalEventReturns, HandlerThrows, Declines, Ends, Return, Goto
  <2>2. /\ entry' = [entry EXCEPT ![j] = FALSE] /\ UNCHANGED handleVars
        /\ waiting' \in [Job -> Voice \cup {Nobody}]
    BY <1>1, <1>6 DEF HandlerStops, TerminalEventReturns, HandlerThrows
  <2>3. EntryFollows(j, p)
    BY <2>1, <2>2 DEF EntryFollows
  <2>4. QED
    BY <2>2, <2>3, EntryMove
<1>7. QED
  BY <1>3, <1>4, <1>5, <1>6 DEF CallbackReturns

(* The handle: only Java's close gives it up together with the unload.     *)
LEMMA BindingCloseStep ==
  ASSUME Types, BindingInv, NEW v \in Voice,
         \/ \E who \in Job \cup {Host} : Close(who, v)
         \/ CloseAgain(v)
         \/ GoForgets(v)
  PROVE  BindingInv'
<1>1. lang \in [Voice -> {"go", "java"}] /\ ptr \in [Voice -> BOOLEAN] /\ unloads \in [Voice -> 0..2]
  BY DEF BindingInv, BindingTypeOK
<1>2. UNCHANGED <<pc, entry, waiting, lang>>
  BY DEF Close, UnloadCancels, CloseAgain, GoForgets, vars
<1>3. ptr' \in [Voice -> BOOLEAN] /\ unloads' \in [Voice -> 0..2]
  <2>1. CASE \E who \in Job \cup {Host} : Close(who, v)
    BY <1>1, <2>1 DEF Close
  <2>2. CASE CloseAgain(v)
    BY <1>1, <2>2 DEF CloseAgain
  <2>3. CASE GoForgets(v)
    BY <1>1, <2>3 DEF GoForgets
  <2>4. QED
    BY <2>1, <2>2, <2>3
<1>4. ASSUME NEW u \in Voice, lang[u] = "java"
      PROVE  unloads'[u] = IF ptr'[u] THEN 0 ELSE 1
  <2>1. unloads[u] = IF ptr[u] THEN 0 ELSE 1
    BY <1>4 DEF BindingInv
  <2>2. CASE \E who \in Job \cup {Host} : Close(who, v)
    <3>1. /\ unloads' = [unloads EXCEPT ![v] = 1]
          /\ ptr' = [ptr EXCEPT ![v] = lang[v] = "go"]
      BY <2>2 DEF Close
    <3>2. QED
      BY <1>1, <1>4, <2>1, <3>1
  <2>3. CASE CloseAgain(v)
    <3>1. ptr[v] /\ unloads[v] = 1 /\ ptr' = ptr /\ unloads' = [unloads EXCEPT ![v] = 2]
      BY <2>3 DEF CloseAgain, HasHandle
    <3>2. QED
      BY <1>1, <2>1, <3>1
  <2>4. CASE GoForgets(v)
    <3>1. lang[v] = "go" /\ ptr' = [ptr EXCEPT ![v] = FALSE] /\ unloads' = unloads
      BY <2>4 DEF GoForgets
    <3>2. QED
      BY <1>1, <1>4, <2>1, <3>1
  <2>5. QED
    BY <2>2, <2>3, <2>4
<1>5. QED
  BY <1>1, <1>2, <1>3, <1>4 DEF BindingInv, BindingTypeOK

LEMMA BindingInvStep == Types /\ BindingInv /\ [BindingNext]_allVars => BindingInv'
<1> SUFFICES ASSUME Types, BindingInv, [BindingNext]_allVars PROVE BindingInv'
  OBVIOUS
<1>1. ASSUME NEW j \in Job, NEW v \in Voice, NEW m \in Modes, BindingSpeak(j, v, m)
      PROVE  BindingInv'
  <2>1. PICK p \in {"queued", "starting"} : pc' = [pc EXCEPT ![j] = p]
    BY <1>1 DEF BindingSpeak, Speak, SpeakBlocking, Goto
  <2>2. entry' = [entry EXCEPT ![j] = TRUE] /\ UNCHANGED <<handleVars, waiting>>
    BY <1>1 DEF BindingSpeak
  <2>3. EntryFollows(j, p)
    BY <2>1, <2>2 DEF EntryFollows, Ended
  <2>4. QED
    BY <2>2, <2>3, EntryMove DEF BindingInv, BindingTypeOK
<1>2. ASSUME NEW j \in Job, NEW v \in Voice, HandlerWaits(j, v) PROVE BindingInv'
  BY <1>2 DEF HandlerWaits, BindingInv, BindingTypeOK, vars, handleVars
<1>3. CASE UNCHANGED <<pc, bindingVars>>
  BY <1>3 DEF BindingInv, BindingTypeOK, bindingVars, handleVars
<1>4. ASSUME NEW v \in Voice,
             (Cancel(v) \/ UnloadStep(v)) /\ UNCHANGED bindingVars
      PROVE  BindingInv'
  BY <1>3, <1>4 DEF Cancel, UnloadStep, UnloadCloses, UnloadFrees
<1>5. CASE UNCHANGED allVars
  BY <1>3, <1>5 DEF allVars, vars
<1>6. QED
  BY <1>1, <1>2, <1>4, <1>5, BindingCallStep, BindingCloseStep
  DEF BindingNext, CallStep, CloseStep

(* No event of the library arrives without the entry that leads it to the  *)
(* handler, no call leaves an entry behind, and a Java voice is unloaded   *)
(* once, however often and by whomever it is closed.                       *)
THEOREM BindingKeepsItsHandles == BindingSpec => []HandlesAndEntriesLast
<1>1. BindingInv => HandlesAndEntriesLast
  <2> SUFFICES ASSUME BindingInv PROVE EntryServesItsCall /\ JavaUnloadsOnce
    BY DEF HandlesAndEntriesLast
  <2>1. EntryServesItsCall
    BY DEF BindingInv, EntryServesItsCall, InCallback, Ended
  <2>2. JavaUnloadsOnce
    BY DEF BindingInv, JavaUnloadsOnce
  <2>3. QED
    BY <2>1, <2>2
<1>2. BindingSpec => BindingInit /\ [][BindingNext]_allVars
  BY PTL DEF BindingSpec
<1>3. BindingSpec => []Types
  BY BindingKeepsTheContract, TypesInit, TypesStep, PTL DEF Spec
<1>4. QED
  BY <1>1, <1>2, <1>3, BindingInvInit, BindingInvStep, PTL
=============================================================================
