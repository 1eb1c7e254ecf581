------------------------------ MODULE CapiVoice ------------------------------
(***************************************************************************)
(* Voices of the C API: speak calls, the callbacks they make, cancelling   *)
(* and unloading.  A nonblocking libdengjenSpeak registers with the        *)
(* voice's InFlight counter and runs as a job of the synthesis pool; a     *)
(* blocking one runs on the caller's thread and is not counted.  While a   *)
(* job waits for a group of sentences, its pool thread may take another    *)
(* job on top of it.  A callback is code of the host: it may cancel and,   *)
(* as far as UnloadScope says, unload voices before it returns.            *)
(* Calls that fail before they start anything (bad UTF-8, no callback, no  *)
(* pool) leave no trace and are left out.                                  *)
(***************************************************************************)
EXTENDS Integers, Sequences, FiniteSets

CONSTANTS
  Voice,        (* voice handles                                           *)
  Job,          (* speak calls                                             *)
  Thread,       (* threads of the synthesis pool                           *)
  Nobody,       (* no job, no voice                                        *)
  Host,         (* a thread of the host that is not in a callback          *)
  MaxItems,     (* bound: items one call's stream yields                   *)
  Modes,        (* synthesis modes the host uses                           *)
  Blocking,     (* BOOLEAN values the host passes for "blocking"           *)
  UnloadScope   (* voices a callback unloads: "none", "own", "any"         *)

ASSUME JobAssumption    == IsFiniteSet(Job) /\ Nobody \notin Job /\ Host \notin Job
ASSUME VoiceAssumption  == Nobody \notin Voice
ASSUME ItemsAssumption  == MaxItems \in Nat
ASSUME ModesAssumption  == Modes \subseteq {"grouped", "realtime"}
ASSUME BlockAssumption  == Blocking \subseteq BOOLEAN
ASSUME ScopeAssumption  == UnloadScope \in {"none", "own", "any"}

VARIABLES
  pc,         (* where each speak call is                                  *)
  voice,      (* the voice it speaks with                                  *)
  mode,       (* "grouped" (lazy, parallel, batched) or "realtime"         *)
  blocking,   (* whether it runs on the caller's thread                    *)
  left,       (* items its stream can still yield                          *)
  stack,      (* jobs each pool thread is inside of, innermost last        *)
  active,     (* thread-local ACTIVE_WORKER_VOICE                          *)
  previous,   (* the value a job found there                               *)
  slot,       (* active_cancel_token: the realtime call that owns it       *)
  cancelled,  (* the token of each call                                    *)
  closing,    (* InFlight.closing                                          *)
  running,    (* InFlight.running                                          *)
  unload,     (* progress of libdengjenUnloadDengjenVoice                  *)
  unloader,   (* Host or the call whose callback unloads the voice         *)
  newest,     (* history: the last realtime call that took the slot        *)
  terminal,   (* history: terminal events each call has delivered          *)
  declined    (* history: calls whose callback asked to stop               *)

callVars == <<voice, mode, blocking>>
poolVars == <<stack, active, previous>>
tokenVars == <<slot, cancelled, newest>>
unloadVars == <<closing, unload, unloader>>
eventVars == <<terminal, declined>>
vars == <<pc, callVars, left, poolVars, tokenVars, unloadVars, running, eventVars>>

InCallback == {"cbSpeech", "cbError", "cbFinished", "cbReport"}
Streaming  == {"opening", "pulling", "computing", "gotItem", "gotError",
               "finishing", "cbSpeech", "cbError", "cbFinished",
               "leaving", "unwinding"}
Place == {"idle", "queued", "starting", "restoring", "dropping",
          "done", "cbReport"} \cup Streaming

Init ==
  /\ pc = [j \in Job |-> "idle"]
  /\ voice = [j \in Job |-> Nobody]
  /\ mode = [j \in Job |-> "grouped"]
  /\ blocking = [j \in Job |-> FALSE]
  /\ left = [j \in Job |-> MaxItems]
  /\ stack = [t \in Thread |-> << >>]
  /\ active = [t \in Thread |-> Nobody]
  /\ previous = [j \in Job |-> Nobody]
  /\ slot = [v \in Voice |-> Nobody]
  /\ cancelled = [j \in Job |-> FALSE]
  /\ closing = [v \in Voice |-> FALSE]
  /\ running = [v \in Voice |-> 0]
  /\ unload = [v \in Voice |-> "loaded"]
  /\ unloader = [v \in Voice |-> Nobody]
  /\ newest = [v \in Voice |-> Nobody]
  /\ terminal = [j \in Job |-> 0]
  /\ declined = [j \in Job |-> FALSE]

Top(t) == IF stack[t] = << >> THEN Nobody ELSE stack[t][Len(stack[t])]
OnTop(j) == \E t \in Thread : Top(t) = j
Runs(j) == blocking[j] \/ OnTop(j)
Goto(j, p) == pc' = [pc EXCEPT ![j] = p]

(* A callback cannot return while an unload it called has not returned. *)
Unloading(j, v) == unloader[v] = j /\ unload[v] # "freed"
CanReturn(j) == \A v \in Voice : ~Unloading(j, v)

-----------------------------------------------------------------------------
(* libdengjenSpeak.                                                        *)

Call(j, v, m, b) ==
  /\ pc[j] = "idle"
  /\ unload[v] = "loaded"
  /\ voice' = [voice EXCEPT ![j] = v]
  /\ mode' = [mode EXCEPT ![j] = m]
  /\ blocking' = [blocking EXCEPT ![j] = b]
  /\ UNCHANGED <<left, poolVars, tokenVars, unloadVars, eventVars>>

Speak(j, v, m) ==
  /\ Call(j, v, m, FALSE)
  /\ Goto(j, "queued")
  /\ running' = [running EXCEPT ![v] = @ + 1]

SpeakBlocking(j, v, m) ==
  /\ Call(j, v, m, TRUE)
  /\ Goto(j, "starting")
  /\ UNCHANGED running

(* A pool thread takes a job: an idle one, or one whose innermost job      *)
(* waits for sentences that are synthesised in parallel (all of them while *)
(* the stream is opened, or one group while it is pulled).                 *)
Takes(t) ==
  stack[t] # << >> => /\ pc[Top(t)] \in {"opening", "computing"}
                      /\ mode[Top(t)] = "grouped"

Dispatch(t, j) ==
  /\ pc[j] = "queued"
  /\ Takes(t)
  /\ Goto(j, "starting")
  /\ stack' = [stack EXCEPT ![t] = Append(@, j)]
  /\ previous' = [previous EXCEPT ![j] = active[t]]
  /\ active' = [active EXCEPT ![t] = voice[j]]
  /\ UNCHANGED <<callVars, left, tokenVars, unloadVars, running, eventVars>>

(* _do_synthesize stores the token of a realtime call in the voice's slot. *)
TakeSlot(j) ==
  /\ pc[j] = "starting"
  /\ Runs(j)
  /\ Goto(j, "opening")
  /\ IF mode[j] = "realtime"
     THEN /\ slot' = [slot EXCEPT ![voice[j]] = j]
          /\ newest' = [newest EXCEPT ![voice[j]] = j]
     ELSE UNCHANGED <<slot, newest>>
  /\ UNCHANGED <<callVars, left, poolVars, cancelled, unloadVars, running, eventVars>>

Step(j, from, to) ==
  /\ pc[j] = from
  /\ Runs(j)
  /\ Goto(j, to)
  /\ UNCHANGED <<callVars, left, poolVars, tokenVars, unloadVars, running, eventVars>>

(* synthesize_samples: a stream, or an error for the caller. *)
Open(j) == Step(j, "opening", "pulling")
OpenFails(j) == Step(j, "opening", "unwinding")

(* The stream's next(): a realtime stream first looks at its token. *)
Pull(j) ==
  Step(j, "pulling", IF mode[j] = "realtime" /\ cancelled[j]
                     THEN "finishing" ELSE "computing")

StreamEnds(j) == Step(j, "computing", "finishing")
StreamPanics(j) == Step(j, "computing", "unwinding")

StreamYields(j) ==
  /\ pc[j] = "computing"
  /\ Runs(j)
  /\ left[j] > 0
  /\ left' = [left EXCEPT ![j] = @ - 1]
  /\ \E p \in {"gotItem", "gotError"} : Goto(j, p)
  /\ UNCHANGED <<callVars, poolVars, tokenVars, unloadVars, running, eventVars>>

(* Variant: iterate_stream ignores closing. *)
DeliverUnchecked(j) ==
  \/ Step(j, "gotItem", "cbSpeech")
  \/ Step(j, "gotError", "cbError")

(* iterate_stream: a closing voice takes no more items. *)
DeliverItem(j) ==
  \/ Step(j, "gotItem", IF closing[voice[j]] THEN "finishing" ELSE "cbSpeech")
  \/ Step(j, "gotError", IF closing[voice[j]] THEN "finishing" ELSE "cbError")

DeliverFinished(j) == Step(j, "finishing", "cbFinished")

-----------------------------------------------------------------------------
(* Callbacks of the host return.                                           *)

Return(j, from, to) ==
  /\ pc[j] = from
  /\ CanReturn(j)
  /\ Goto(j, to)
  /\ UNCHANGED <<callVars, left, poolVars, tokenVars, unloadVars, running>>

WantsMore(j) ==
  /\ Return(j, "cbSpeech", "pulling")
  /\ UNCHANGED eventVars

Declines(j) ==
  /\ Return(j, "cbSpeech", "leaving")
  /\ declined' = [declined EXCEPT ![j] = TRUE]
  /\ UNCHANGED terminal

Ends(j) ==
  /\ \/ Return(j, "cbError", "leaving")
     \/ Return(j, "cbFinished", "leaving")
     \/ Return(j, "cbReport", "restoring")
  /\ terminal' = [terminal EXCEPT ![j] = @ + 1]
  /\ UNCHANGED declined

-----------------------------------------------------------------------------
(* The end of a call.                                                      *)

(* Variant: the error of a worker is dropped. *)
AfterSlotSilent(j) == IF blocking[j] THEN "done" ELSE "restoring"

(* CancelSlotGuard::drop, after a result or an error of the stream.  A     *)
(* blocking call then returns, with the error if there was one; a worker   *)
(* reports the error through the callback.                                 *)
AfterSlot(j) ==
  IF blocking[j] THEN "done"
  ELSE IF pc[j] = "unwinding" THEN "cbReport" ELSE "restoring"

(* Variant: the guard clears the slot whoever owns it. *)
ClearSlot(j) ==
  /\ pc[j] \in {"leaving", "unwinding"}
  /\ Runs(j)
  /\ Goto(j, AfterSlot(j))
  /\ slot' = IF mode[j] = "realtime" THEN [slot EXCEPT ![voice[j]] = Nobody] ELSE slot
  /\ UNCHANGED <<callVars, left, poolVars, cancelled, newest, unloadVars, running, eventVars>>

ReleaseSlot(j) ==
  /\ pc[j] \in {"leaving", "unwinding"}
  /\ Runs(j)
  /\ Goto(j, AfterSlot(j))
  /\ slot' = IF slot[voice[j]] = j THEN [slot EXCEPT ![voice[j]] = Nobody] ELSE slot
  /\ UNCHANGED <<callVars, left, poolVars, cancelled, newest, unloadVars, running, eventVars>>

(* Variant: the thread-local is reset instead of restored. *)
ResetActive(t, j) ==
  /\ pc[j] = "restoring"
  /\ Top(t) = j
  /\ Goto(j, "dropping")
  /\ active' = [active EXCEPT ![t] = Nobody]
  /\ UNCHANGED <<callVars, left, stack, previous, tokenVars, unloadVars, running, eventVars>>

RestoreActive(t, j) ==
  /\ pc[j] = "restoring"
  /\ Top(t) = j
  /\ Goto(j, "dropping")
  /\ active' = [active EXCEPT ![t] = previous[j]]
  /\ UNCHANGED <<callVars, left, stack, previous, tokenVars, unloadVars, running, eventVars>>

(* InFlightGuard::drop; the worker's frame ends with it. *)
DropGuard(t, j) ==
  /\ pc[j] = "dropping"
  /\ Top(t) = j
  /\ Goto(j, "done")
  /\ running' = [running EXCEPT ![voice[j]] = @ - 1]
  /\ stack' = [stack EXCEPT ![t] = SubSeq(@, 1, Len(@) - 1)]
  /\ UNCHANGED <<callVars, left, active, previous, tokenVars, unloadVars, eventVars>>

-----------------------------------------------------------------------------
(* libdengjenCancel and libdengjenUnloadDengjenVoice.                      *)

CancelToken(v) ==
  cancelled' = IF slot[v] = Nobody THEN cancelled ELSE [cancelled EXCEPT ![slot[v]] = TRUE]

Cancel(v) ==
  /\ unload[v] = "loaded"
  /\ slot[v] # Nobody
  /\ ~cancelled[slot[v]]
  /\ CancelToken(v)
  /\ UNCHANGED <<pc, callVars, left, poolVars, slot, newest, unloadVars, running, eventVars>>

(* Drop for DengjenVoice begins: the host hands the voice over once no     *)
(* other call uses it.  A blocking speak uses it until it returns, unless  *)
(* the unload comes from its own callback.                                 *)
MayUnload(who, v) ==
  /\ unload[v] = "loaded"
  /\ \A j \in Job : blocking[j] /\ voice[j] = v => pc[j] = "done" \/ j = who
  /\ who # Host => /\ pc[who] \in InCallback
                   /\ CanReturn(who)
                   /\ \/ UnloadScope = "own" /\ voice[who] = v
                      \/ UnloadScope = "any"

UnloadCancels(who, v) ==
  /\ MayUnload(who, v)
  /\ unload' = [unload EXCEPT ![v] = "cancelling"]
  /\ unloader' = [unloader EXCEPT ![v] = who]
  /\ CancelToken(v)
  /\ UNCHANGED <<pc, callVars, left, poolVars, slot, newest, closing, running, eventVars>>

UnloadCloses(v) ==
  /\ unload[v] = "cancelling"
  /\ unload' = [unload EXCEPT ![v] = "waiting"]
  /\ closing' = [closing EXCEPT ![v] = TRUE]
  /\ UNCHANGED <<pc, callVars, left, poolVars, tokenVars, unloader, running, eventVars>>

(* close_and_wait returns at once on a worker of the same voice, and       *)
(* otherwise when no worker is left.                                       *)
OnOwnWorker(v) ==
  \E t \in Thread : unloader[v] # Host /\ Top(t) = unloader[v] /\ active[t] = v

(* Variant: nobody waits for the workers. *)
UnloadWithoutWaiting(v) ==
  /\ unload[v] = "waiting"
  /\ unload' = [unload EXCEPT ![v] = "freed"]
  /\ UNCHANGED <<pc, callVars, left, poolVars, tokenVars, closing, unloader, running, eventVars>>

(* Variant: a worker waits for itself, too. *)
UnloadWaitsForAll(v) ==
  /\ unload[v] = "waiting"
  /\ running[v] = 0
  /\ unload' = [unload EXCEPT ![v] = "freed"]
  /\ UNCHANGED <<pc, callVars, left, poolVars, tokenVars, closing, unloader, running, eventVars>>

UnloadFrees(v) ==
  /\ unload[v] = "waiting"
  /\ OnOwnWorker(v) \/ running[v] = 0
  /\ unload' = [unload EXCEPT ![v] = "freed"]
  /\ UNCHANGED <<pc, callVars, left, poolVars, tokenVars, closing, unloader, running, eventVars>>

-----------------------------------------------------------------------------
JobStep(j) ==
  \/ \E t \in Thread : Dispatch(t, j) \/ RestoreActive(t, j) \/ DropGuard(t, j)
  \/ TakeSlot(j) \/ Open(j) \/ OpenFails(j) \/ Pull(j)
  \/ StreamEnds(j) \/ StreamPanics(j) \/ StreamYields(j)
  \/ DeliverItem(j) \/ DeliverFinished(j)
  \/ WantsMore(j) \/ Declines(j) \/ Ends(j)
  \/ ReleaseSlot(j)

UnloadStep(v) == UnloadCloses(v) \/ UnloadFrees(v)

Next ==
  \/ \E j \in Job :
       \/ \E v \in Voice, m \in Modes : \/ FALSE \in Blocking /\ Speak(j, v, m)
                                        \/ TRUE \in Blocking /\ SpeakBlocking(j, v, m)
       \/ JobStep(j)
  \/ \E v \in Voice :
       \/ Cancel(v)
       \/ \E who \in Job \cup {Host} : UnloadCancels(who, v)
       \/ UnloadStep(v)

Spec == Init /\ [][Next]_vars

(* Workers are scheduled, streams yield or end, callbacks return, and the  *)
(* code of an unload runs on.  No call has to be made.                     *)
FairSpec ==
  /\ Spec
  /\ \A j \in Job : WF_vars(JobStep(j))
  /\ \A v \in Voice : WF_vars(UnloadStep(v))

-----------------------------------------------------------------------------
(* Properties.                                                             *)

TypeOK ==
  /\ pc \in [Job -> Place]
  /\ voice \in [Job -> Voice \cup {Nobody}]
  /\ mode \in [Job -> {"grouped", "realtime"}]
  /\ blocking \in [Job -> BOOLEAN]
  /\ left \in [Job -> 0..MaxItems]
  /\ stack \in [Thread -> Seq(Job)]
  /\ active \in [Thread -> Voice \cup {Nobody}]
  /\ previous \in [Job -> Voice \cup {Nobody}]
  /\ slot \in [Voice -> Job \cup {Nobody}]
  /\ cancelled \in [Job -> BOOLEAN]
  /\ closing \in [Voice -> BOOLEAN]
  /\ running \in [Voice -> Nat]
  /\ unload \in [Voice -> {"loaded", "cancelling", "waiting", "freed"}]
  /\ unloader \in [Voice -> Job \cup {Nobody, Host}]
  /\ newest \in [Voice -> Job \cup {Nobody}]
  /\ terminal \in [Job -> Nat]
  /\ declined \in [Job -> BOOLEAN]

(* The workers of v that hold an InFlightGuard. *)
Holds(j, v) == voice[j] = v /\ ~blocking[j] /\ pc[j] \notin {"idle", "done"}

(* "No callback fires after this returns": once an unload from outside the *)
(* voice's own callbacks has returned, none of its calls is under way.     *)
UnloadedVoiceIsSilent ==
  \A v \in Voice :
    unload[v] = "freed" =>
      \/ unloader[v] \in Job /\ voice[unloader[v]] = v
      \/ \A j \in Job : voice[j] = v => pc[j] \in {"idle", "done"}

(* libdengjenCancel reaches the most recently started realtime synthesis:  *)
(* an earlier one that ends never takes the slot away from it, and nothing *)
(* but a live synthesis is ever in the slot.                               *)
CancelReachesNewest ==
  \A v \in Voice :
    slot[v] = IF newest[v] # Nobody /\ pc[newest[v]] \in Streaming
              THEN newest[v] ELSE Nobody

(* A callback runs with the thread-local set to its own voice even when    *)
(* its job ran nested inside another voice's job, or had one nested in it: *)
(* that is what close_and_wait decides on.                                 *)
CallbackKnowsItsVoice ==
  \A t \in Thread :
    stack[t] # << >> /\ pc[Top(t)] \in InCallback => active[t] = voice[Top(t)]

(* The host learns of the end of every worker exactly once, by a FINISHED  *)
(* or an ERROR event, unless its callback itself asked to stop.            *)
EndIsReportedOnce ==
  \A j \in Job :
    /\ terminal[j] <= IF declined[j] THEN 0 ELSE 1
    /\ pc[j] = "done" /\ ~blocking[j] => declined[j] \/ terminal[j] = 1

(* A voice that is being unloaded hands out no more audio: at most the     *)
(* chunk each worker had already checked in is delivered.                  *)
NoAudioOnceClosing ==
  [][\A j \in Job : pc[j] # "cbSpeech" /\ pc'[j] = "cbSpeech" => ~closing[voice[j]]]_vars

(* lib.rs:131 "A callback that unloads its own voice runs on one of its    *)
(* workers; waiting there would never end": no unload waits for a job that *)
(* is suspended below it on the very same thread.                          *)
NeverWaitsForItself ==
  \A v \in Voice, t \in Thread :
    unload[v] = "waiting" /\ unloader[v] \in Job /\ Top(t) = unloader[v] =>
      \/ OnOwnWorker(v)
      \/ \A i \in 1..Len(stack[t]) : voice[stack[t][i]] # v
=============================================================================
