---------------------------- MODULE BindingVoice ----------------------------
(***************************************************************************)
(* Voices of the Go and the Java binding, over the C API of CapiVoice.     *)
(* A binding keeps the native handle of a voice until Close, and for every *)
(* speak call an entry of a registry (callbackRegistry, REGISTRY) that     *)
(* leads the native callback to the host's handler.  Java's close holds    *)
(* the lock of the voice while the native unload waits for the workers; Go *)
(* has no lock.                                                            *)
(* The host keeps the contract of libdengjenUnloadDengjenVoice for calls   *)
(* that speak or cancel: none is under way when a Close begins.            *)
(***************************************************************************)
EXTENDS CapiVoice

VARIABLES
  lang,      (* the binding a voice was loaded with                        *)
  ptr,       (* whether the voice object still has its handle              *)
  entry,     (* whether the registry has the entry of a speak call         *)
  waiting,   (* the voice whose lock a handler waits for                   *)
  unloads    (* history: native unloads of each voice, counted up to 2     *)

handleVars == <<lang, ptr, unloads>>
bindingVars == <<handleVars, entry, waiting>>
allVars == <<vars, bindingVars>>

BindingInit ==
  /\ Init
  /\ lang \in [Voice -> {"go", "java"}]
  /\ ptr = [v \in Voice |-> TRUE]
  /\ entry = [j \in Job |-> FALSE]
  /\ waiting = [j \in Job |-> Nobody]
  /\ unloads = [v \in Voice |-> 0]

(* Java's close has the lock of the voice from before it takes the handle  *)
(* until the native unload has returned.                                   *)
Locked(v) == lang[v] = "java" /\ unload[v] \in {"cancelling", "waiting"}

(* requireOpenPtr, or Go's nil check. *)
HasHandle(v) == ptr[v] /\ ~Locked(v)

-----------------------------------------------------------------------------
(* speak: the entry is registered before the native call.                  *)

BindingSpeak(j, v, m) ==
  /\ HasHandle(v)
  /\ \/ FALSE \in Blocking /\ Speak(j, v, m)
     \/ TRUE \in Blocking /\ SpeakBlocking(j, v, m)
  /\ entry' = [entry EXCEPT ![j] = TRUE]
  /\ UNCHANGED <<handleVars, waiting>>

(* Variant for the mutation runs: a failed speak keeps its entry. *)
CallEndsKeepingEntry(j) ==
  /\ ReleaseSlot(j)
  /\ UNCHANGED bindingVars

(* The native call of a blocking speak returns; an error releases the      *)
(* entry.  Nothing of the binding happens when a worker leaves its stream. *)
CallEnds(j) ==
  /\ ReleaseSlot(j)
  /\ entry' = IF blocking[j] /\ pc[j] = "unwinding"
              THEN [entry EXCEPT ![j] = FALSE] ELSE entry
  /\ UNCHANGED <<handleVars, waiting>>

-----------------------------------------------------------------------------
(* goDengjenSpeechCallback and SpeakTrampoline.invoke.                     *)

(* The handler asks for more.  Without an entry Go goes on, Java stops.    *)
HandlerWantsMore(j) ==
  /\ waiting[j] = Nobody
  /\ WantsMore(j)
  /\ entry[j] \/ lang[voice[j]] = "go"
  /\ UNCHANGED bindingVars

(* It returns false, panics or throws. *)
HandlerStops(j) ==
  /\ waiting[j] = Nobody
  /\ Declines(j)
  /\ entry[j] \/ lang[voice[j]] = "java"
  /\ entry' = [entry EXCEPT ![j] = FALSE]
  /\ UNCHANGED <<handleVars, waiting>>

TerminalEventReturns(j) ==
  /\ waiting[j] = Nobody
  /\ Ends(j)
  /\ entry' = [entry EXCEPT ![j] = FALSE]
  /\ UNCHANGED <<handleVars, waiting>>

(* A handler uses, or closes, a voice that another thread is closing, and  *)
(* waits for its lock.                                                     *)
HandlerWaits(j, v) ==
  /\ pc[j] \in InCallback
  /\ CanReturn(j)
  /\ waiting[j] = Nobody
  /\ Locked(v)
  /\ waiting' = [waiting EXCEPT ![j] = v]
  /\ UNCHANGED <<vars, handleVars, entry>>

(* It gets the lock once the voice is closed: "voice is closed" is thrown  *)
(* through the handler, and invoke releases the entry and stops.           *)
HandlerThrows(j) ==
  /\ waiting[j] # Nobody
  /\ ~Locked(waiting[j])
  /\ Declines(j) \/ Ends(j)
  /\ entry' = [entry EXCEPT ![j] = FALSE]
  /\ waiting' = [waiting EXCEPT ![j] = Nobody]
  /\ UNCHANGED handleVars

-----------------------------------------------------------------------------
(* Close.                                                                  *)

Close(who, v) ==
  /\ HasHandle(v)
  /\ who \in Job => waiting[who] = Nobody
  /\ UnloadCancels(who, v)
  /\ ptr' = [ptr EXCEPT ![v] = lang[v] = "go"]
  /\ unloads' = [unloads EXCEPT ![v] = 1]
  /\ UNCHANGED <<lang, entry, waiting>>

(* Go forgets the handle only after the native unload has returned. *)
GoForgets(v) ==
  /\ lang[v] = "go" /\ ptr[v]
  /\ unload[v] = "freed"
  /\ ptr' = [ptr EXCEPT ![v] = FALSE]
  /\ UNCHANGED <<vars, lang, unloads, entry, waiting>>

(* A second Close, by another thread or a handler, finds the handle and    *)
(* unloads the voice again.  What follows is undefined and not explored.   *)
CloseAgain(v) ==
  /\ HasHandle(v)
  /\ unload[v] # "loaded"
  /\ unloads[v] = 1
  /\ unloads' = [unloads EXCEPT ![v] = 2]
  /\ UNCHANGED <<vars, lang, ptr, entry, waiting>>

-----------------------------------------------------------------------------
Sound == \A v \in Voice : unloads[v] < 2

CallbackReturns(j) ==
  \/ HandlerWantsMore(j) \/ HandlerStops(j)
  \/ TerminalEventReturns(j) \/ HandlerThrows(j)

NativeStep(j) ==
  /\ \/ \E t \in Thread : Dispatch(t, j) \/ RestoreActive(t, j) \/ DropGuard(t, j)
     \/ TakeSlot(j) \/ Open(j) \/ OpenFails(j) \/ Pull(j)
     \/ StreamEnds(j) \/ StreamPanics(j) \/ StreamYields(j)
     \/ DeliverItem(j) \/ DeliverFinished(j)
  /\ UNCHANGED bindingVars

CallStep(j) == Sound /\ (NativeStep(j) \/ CallEnds(j) \/ CallbackReturns(j))
CloseStep(v) ==
  /\ Sound
  /\ \/ UnloadStep(v) /\ UNCHANGED bindingVars
     \/ GoForgets(v)

BindingNext ==
  /\ Sound
  /\ \/ \E j \in Job : \/ \E v \in Voice, m \in Modes : BindingSpeak(j, v, m)
                       \/ \E v \in Voice : HandlerWaits(j, v)
                       \/ CallStep(j)
     \/ \E v \in Voice : \/ Cancel(v) /\ HasHandle(v) /\ UNCHANGED bindingVars
                         \/ \E who \in Job \cup {Host} : Close(who, v)
                         \/ CloseAgain(v)
                         \/ CloseStep(v)

(* As for the C API: a handler that does not wait for a lock returns. *)
BindingSpec ==
  /\ BindingInit /\ [][BindingNext]_allVars
  /\ \A j \in Job : WF_allVars(CallStep(j))
  /\ \A v \in Voice : WF_allVars(CloseStep(v))

-----------------------------------------------------------------------------
(* Properties.                                                             *)

BindingTypeOK ==
  /\ lang \in [Voice -> {"go", "java"}]
  /\ ptr \in [Voice -> BOOLEAN]
  /\ entry \in [Job -> BOOLEAN]
  /\ waiting \in [Job -> Voice \cup {Nobody}]
  /\ unloads \in [Voice -> 0..2]

(* Every native event of a call finds the entry of the call, so no handler *)
(* misses its end; and a call that is over has left no entry behind,       *)
(* however it ended: FINISHED, ERROR, a handler that stopped, panicked or  *)
(* threw, a speak that failed, or a handler that closed its own voice.     *)
EntryServesItsCall ==
  \A j \in Job :
    /\ pc[j] \in InCallback => entry[j]
    /\ pc[j] = "done" => ~entry[j]

(* Java: whoever closes a voice, and however often, it is unloaded once.   *)
JavaUnloadsOnce == \A v \in Voice : lang[v] = "java" => unloads[v] < 2

(* What a binding keeps for the library outlives what the library calls    *)
(* with it, and is given up once (SpeakTrampoline, callback.go, Voice).    *)
HandlesAndEntriesLast == EntryServesItsCall /\ JavaUnloadsOnce

(* Every Close returns, unless a handler waits for the lock that the Close *)
(* itself holds: then the worker never leaves its callback, and the native *)
(* unload waits for the worker.                                            *)
CloseReturnsOrHandlerWaits ==
  \A v \in Voice :
    unload[v] # "loaded" ~>
      \/ unload[v] = "freed"
      \/ ~Sound
      \/ \E j \in Job : waiting[j] = v /\ Holds(j, v)
=============================================================================
