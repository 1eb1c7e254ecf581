---------------------------- MODULE CallBoundary -----------------------------
(***************************************************************************)
(* One call of the Go or Java binding through the C API, seen from the     *)
(* memory that crosses the boundary and from the error that comes back.    *)
(*   arguments  strings and parameters of the host, alive during the call  *)
(*   message    the text of a returned error, freed by the host            *)
(*   config     what libdengjenGetPiperDefaultSynthConfig returns          *)
(*   event      the samples of an event, with its error if it has one      *)
(* A nonblocking speak returns while a worker still delivers events.       *)
(***************************************************************************)
EXTENDS Integers, Sequences

CONSTANTS MaxSpeech   (* bound: speech events of one call *)

ASSUME SpeechAssumption == MaxSpeech \in Nat

Blocks == {"arguments", "message", "config", "event"}

WithText  == {"load", "setSynthesisParameter", "getSynthesisParameter", "speakToFile", "speak"}
Operations == WithText \cup
  {"getAudioInfo", "getDefaultSynthConfig", "setSynthConfig", "cancel"}

(* DengjenError: a category, whatever causes with_source has stacked on it.*)
Categories == {"FailedToLoadResource", "PhonemizationError", "InferenceError",
               "InvalidConfiguration", "UnsupportedOperation", "OperationError"}

(* From<DengjenError> for DengjenFFIError, and libdengjen.h. *)
CodeOf ==
  [FailedToLoadResource |-> 17, PhonemizationError |-> 18, OperationError |-> 19,
   InferenceError |-> 23, InvalidConfiguration |-> 24, UnsupportedOperation |-> 25]
PANIC == -1
INVALID_HANDLE == -1000
INVALID_SYNTHESIS_MODE == 16
INVALID_UTF8_SEQUENCE == 20
UNKNOWN_ERROR == 21
NULL_POINTER == 22
KnownCodes == {CodeOf[c] : c \in Categories} \cup
  {PANIC, INVALID_HANDLE, INVALID_SYNTHESIS_MODE, INVALID_UTF8_SEQUENCE,
   UNKNOWN_ERROR, NULL_POINTER}
Success == 0

(* ErrorCode.fromCode and FFIError.ErrorCode. *)
FromCode(code) == IF code \in KnownCodes THEN code ELSE UNKNOWN_ERROR

(* The code of the error a binding makes itself for a closed voice; Go's   *)
(* ErrVoiceClosed has a code of its own, which is none of the header's.    *)
ClosedCode(binding) == IF binding = "java" THEN INVALID_HANDLE ELSE -2

VARIABLES
  binding, operation, blocks,  (* the call; blocks: it is not nonblocking  *)
  hostAt,     (* where the host's side of the call is                      *)
  nativeAt,   (* where the native side is                                  *)
  live,       (* how many of each block are allocated                      *)
  borrowed,   (* blocks of the host that the native side still reads       *)
  outError,   (* the code left in out_error                                *)
  eventType,  (* the event that is being delivered, and its error          *)
  eventError,
  speech,     (* speech events delivered                                   *)
  cause,      (* history: the code of the failure that happened, if any    *)
  told        (* history: the codes the host was told, in exceptions,      *)
              (* returned errors and ERROR events                          *)

callVars == <<binding, operation, blocks>>
eventVars == <<eventType, eventError, speech>>
boundaryVars == <<callVars, hostAt, nativeAt, live, borrowed, outError, eventVars, cause, told>>

BoundaryInit ==
  /\ binding \in {"go", "java"}
  /\ operation \in Operations
  /\ blocks \in (IF operation = "speak" THEN BOOLEAN ELSE {TRUE})
  /\ hostAt = "calls"
  /\ nativeAt = "none"
  /\ live = [b \in Blocks |-> 0]
  /\ borrowed = {}
  /\ outError = Success
  /\ eventType = "none" /\ eventError = Success
  /\ speech = 0
  /\ cause = Success
  /\ told = << >>

Allocated(b) == [live EXCEPT ![b] = @ + 1]
Freed(b) == [live EXCEPT ![b] = @ - 1]
Tell(code) == told' = Append(told, FromCode(code))

-----------------------------------------------------------------------------
(* The host's way in.                                                      *)

(* requireOpenPtr, or Go's nil check: no native call is made. *)
VoiceIsClosed ==
  /\ hostAt = "calls" /\ operation # "load"
  /\ hostAt' = "done"
  /\ cause' = FromCode(ClosedCode(binding))
  /\ Tell(ClosedCode(binding))
  /\ UNCHANGED <<callVars, nativeAt, live, borrowed, outError, eventVars>>

(* Strings and parameters are copied to native memory. *)
Enter ==
  /\ hostAt = "calls"
  /\ hostAt' = "inside" /\ nativeAt' = "entered"
  /\ live' = IF operation \in WithText THEN Allocated("arguments") ELSE live
  /\ borrowed' = IF operation \in WithText THEN {"arguments"} ELSE {}
  /\ UNCHANGED <<callVars, outError, eventVars, cause, told>>

-----------------------------------------------------------------------------
(* The native side.                                                        *)

(* What a call may be refused for before it does anything: a string that   *)
(* is not UTF-8 and a mode that does not exist, which Java rules out.      *)
Refusals ==
  (IF binding = "go" /\ operation \in WithText THEN {INVALID_UTF8_SEQUENCE} ELSE {})
    \cup (IF binding = "go" /\ operation = "speak" /\ blocks
          THEN {INVALID_SYNTHESIS_MODE} ELSE {})

(* The categories of the errors each operation can return. *)
Failures ==
  CASE operation \in {"load", "speak", "speakToFile"} -> Categories
    [] operation \in {"setSynthConfig", "setSynthesisParameter"} ->
         {"InvalidConfiguration", "OperationError"}
    [] operation = "getDefaultSynthConfig" -> {"InvalidConfiguration", "OperationError"}
    [] OTHER -> {}

(* Leaving with an error: call_with_result allocates its message. *)
ReturnsError(code) ==
  /\ outError' = code
  /\ cause' = code
  /\ live' = Allocated("message")
  /\ hostAt' = "back" /\ nativeAt' = "none"
  /\ borrowed' = {}
  /\ UNCHANGED <<callVars, eventVars, told>>

(* A panic is caught by call_with_result.  A failure of a speak that has   *)
(* begun to deliver is an event instead.                                   *)
Fails ==
  /\ hostAt = "inside" /\ nativeAt = "entered"
  /\ \E code \in Refusals \cup {CodeOf[c] : c \in Failures} \cup {PANIC} : ReturnsError(code)

(* Any operation but speak returns its result. *)
Succeeds ==
  /\ nativeAt = "entered" /\ operation # "speak"
  /\ live' = IF operation = "getDefaultSynthConfig" THEN Allocated("config") ELSE live
  /\ hostAt' = "back" /\ nativeAt' = "none"
  /\ borrowed' = {}
  /\ UNCHANGED <<callVars, outError, eventVars, cause, told>>

(* Variant for the mutation runs: the worker uses the caller's text. *)
SpawnWorkerBorrowing ==
  /\ nativeAt = "entered" /\ operation = "speak" /\ ~blocks
  /\ hostAt' = "back" /\ nativeAt' = "streaming"
  /\ UNCHANGED <<callVars, live, borrowed, outError, eventVars, cause, told>>

(* A nonblocking speak hands its own copies of text and parameters to a    *)
(* worker and returns.                                                     *)
SpawnWorker ==
  /\ nativeAt = "entered" /\ operation = "speak" /\ ~blocks
  /\ hostAt' = "back" /\ nativeAt' = "streaming"
  /\ borrowed' = {}
  /\ UNCHANGED <<callVars, live, outError, eventVars, cause, told>>

SpeakHere ==
  /\ nativeAt = "entered" /\ operation = "speak" /\ blocks
  /\ nativeAt' = "streaming"
  /\ UNCHANGED <<callVars, hostAt, live, borrowed, outError, eventVars, cause, told>>

(* The call of a blocking speak returns with its job. *)
JobEnds ==
  /\ nativeAt' = "none"
  /\ hostAt' = IF blocks THEN "back" ELSE hostAt
  /\ borrowed' = {}

Emit(type, code) ==
  /\ eventType' = type /\ eventError' = code
  /\ live' = Allocated("event")
  /\ nativeAt' = "calling"

DeliverSpeech ==
  /\ nativeAt = "streaming" /\ speech < MaxSpeech
  /\ Emit("SPEECH", Success)
  /\ speech' = speech + 1
  /\ UNCHANGED <<callVars, hostAt, borrowed, outError, cause, told>>

DeliverFinished ==
  /\ nativeAt = "streaming"
  /\ Emit("FINISHED", Success)
  /\ UNCHANGED <<callVars, hostAt, borrowed, outError, speech, cause, told>>

(* A failed item; for a worker, also an error before the first item, a     *)
(* mode that does not exist, and a panic, reported as InferenceError.      *)
DeliverError ==
  /\ nativeAt = "streaming"
  /\ \E code \in {CodeOf[c] : c \in Categories}
                   \cup (IF binding = "go" /\ ~blocks THEN {INVALID_SYNTHESIS_MODE} ELSE {}) :
       Emit("ERROR", code) /\ cause' = code
  /\ UNCHANGED <<callVars, hostAt, borrowed, outError, speech, told>>

(* A panic between two events of a blocking speak unwinds to the caller. *)
PanicHere ==
  /\ nativeAt = "streaming" /\ blocks
  /\ ReturnsError(PANIC)

(* goDengjenSpeechCallback and SpeakTrampoline.invoke: the event is copied *)
(* and freed before the handler runs, which may stop the stream.           *)
CallbackReturns ==
  /\ nativeAt = "calling"
  /\ live' = Freed("event")
  /\ eventType' = "none" /\ eventError' = Success
  /\ IF eventType = "ERROR" THEN Tell(eventError) ELSE UNCHANGED told
  /\ \/ /\ eventType = "SPEECH"
        /\ nativeAt' = "streaming"
        /\ UNCHANGED <<hostAt, borrowed>>
     \/ JobEnds
  /\ UNCHANGED <<callVars, outError, speech, cause>>

-----------------------------------------------------------------------------
(* The host's way out.                                                     *)

(* checkError and checkAndThrow. *)
CheckError ==
  /\ hostAt = "back"
  /\ IF outError = Success THEN hostAt' = "reads" /\ UNCHANGED <<live, told>>
     ELSE /\ live' = Freed("message")
          /\ Tell(outError)
          /\ hostAt' = "leaves"
  /\ UNCHANGED <<callVars, nativeAt, borrowed, outError, eventVars, cause>>

(* The result is copied, and freed where it is the library's. *)
ReadResult ==
  /\ hostAt = "reads"
  /\ live' = IF operation = "getDefaultSynthConfig" THEN Freed("config") ELSE live
  /\ hostAt' = "leaves"
  /\ UNCHANGED <<callVars, nativeAt, borrowed, outError, eventVars, cause, told>>

(* C.free of deferred calls, the confined Arena. *)
FreeArguments ==
  /\ hostAt = "leaves"
  /\ live' = IF operation \in WithText THEN Freed("arguments") ELSE live
  /\ hostAt' = "done"
  /\ UNCHANGED <<callVars, nativeAt, borrowed, outError, eventVars, cause, told>>

BoundaryNext ==
  \/ VoiceIsClosed \/ Enter \/ Fails \/ Succeeds \/ SpawnWorker \/ SpeakHere
  \/ DeliverSpeech \/ DeliverFinished \/ DeliverError \/ PanicHere \/ CallbackReturns
  \/ CheckError \/ ReadResult \/ FreeArguments

BoundarySpec == BoundaryInit /\ [][BoundaryNext]_boundaryVars

-----------------------------------------------------------------------------
(* Properties.                                                             *)

Over == hostAt = "done" /\ nativeAt = "none"

(* Nothing is freed twice, nothing is freed that native code still reads,  *)
(* and when host and worker are through nothing is left, whether the call  *)
(* returned, failed, panicked or was stopped by its handler.               *)
BlocksAreFreedOnce ==
  /\ \A b \in Blocks : live[b] \in {0, 1}
  /\ \A b \in borrowed : live[b] = 1
  /\ Over => \A b \in Blocks : live[b] = 0

(* A failure is told once, under the code of its category, by the call or  *)
(* by an event and never by both; without one the host is told nothing.    *)
FailureIsToldOnce ==
  Over => told = IF cause = Success THEN << >> ELSE <<FromCode(cause)>>

(* However a call ends, what it took is given back and what went wrong is  *)
(* told, both exactly once.                                                *)
CallIsSettledOnce == BlocksAreFreedOnce /\ FailureIsToldOnce
=============================================================================
