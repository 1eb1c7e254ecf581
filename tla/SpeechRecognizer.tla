-------------------------- MODULE SpeechRecognizer --------------------------
(***************************************************************************)
(* The recognizer behind its C API: a model directory is checked and       *)
(* loaded, then several threads transcribe with one handle until it is     *)
(* unloaded.  The engine (sherpa-onnx) aborts the whole process on a       *)
(* corrupt model file and on a stream that is too short, so everything it  *)
(* is given was looked at before.  The files may change at any time.       *)
(***************************************************************************)
EXTENDS Integers, FiniteSets

CONSTANTS
  Listener,            (* threads that transcribe                          *)
  Lengths,             (* numbers of samples they ask for                  *)
  Rates,               (* and sample rates                                 *)
  MODEL_RATE,          (* 16000, the rate the engine resamples to          *)
  MIN_MODEL_SAMPLES,   (* 400, what it needs at that rate                  *)
  I32_MAX,
  MaxFileChanges,      (* bound                                            *)
  MaxLoads             (* bound                                            *)

ASSUME RecognizerAssumption ==
  /\ Lengths \subseteq Nat /\ Rates \subseteq Int /\ MODEL_RATE \in Nat
  /\ MIN_MODEL_SAMPLES \in Nat \ {0} /\ I32_MAX \in Nat

VARIABLES
  modelFile,     (* "absent", "unreadable", "whole" or "corrupt"           *)
  tokensFile,    (* whether tokens.txt is there                            *)
  fileChanges,   (* how often the files changed                            *)
  asking,        (* what the host passes to the load                       *)
  loader,        (* where the load is                                      *)
  loads,         (* how many there were                                    *)
  changed,       (* history: the model changed since it was hashed         *)
  handle,        (* whether there is a recognizer                          *)
  listener,      (* where each thread is                                   *)
  audio,         (* what it passes                                         *)
  stream,        (* samples the engine was given, -1 for none              *)
  error,         (* error code each call came back with, 0 for none        *)
  aborted        (* the process is gone                                    *)

fileVars == <<modelFile, tokensFile, fileChanges>>
loadVars == <<asking, loader, loads, changed>>
listenVars == <<listener, audio, stream>>
recognizerVars == <<fileVars, loadVars, handle, listenVars, error, aborted>>


(* error_codes, and 0 for success. *)
SttCode ==
  [INVALID_UTF8_SEQUENCE |-> 20, NULL_POINTER |-> 22, INVALID_CONFIGURATION |-> 24, MISSING_MODEL_FILE |-> 40,
   UNREADABLE_MODEL_FILE |-> 41, CHECKSUM_MISMATCH |-> 42, MODEL_LOAD_FAILED |-> 43,
   INVALID_AUDIO |-> 44, DECODE_FAILED |-> 45]

(* A string of the host; a configuration it may leave out, whose size may  *)
(* be too small for the field, and whose threads may be none.              *)
Strings == {"null", "not unicode", "text"}
Configs == {"default", "short", "no threads", "threads"}
Host == "load"
NothingAsked == [dir |-> "null", sha |-> "null", config |-> "default"]
NoAudio == [samples |-> "null", len |-> 0, rate |-> 0]

RecognizerInit ==
  /\ modelFile \in {"absent", "unreadable", "whole", "corrupt"}
  /\ tokensFile \in BOOLEAN
  /\ fileChanges = 0
  /\ asking = NothingAsked
  /\ loader = "idle" /\ loads = 0 /\ changed = FALSE
  /\ handle = FALSE
  /\ listener = [t \in Listener |-> "idle"]
  /\ audio = [t \in Listener |-> NoAudio]
  /\ stream = [t \in Listener |-> -1]
  /\ error = [t \in Listener \cup {Host} |-> 0]
  /\ aborted = FALSE

(* A download replaces a file, or one is removed. *)
FilesChange ==
  /\ ~aborted /\ fileChanges < MaxFileChanges
  /\ fileChanges' = fileChanges + 1
  /\ modelFile' \in {"absent", "unreadable", "whole", "corrupt"}
  /\ tokensFile' \in BOOLEAN
  /\ changed' = (changed \/ modelFile' # modelFile)
  /\ UNCHANGED <<asking, loader, loads, handle, listenVars, error, aborted>>

-----------------------------------------------------------------------------
(* libdengjenSttLoad.                                                      *)

LoadRecognizer ==
  /\ ~aborted /\ loader = "idle" /\ ~handle /\ loads < MaxLoads
  /\ asking' \in [dir : Strings, sha : Strings, config : Configs]
  /\ loader' = "arguments"
  /\ loads' = loads + 1
  /\ error' = [error EXCEPT ![Host] = 0]
  /\ UNCHANGED <<fileVars, changed, handle, listenVars, aborted>>

LoadFails(code) ==
  /\ error' = [error EXCEPT ![Host] = code]
  /\ loader' = "idle" /\ asking' = NothingAsked
  /\ UNCHANGED <<fileVars, loads, changed, handle, listenVars, aborted>>
LoadGoesOn(place) ==
  /\ loader' = place
  /\ UNCHANGED <<fileVars, asking, loads, handle, listenVars, error, aborted>>

(* required_str of both strings, read_config. *)
CheckArguments ==
  /\ ~aborted /\ loader = "arguments"
  /\ CASE asking.dir = "null"       -> LoadFails(SttCode.NULL_POINTER)
       [] asking.dir = "not unicode"  -> LoadFails(SttCode.INVALID_UTF8_SEQUENCE)
       [] asking.dir = "text" /\ asking.sha = "null" -> LoadFails(SttCode.NULL_POINTER)
       [] asking.dir = "text" /\ asking.sha = "not unicode" -> LoadFails(SttCode.INVALID_UTF8_SEQUENCE)
       [] asking.dir = "text" /\ asking.sha = "text" /\ asking.config \in {"short", "no threads"}
            -> LoadFails(SttCode.INVALID_CONFIGURATION)
       [] OTHER -> LoadGoesOn("checked") /\ UNCHANGED changed

(* Variant for the mutation runs: a model that can be read is loaded.      *)
VerifyReadable ==
  /\ ~aborted /\ loader = "checked"
  /\ IF modelFile \in {"absent", "unreadable"} THEN LoadFails(SttCode.UNREADABLE_MODEL_FILE)
     ELSE LoadGoesOn("verified") /\ changed' = FALSE

(* verify_model; the sum the host knows is the whole model's. *)
VerifyModel ==
  /\ ~aborted /\ loader = "checked"
  /\ CASE modelFile \in {"absent", "unreadable"} -> LoadFails(SttCode.UNREADABLE_MODEL_FILE)
       [] modelFile = "corrupt" -> LoadFails(SttCode.CHECKSUM_MISMATCH)
       [] OTHER -> LoadGoesOn("verified") /\ changed' = FALSE

(* Recognizer::new: both files are looked for, then the engine opens them. *)
RequireFiles ==
  /\ ~aborted /\ loader = "verified"
  /\ IF modelFile = "absent" \/ ~tokensFile THEN LoadFails(SttCode.MISSING_MODEL_FILE)
     ELSE LoadGoesOn("required") /\ UNCHANGED changed

CreateRecognizer ==
  /\ ~aborted /\ loader = "required"
  /\ \/ modelFile # "corrupt" /\ LoadFails(SttCode.MODEL_LOAD_FAILED)
     \/ /\ modelFile = "whole" /\ tokensFile
        /\ handle' = TRUE
        /\ loader' = "idle" /\ asking' = NothingAsked
        /\ UNCHANGED <<fileVars, loads, changed, listenVars, error, aborted>>
     \/ /\ modelFile = "corrupt"
        /\ aborted' = TRUE
        /\ UNCHANGED <<fileVars, loadVars, handle, listenVars, error>>

-----------------------------------------------------------------------------
(* libdengjenSttRecognize.                                                 *)

CallRecognize(t) ==
  /\ ~aborted /\ listener[t] = "idle"
  /\ \E samples \in {"null", "given"}, len \in Lengths, rate \in Rates :
       audio' = [audio EXCEPT ![t] = [samples |-> samples, len |-> len, rate |-> rate]]
  /\ listener' = [listener EXCEPT ![t] = "called"]
  /\ UNCHANGED <<fileVars, loadVars, handle, stream, error, aborted>>

Returns(t, code) ==
  /\ error' = [error EXCEPT ![t] = code]
  /\ listener' = [listener EXCEPT ![t] = "back"]
  /\ UNCHANGED <<audio, stream>>

(* validate_len: whole samples at the model's rate, in 64 bits. *)
TooShort(len, rate) == (len * MODEL_RATE) \div rate < MIN_MODEL_SAMPLES
Invalid(a) == \/ a.len > I32_MAX \/ a.len = 0
              \/ a.rate <= 0 \/ TooShort(a.len, a.rate)

(* The handle may be null; samples may be null only if there are none. *)
CheckAudio(t) ==
  /\ ~aborted /\ listener[t] = "called"
  /\ CASE ~handle -> Returns(t, SttCode.NULL_POINTER)
       [] handle /\ audio[t].samples = "null" /\ audio[t].len # 0 -> Returns(t, SttCode.NULL_POINTER)
       [] handle /\ (audio[t].samples = "given" \/ audio[t].len = 0) /\ Invalid(audio[t])
            -> Returns(t, SttCode.INVALID_AUDIO)
       [] OTHER -> /\ listener' = [listener EXCEPT ![t] = "decoding"]
                   /\ stream' = [stream EXCEPT ![t] = (audio[t].len * MODEL_RATE) \div audio[t].rate]
                   /\ UNCHANGED <<audio, error>>
  /\ UNCHANGED <<fileVars, loadVars, handle, aborted>>

Decode(t) ==
  /\ ~aborted /\ listener[t] = "decoding"
  /\ IF stream[t] < MIN_MODEL_SAMPLES
     THEN aborted' = TRUE /\ UNCHANGED <<listenVars, error>>
     ELSE (\E code \in {0, SttCode.DECODE_FAILED} : Returns(t, code)) /\ UNCHANGED aborted
  /\ UNCHANGED <<fileVars, loadVars, handle>>

TakeResult(t) ==
  /\ ~aborted /\ listener[t] = "back"
  /\ listener' = [listener EXCEPT ![t] = "idle"]
  /\ audio' = [audio EXCEPT ![t] = NoAudio]
  /\ stream' = [stream EXCEPT ![t] = -1]
  /\ error' = [error EXCEPT ![t] = 0]
  /\ UNCHANGED <<fileVars, loadVars, handle, aborted>>

(* The host unloads when no call uses the handle, as the header asks. *)
Unload ==
  /\ ~aborted /\ handle
  /\ \A t \in Listener : listener[t] \in {"idle", "back"}
  /\ handle' = FALSE
  /\ UNCHANGED <<fileVars, loadVars, listenVars, error, aborted>>

RecognizerNext ==
  \/ FilesChange \/ LoadRecognizer \/ CheckArguments \/ VerifyModel \/ RequireFiles
  \/ CreateRecognizer \/ Unload
  \/ \E t \in Listener : CallRecognize(t) \/ CheckAudio(t) \/ Decode(t) \/ TakeResult(t)
RecognizerSpec == RecognizerInit /\ [][RecognizerNext]_recognizerVars

-----------------------------------------------------------------------------
(* Whatever directory, sum, configuration, samples and rates the host      *)
(* passes, and whenever files change, the engine aborts the process only   *)
(* if the model was changed between its hash and its loading; and no       *)
(* thread decodes on a recognizer that is gone (verify_model before        *)
(* Recognizer::new, validate before accept_waveform).                      *)
EngineDoesNotAbort ==
  /\ aborted => changed
  /\ \A t \in Listener : listener[t] = "decoding" => handle
=============================================================================
