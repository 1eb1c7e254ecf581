----------------------------- MODULE OrtRuntime ------------------------------
(***************************************************************************)
(* The ONNX Runtime of one process (builds with the ort-dylib feature).    *)
(* libdengjenSetOrtDylibPath names the library to use; the first load of a *)
(* voice initialises the runtime from it, or by the platform's search path *)
(* where none was named, and the outcome is kept for the life of the       *)
(* process, an error as well.  Java names the path of a system property at *)
(* every load until that has succeeded once.                               *)
(***************************************************************************)
EXTENDS Naturals

CONSTANTS
  Caller,      (* threads, each making one call after the other            *)
  Path,        (* library paths                                            *)
  Unset,       (* no path: the platform's search path decides              *)
  MaxCalls     (* bound: calls of one thread                               *)

ASSUME PathAssumption == Unset \notin Path /\ MaxCalls \in Nat

VARIABLES
  property,    (* Java's dengjen.onnxruntime.path                          *)
  configured,  (* Java's OnnxRuntime.configured                            *)
  monitor,     (* who is inside OnnxRuntime.configure                      *)
  ortLock,     (* who holds ORT_CONFIG_LOCK                                *)
  dylibPath,   (* ORT_DYLIB_PATH                                           *)
  environment, (* INIT_ORT_ENVIRONMENT: path and outcome, or not yet       *)
  ortAt,       (* where the call of each thread is                         *)
  arg,         (* the path it names                                        *)
  calls,       (* calls each thread has made                               *)
  promised     (* history: paths whose setting was reported as a success   *)

javaVars == <<property, configured, monitor>>
ortVars == <<javaVars, ortLock, dylibPath, environment, ortAt, arg, calls, promised>>

Nobody == "nobody"
ASSUME CallerAssumption == Nobody \notin Caller

NotYet == [path |-> Unset, outcome |-> "none"]
Setting == {"setting", "setPathFree", "setMayStore"}

OrtInit ==
  /\ property \in Path \cup {Unset}
  /\ configured = FALSE
  /\ monitor = Nobody /\ ortLock = Nobody
  /\ dylibPath = Unset
  /\ environment = NotYet
  /\ ortAt = [c \in Caller |-> "idle"]
  /\ arg = [c \in Caller |-> Unset]
  /\ calls = [c \in Caller |-> 0]
  /\ promised = {}

Steps(c, from, to) == ortAt[c] = from /\ ortAt' = [ortAt EXCEPT ![c] = to]

NewCall(c, place, path) ==
  /\ calls[c] < MaxCalls
  /\ Steps(c, "idle", place)
  /\ calls' = [calls EXCEPT ![c] = @ + 1]
  /\ arg' = [arg EXCEPT ![c] = path]

(* libdengjenSetOrtDylibPath called by C or Go; a null path is refused.    *)
CallSet(c) ==
  /\ \E p \in Path : NewCall(c, "set", p)
  /\ UNCHANGED <<javaVars, ortLock, dylibPath, environment, promised>>

(* libdengjenLoadVoiceFromConfigPath called by C or Go. *)
CallLoad(c) ==
  /\ NewCall(c, "load", Unset)
  /\ UNCHANGED <<javaVars, ortLock, dylibPath, environment, promised>>

(* Voice.load of Java: configure is synchronized, and does nothing without *)
(* the property or once it has succeeded.                                  *)
CallJavaLoad(c) ==
  /\ monitor = Nobody
  /\ IF configured \/ property = Unset
     THEN NewCall(c, "load", Unset) /\ UNCHANGED monitor
     ELSE NewCall(c, "set", property) /\ monitor' = c
  /\ UNCHANGED <<property, configured, ortLock, dylibPath, environment, promised>>

-----------------------------------------------------------------------------
(* set_ort_dylib_path.                                                     *)

(* Variant for the mutation runs: the call does not wait for the lock.     *)
SetUnlocked(c) ==
  /\ Steps(c, "set", "setting")
  /\ UNCHANGED <<javaVars, ortLock, dylibPath, environment, arg, calls, promised>>

SetLocks(c) ==
  /\ ortLock = Nobody
  /\ ortLock' = c
  /\ Steps(c, "set", "setting")
  /\ UNCHANGED <<javaVars, dylibPath, environment, arg, calls, promised>>

(* The call returns; in Java, configure ends with it: a success leads to   *)
(* the load, an error is thrown.                                           *)
Reports(c, ok) ==
  /\ ortLock' = Nobody
  /\ promised' = IF ok THEN promised \cup {arg[c]} ELSE promised
  /\ IF monitor = c THEN monitor' = Nobody /\ configured' = ok
                    ELSE UNCHANGED <<monitor, configured>>
  /\ ortAt' = [ortAt EXCEPT ![c] = IF monitor = c /\ ok THEN "load" ELSE "idle"]
  /\ UNCHANGED <<property, environment, arg, calls>>

(* A path that is set already is accepted again, any other is refused. *)
SetFindsPath(c) ==
  /\ ortAt[c] = "setting"
  /\ dylibPath # Unset
  /\ Reports(c, dylibPath = arg[c])
  /\ UNCHANGED dylibPath

SetFindsNoPath(c) ==
  /\ dylibPath = Unset
  /\ Steps(c, "setting", "setPathFree")
  /\ UNCHANGED <<javaVars, ortLock, dylibPath, environment, arg, calls, promised>>

SetTooLate(c) ==
  /\ ortAt[c] = "setPathFree"
  /\ environment # NotYet
  /\ Reports(c, FALSE)
  /\ UNCHANGED dylibPath

SetInTime(c) ==
  /\ environment = NotYet
  /\ Steps(c, "setPathFree", "setMayStore")
  /\ UNCHANGED <<javaVars, ortLock, dylibPath, environment, arg, calls, promised>>

(* OnceLock::set. *)
SetStores(c) ==
  /\ ortAt[c] = "setMayStore"
  /\ dylibPath' = IF dylibPath = Unset THEN arg[c] ELSE dylibPath
  /\ Reports(c, dylibPath = Unset)

-----------------------------------------------------------------------------
(* init_ort_environment.                                                   *)

LoadLocks(c) ==
  /\ ortLock = Nobody
  /\ ortLock' = c
  /\ Steps(c, "load", "initialising")
  /\ UNCHANGED <<javaVars, dylibPath, environment, arg, calls, promised>>

(* get_or_init: the first one looks the path up; the others get the        *)
(* outcome of the first, and go on to load their voice or fail.            *)
LoadFindsOutcome(c) ==
  /\ environment # NotYet
  /\ Steps(c, "initialising", "idle")
  /\ ortLock' = Nobody
  /\ UNCHANGED <<javaVars, dylibPath, environment, arg, calls, promised>>

LoadLooksUpPath(c) ==
  /\ environment = NotYet
  /\ Steps(c, "initialising", "committing")
  /\ arg' = [arg EXCEPT ![c] = dylibPath]
  /\ UNCHANGED <<javaVars, ortLock, dylibPath, environment, calls, promised>>

(* ort::init_from or ort::init, and commit: the library may be missing. *)
LoadCommits(c) ==
  /\ Steps(c, "committing", "idle")
  /\ \E outcome \in {"ok", "failed"} :
       environment' = [path |-> arg[c], outcome |-> outcome]
  /\ ortLock' = Nobody
  /\ UNCHANGED <<javaVars, dylibPath, arg, calls, promised>>

OrtNext ==
  \E c \in Caller :
    \/ CallSet(c) \/ CallLoad(c) \/ CallJavaLoad(c)
    \/ SetLocks(c) \/ SetFindsPath(c) \/ SetFindsNoPath(c)
    \/ SetTooLate(c) \/ SetInTime(c) \/ SetStores(c)
    \/ LoadLocks(c) \/ LoadFindsOutcome(c) \/ LoadLooksUpPath(c) \/ LoadCommits(c)

OrtSpec == OrtInit /\ [][OrtNext]_ortVars

-----------------------------------------------------------------------------
(* Properties.                                                             *)

OrtTypeOK ==
  /\ property \in Path \cup {Unset} /\ dylibPath \in Path \cup {Unset}
  /\ configured \in BOOLEAN
  /\ monitor \in Caller \cup {Nobody} /\ ortLock \in Caller \cup {Nobody}
  /\ environment \in [path : Path \cup {Unset}, outcome : {"none", "ok", "failed"}]
  /\ ortAt \in [Caller -> Setting \cup {"idle", "set", "load", "initialising", "committing"}]
  /\ arg \in [Caller -> Path \cup {Unset}]
  /\ calls \in [Caller -> 0..MaxCalls]
  /\ promised \subseteq Path

(* A reported success means that the path was in place before the runtime  *)
(* was loaded: no two callers are promised different paths, the runtime    *)
(* comes from the promised one whoever loads first, and Java never loads a *)
(* voice with another runtime than the one its property names.             *)
PromisedPathIsUsed ==
  /\ \A p \in promised :
       dylibPath = p /\ (environment # NotYet => environment.path = p)
  /\ configured => property \in promised
=============================================================================
