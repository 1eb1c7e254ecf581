----------------------------- MODULE PythonVoice -----------------------------
(***************************************************************************)
(* The Python module: threads of one interpreter share a voice and the     *)
(* speech streams they make from it.  What takes long runs with the GIL    *)
(* released (py.detach); everything else runs with it held (the module is  *)
(* built for abi3, whose interpreters have a GIL).  A call that fails      *)
(* raises an exception and leaves the objects as they were.                *)
(***************************************************************************)
EXTENDS Integers, SequencesExt

CONSTANTS
  PyThread,
  MaxPyCalls,   (* calls of all threads together                           *)
  StreamItems   (* items of a stream before it ends                        *)

NoThread == "nobody"
ASSUME PyThreadAssumption == NoThread \notin PyThread
NoVoice == "none"
NotSet == 0
Unsettled == [f \in {"nothing"} |-> NotSet]   (* Option::None *)
NoParameters == [f \in {} |-> NotSet]         (* SynthesisConfig::default *)
NoStream == [exists |-> FALSE, next |-> 1, borrowed |-> FALSE]

VARIABLES
  gil,          (* the thread that runs Python, or NoThread                *)
  pyAt,         (* what each thread does                                   *)
  pyCalls,      (* calls that were made                                    *)
  subject,      (* what a thread's call is about or brings back            *)
  pyVoice,      (* the voice: none yet, or of which kind                   *)
  fallback,     (* the voice's settings, each the call that set it         *)
  held,         (* the copy a setter has of them                           *)
  streams,      (* the streams: one of each thread at most                 *)
  given,        (* history: items each stream handed to Python             *)
  lastUpdate    (* history: the update that last named each setting        *)

updateVars == <<fallback, held, lastUpdate>>
streamVars == <<streams, given>>
pyVars == <<gil, pyAt, pyCalls, subject, pyVoice, updateVars, streamVars>>

Settings == {"speaker", "scales", "other"}
Quiet == "quiet"

PythonInit ==
  /\ gil = NoThread
  /\ pyAt = [t \in PyThread |-> "python"]
  /\ pyCalls = 0
  /\ subject = [t \in PyThread |-> Quiet]
  /\ pyVoice = NoVoice
  /\ fallback = Unsettled
  /\ held = NoParameters
  /\ streams = [t \in PyThread |-> NoStream]
  /\ given = [t \in PyThread |-> << >>]
  /\ lastUpdate = [f \in Settings |-> NotSet]

-----------------------------------------------------------------------------
(* The interpreter (external): a thread runs Python with the GIL, and may  *)
(* lose it between two operations.                                         *)

TakeGil(t) ==
  /\ gil = NoThread
  /\ pyAt[t] = "python" /\ pyCalls < MaxPyCalls
  /\ gil' = t
  /\ UNCHANGED <<pyAt, pyCalls, subject, pyVoice, updateVars, streamVars>>
SwitchThread(t) ==
  /\ gil = t
  /\ pyAt[t] = "python"
  /\ gil' = NoThread
  /\ UNCHANGED <<pyAt, pyCalls, subject, pyVoice, updateVars, streamVars>>

Calls(t) ==
  /\ gil = t /\ pyAt[t] = "python"
  /\ pyCalls < MaxPyCalls /\ pyCalls' = pyCalls + 1
Does(t, what, about) ==
  /\ pyAt' = [pyAt EXCEPT ![t] = what]
  /\ subject' = [subject EXCEPT ![t] = about]

(* py.detach, and the way back into Python. *)
Detach(t, what, about) == gil' = NoThread /\ Does(t, what, about)
Attach(t) == gil = NoThread /\ gil' = t /\ Does(t, "python", Quiet)

-----------------------------------------------------------------------------
(* PiperModel(config_path): any kind of voice is loaded, detached.         *)

PiperModel(t) ==
  /\ Calls(t)
  /\ pyVoice = NoVoice
  /\ Detach(t, "loading", Quiet)
  /\ UNCHANGED <<pyVoice, updateVars, streamVars>>

load_voice(t) ==
  /\ pyAt[t] = "loading"
  /\ \E kind \in {"piper", "kokoro", "melotts", "failed"} : Does(t, "loaded", kind)
  /\ UNCHANGED <<gil, pyCalls, pyVoice, updateVars, streamVars>>

(* The threads share the first voice there is.  A Piper voice has its      *)
(* factory settings, a Kokoro voice empty ones, a MeloTTS voice none.      *)
VoiceIsReturned(t) ==
  /\ pyAt[t] = "loaded"
  /\ Attach(t)
  /\ IF pyVoice = NoVoice /\ subject[t] # "failed"
     THEN /\ pyVoice' = subject[t]
          /\ fallback' = CASE subject[t] = "piper"   -> [f \in {"speaker", "scales"} |-> NotSet]
                           [] subject[t] = "kokoro"  -> NoParameters
                           [] subject[t] = "melotts" -> Unsettled
     ELSE UNCHANGED <<pyVoice, fallback>>
  /\ UNCHANGED <<pyCalls, held, lastUpdate, streamVars>>

-----------------------------------------------------------------------------
(* The setters: the settings are copied, changed and set with the GIL held *)
(* all the time; another thread's update in between would be undone.       *)

Setters == {"set_speaker", "set_scales", "set_parameters"}
Names(setter) ==
  CASE setter = "set_speaker"    -> {"speaker"}
    [] setter = "set_scales"     -> {"scales"}
    [] setter = "set_parameters" -> {"scales", "other"}

(* Variant for the mutation runs: an update starts from the default        *)
(* configuration.                                                          *)
FactoryConfig ==
  IF fallback = Unsettled THEN NoParameters ELSE [f \in DOMAIN fallback |-> NotSet]

(* get_fallback_synthesis_config, and unwrap_or_default                    *)
FallbackConfig == IF fallback = Unsettled THEN NoParameters ELSE fallback

(* generic_config_or_err: only set_parameters makes do without settings.   *)
Setter(t, setter) ==
  /\ Calls(t)
  /\ pyVoice # NoVoice
  /\ fallback # Unsettled \/ setter = "set_parameters"
  /\ held' = FallbackConfig
  /\ Does(t, "setting", setter)
  /\ UNCHANGED <<gil, pyVoice, fallback, lastUpdate, streamVars>>

(* There are no settings, or there is no speaker of that name.             *)
SetterRaises(t) ==
  /\ Calls(t)
  /\ pyVoice # NoVoice
  /\ UNCHANGED <<gil, pyAt, subject, pyVoice, updateVars, streamVars>>

(* set_fallback_synthesis_config: a Piper voice has no other parameters.   *)
SetFallback(t) ==
  LET names == Names(subject[t]) \ (IF pyVoice = "piper" THEN {"other"} ELSE {})
  IN /\ gil = t
     /\ pyAt[t] = "setting"
     /\ fallback' = [f \in names \cup DOMAIN held |-> IF f \in names THEN pyCalls ELSE held[f]]
     /\ lastUpdate' = [f \in Settings |-> IF f \in names THEN pyCalls ELSE lastUpdate[f]]
     /\ held' = NoParameters
     /\ Does(t, "python", Quiet)
     /\ UNCHANGED <<gil, pyCalls, pyVoice, streamVars>>

-----------------------------------------------------------------------------
(* The synthesize methods: a stream is made detached.  A batch size of     *)
(* zero is refused.                                                        *)

synthesize(t) ==
  /\ Calls(t)
  /\ pyVoice # NoVoice /\ ~streams[t].exists
  /\ Detach(t, "making", Quiet)
  /\ UNCHANGED <<pyVoice, updateVars, streamVars>>

MakeStream(t) ==
  /\ pyAt[t] = "making"
  /\ \E outcome \in {"made", "failed"} : Does(t, "made", outcome)
  /\ UNCHANGED <<gil, pyCalls, pyVoice, updateVars, streamVars>>

StreamIsReturned(t) ==
  /\ pyAt[t] = "made"
  /\ Attach(t)
  /\ streams' = [streams EXCEPT ![t].exists = (subject[t] = "made")]
  /\ UNCHANGED <<pyCalls, pyVoice, updateVars, given>>

-----------------------------------------------------------------------------
(* __next__ and next_detached: a stream is borrowed for the call; PyO3     *)
(* refuses it to another thread in the meantime.                           *)

__next__(t, s) ==
  /\ Calls(t)
  /\ streams[s].exists
  /\ IF streams[s].borrowed
     THEN UNCHANGED <<gil, pyAt, subject, streams>>
     ELSE /\ streams' = [streams EXCEPT ![s].borrowed = TRUE]
          /\ Detach(t, "pulling", s)
  /\ UNCHANGED <<pyVoice, updateVars, given>>

(* Without the GIL the item is computed, which may end in an error of its  *)
(* own; with the GIL it is handed over and the borrow ends.                *)
StreamNext(t) ==
  /\ pyAt[t] = "pulling"
  /\ LET s == subject[t] IN Does(t, "pulled", [of |-> s, item |-> streams[s].next])
  /\ UNCHANGED <<gil, pyCalls, pyVoice, updateVars, streamVars>>

ItemIsReturned(t) ==
  /\ pyAt[t] = "pulled"
  /\ Attach(t)
  /\ LET s == subject[t].of
         item == subject[t].item
     IN IF item > StreamItems
        THEN streams' = [streams EXCEPT ![s].borrowed = FALSE] /\ UNCHANGED given
        ELSE /\ streams' = [streams EXCEPT ![s].borrowed = FALSE, ![s].next = item + 1]
             /\ given' = [given EXCEPT ![s] = Append(@, item)]
  /\ UNCHANGED <<pyCalls, pyVoice, updateVars>>

PythonNext ==
  \E t \in PyThread :
    \/ TakeGil(t) \/ SwitchThread(t)
    \/ PiperModel(t) \/ load_voice(t) \/ VoiceIsReturned(t)
    \/ \E setter \in Setters : Setter(t, setter)
    \/ SetterRaises(t) \/ SetFallback(t)
    \/ synthesize(t) \/ MakeStream(t) \/ StreamIsReturned(t)
    \/ \E s \in PyThread : __next__(t, s)
    \/ StreamNext(t) \/ ItemIsReturned(t)
PythonSpec == PythonInit /\ [][PythonNext]_pyVars

-----------------------------------------------------------------------------
(* Properties.                                                             *)

(* A stream that several threads iterate hands out every item once and in  *)
(* order, whatever thread asks.  (next_detached computes without the GIL.) *)
EachItemOnce == \A s \in PyThread : given[s] = [i \in 1..Len(given[s]) |-> i]

(* No update of the settings undoes another thread's: each setting has the *)
(* value of the last update that named it.  (set_speaker, set_scales and   *)
(* set_parameters read, change and write the settings in one call.)        *)
UpdatesAreKept ==
  /\ fallback # Unsettled => \A f \in DOMAIN fallback : fallback[f] = lastUpdate[f]
  /\ \A f \in Settings : lastUpdate[f] # NotSet => fallback # Unsettled /\ f \in DOMAIN fallback

(* Python threads share a voice and its streams without locks of their     *)
(* own.  (next_detached, and the setters of the voice classes.)            *)
PythonThreadsShareSafely == EachItemOnce /\ UpdatesAreKept
=============================================================================
