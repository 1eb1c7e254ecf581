--------------------------- MODULE VoiceSettings ---------------------------
(***************************************************************************)
(* The synthesis settings of one Piper voice, a structure behind an RwLock *)
(* that every frontend changes and every inference reads.                  *)
(*   Patcher   reads all settings, changes the named ones and writes all   *)
(*             of them back: SetSynthesisOptions of the gRPC server,       *)
(*             libdengjenSetSynthesisParameter, the Python setters.  No    *)
(*             lock is held between the read and the write.                *)
(*   Replacer  writes settings without reading: libdengjenSetPiperSynth-   *)
(*             Config, which may leave the speaker alone                   *)
(*   Reader    takes the snapshot an inference is run with                 *)
(* A setting is represented by the call whose value it is.                 *)
(***************************************************************************)
EXTENDS FiniteSets

CONSTANTS
  Patcher, Replacer, Reader,   (* calls, each made once                    *)
  Scale,                       (* length_scale, noise_scale, noise_w       *)
  Initial,                     (* the value the voice was loaded with      *)
  Default                      (* the hard-coded value of an absent scale  *)

Updater == Patcher \cup Replacer
Call    == Updater \cup Reader
Speaker == "speaker"
Field   == Scale \cup {Speaker}
Value   == Call \cup {Initial, Default}

ASSUME CallAssumption ==
  /\ Patcher \cap Replacer = {} /\ Updater \cap Reader = {}
  /\ Initial \notin Call /\ Default \notin Call /\ Initial # Default
ASSUME FieldAssumption == Speaker \notin Scale

VARIABLES
  config,    (* the settings; an initial speaker is no speaker (None)      *)
  readers,   (* calls inside the lock for reading                          *)
  writer,    (* the calls, at most one, inside the lock for writing        *)
  stage,     (* where each call is                                         *)
  named,     (* the settings a call is to change                           *)
  left,      (* settings still to be copied or written inside the lock     *)
  copy,      (* a call's own copy of the settings                          *)
  settled,   (* history: settings the voice had with no writer inside      *)
  since      (* history: values each setting had since the call began      *)

historyVars == <<settled, since>>
settingsVars == <<config, readers, writer, stage, named, left, copy, settled, since>>

Loaded == [f \in Field |-> Initial]

SettingsInit ==
  /\ config = Loaded
  /\ readers = {}
  /\ writer = {}
  /\ stage = [c \in Call |-> "idle"]
  /\ named = [c \in Call |-> {}]
  /\ left = [c \in Call |-> {}]
  /\ copy = [c \in Call |-> [f \in Field |-> Default]]
  /\ settled = {config}
  /\ since = [c \in Call |-> [f \in Field |-> {}]]

Begins(c, names, place) ==
  /\ stage[c] = "idle"
  /\ named' = [named EXCEPT ![c] = names]
  /\ stage' = [stage EXCEPT ![c] = place]
  /\ since' = [since EXCEPT ![c] = [f \in Field |-> {config[f]}]]
  /\ UNCHANGED <<config, readers, writer, left, copy, settled>>

(* SetSynthesisOptions: the options present are changed.  An unknown       *)
(* speaker name is ignored or refused before the settings are read, so a   *)
(* patch that goes on names known speakers only.                           *)
BeginPatch(c) ==
  c \in Patcher /\ \E names \in SUBSET Field : Begins(c, names, "begun")

(* libdengjenSetSynthesisParameter: one scale, or a key Piper ignores.     *)
BeginParameter(c) ==
  c \in Patcher /\ \E names \in {{s} : s \in Scale} \cup {{}} :
                      Begins(c, names, "begun")

(* libdengjenSetPiperSynthConfig: all scales, and a speaker or "none".     *)
BeginReplace(c) ==
  c \in Replacer /\ \E names \in {Field, Scale} : Begins(c, names, "merged")

(* An inference, or a call that only reads the settings. *)
BeginRead(c) == c \in Reader /\ Begins(c, {}, "begun")

-----------------------------------------------------------------------------
(* get_fallback_synthesis_config and snapshot_scales_and_speaker.          *)

(* Variant for the mutation runs: the settings are read without the lock.  *)
ReadUnlocked(c) ==
  /\ stage[c] = "begun"
  /\ readers' = readers
  /\ stage' = [stage EXCEPT ![c] = "copying"]
  /\ left' = [left EXCEPT ![c] = Field]
  /\ UNCHANGED <<config, writer, named, copy, historyVars>>

ReadLock(c) ==
  /\ stage[c] = "begun"
  /\ writer = {}
  /\ readers' = readers \cup {c}
  /\ stage' = [stage EXCEPT ![c] = "copying"]
  /\ left' = [left EXCEPT ![c] = Field]
  /\ UNCHANGED <<config, writer, named, copy, historyVars>>

Copied(f) == config[f]

CopyField(c) ==
  /\ stage[c] = "copying"
  /\ \E f \in left[c] :
       /\ copy' = [copy EXCEPT ![c][f] = Copied(f)]
       /\ left' = [left EXCEPT ![c] = @ \ {f}]
  /\ UNCHANGED <<config, readers, writer, stage, named, historyVars>>

ReadUnlock(c) ==
  /\ stage[c] = "copying"
  /\ left[c] = {}
  /\ readers' = readers \ {c}
  /\ stage' = [stage EXCEPT ![c] = IF c \in Reader THEN "done" ELSE "merged"]
  /\ UNCHANGED <<config, writer, named, left, copy, historyVars>>

-----------------------------------------------------------------------------
(* set_fallback_synthesis_config.                                          *)

(* An unknown speaker id is refused before the lock is taken. *)
RefuseSpeaker(c) ==
  /\ stage[c] = "merged"
  /\ c \in Replacer /\ Speaker \in named[c]
  /\ stage' = [stage EXCEPT ![c] = "refused"]
  /\ UNCHANGED <<config, readers, writer, named, left, copy, historyVars>>

(* What the call asks the voice to set: its own value for what it names,   *)
(* its copy for the rest.  A speaker of None leaves the voice's alone.     *)
Asked(c, f) == IF f \in named[c] THEN c ELSE copy[c][f]
Skipped(c) == IF Speaker \notin named[c] /\
                 (c \in Replacer \/ copy[c][Speaker] = Initial)
              THEN {Speaker} ELSE {}

WriteLock(c) ==
  /\ stage[c] = "merged"
  /\ writer = {} /\ readers = {}
  /\ writer' = {c}
  /\ stage' = [stage EXCEPT ![c] = "writing"]
  /\ left' = [left EXCEPT ![c] = Field \ Skipped(c)]
  /\ UNCHANGED <<config, readers, named, copy, historyVars>>

WriteField(c) ==
  /\ stage[c] = "writing"
  /\ \E f \in left[c] :
       /\ config' = [config EXCEPT ![f] = Asked(c, f)]
       /\ left' = [left EXCEPT ![c] = @ \ {f}]
       /\ since' = [d \in Call |-> [since[d] EXCEPT ![f] = @ \cup {Asked(c, f)}]]
  /\ UNCHANGED <<readers, writer, stage, named, copy, settled>>

WriteUnlock(c) ==
  /\ stage[c] = "writing"
  /\ left[c] = {}
  /\ writer' = {}
  /\ stage' = [stage EXCEPT ![c] = "done"]
  /\ settled' = settled \cup {config}
  /\ UNCHANGED <<config, readers, named, left, copy, since>>

-----------------------------------------------------------------------------
SettingsNext ==
  \/ \E c \in Call :
       BeginPatch(c) \/ BeginParameter(c) \/ BeginReplace(c) \/ BeginRead(c)
  \/ \E c \in Patcher \cup Reader : ReadLock(c) \/ CopyField(c) \/ ReadUnlock(c)
  \/ \E c \in Updater :
       RefuseSpeaker(c) \/ WriteLock(c) \/ WriteField(c) \/ WriteUnlock(c)

SettingsSpec == SettingsInit /\ [][SettingsNext]_settingsVars

-----------------------------------------------------------------------------
(* Properties.                                                             *)

SettingsTypeOK ==
  /\ config \in [Field -> Value]
  /\ readers \subseteq Call
  /\ writer \subseteq Updater
  /\ stage \in [Call -> {"idle", "begun", "copying", "merged", "writing",
                         "done", "refused"}]
  /\ named \in [Call -> SUBSET Field]
  /\ left \in [Call -> SUBSET Field]
  /\ copy \in [Call -> [Field -> Value]]
  /\ settled \subseteq [Field -> Value]
  /\ since \in [Call -> [Field -> SUBSET Value]]
  /\ writer # {} => readers = {}

(* An inference never mixes settings of two updates: its snapshot is one   *)
(* the voice had while no update was half-way.                             *)
SnapshotIsOneConfig ==
  \A c \in Reader : stage[c] = "done" => copy[c] \in settled

(* What had taken effect before a patch began, and was not overwritten     *)
(* since, is still there after it: a call only writes values the setting   *)
(* has had since the call began, or its own.                               *)
UpdatesSurvive ==
  \A c \in Updater, f \in Field :
    writer = {c} /\ config'[f] # config[f] =>
      IF f \in named[c] THEN config'[f] = c ELSE config'[f] \in since[c][f]

(* A voice's settings are never torn: readers see whole updates only, and  *)
(* no step of an update undoes one that had finished before it began.      *)
SettingsAreNeverTorn == [][UpdatesSurvive /\ SnapshotIsOneConfig']_settingsVars
=============================================================================
