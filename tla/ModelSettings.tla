--------------------------- MODULE ModelSettings ---------------------------
(***************************************************************************)
(* What the three voice models do with a synthesis configuration: the one  *)
(* they start with, what setting one makes of it, and what an inference    *)
(* gets to see of it.  A value is the request that asked for it, Factory   *)
(* for the value of the model's configuration file, HardCoded for a        *)
(* constant of the program, or None where there is none.                   *)
(***************************************************************************)
EXTENDS Naturals

CONSTANTS None, Factory, HardCoded

Models == {"piper", "kokoro", "melo"}
Speaker == "speaker"
Scales  == {"length_scale", "noise_scale", "noise_w"}
Fields  == {Speaker} \cup Scales

Empty == [f \in Fields |-> None]

(* A voice: its model, and whether it lists speakers to choose from.  A    *)
(* Kokoro voice lists its styles; a MeloTTS voice may name a default one.  *)
Voices == [model : {"piper", "melo"}, speakers : BOOLEAN]
            \cup [model : {"kokoro"}, speakers : {TRUE}]

(* The settings a voice is loaded with.                                    *)
Loaded(v) == IF v.model = "piper"
             THEN [Empty EXCEPT !["length_scale"] = Factory,
                                !["noise_scale"] = Factory, !["noise_w"] = Factory]
             ELSE Empty

(* get_default_synthesis_config.  MeloTTS calls its third scale            *)
(* noise_scale_w, a name no front end uses.                                *)
DefaultConfig(v) ==
  [f \in Fields |->
     CASE f = Speaker                          -> IF v.speakers THEN Factory ELSE None
       [] f \in Scales /\ v.model = "piper"    -> Factory
       [] f \in Scales /\ v.model = "melo"     -> IF f = "noise_w" THEN None ELSE Factory
       [] f \in Scales /\ v.model = "kokoro"   -> None]

(* _do_set_default_synth_config: Piper fills in what is missing and keeps  *)
(* its speaker.                                                            *)
FilledIn(config, asked) ==
  [f \in Fields |-> IF asked[f] # None THEN asked[f]
                    ELSE IF f = Speaker THEN config[f] ELSE HardCoded]

(* set_fallback_synthesis_config, of a speaker the voice has: the other    *)
(* models replace it all.                                                  *)
SetConfig(v, config, asked) == IF v.model = "piper" THEN FilledIn(config, asked) ELSE asked

(* The speaker a single-speaker voice does not list is refused. *)
Refused(v, asked) == ~v.speakers /\ asked[Speaker] # None

(* What an inference is run with: the speaker of a voice that has several, *)
(* the scales of a model that has them, the factory value of what is unset.*)
Effective(v, config) ==
  [f \in Fields |->
     IF \/ f = Speaker /\ ~v.speakers
        \/ f \in Scales /\ v.model = "kokoro"
        \/ f = "noise_w" /\ v.model = "melo"
        \/ config[f] = None
     THEN Factory ELSE config[f]]
=============================================================================
