----------------------------- MODULE CommandLine -----------------------------
(***************************************************************************)
(* The dengjen command: one process, one voice, and requests that are read *)
(* one by one from lines of standard input, or a single one from a file    *)
(* and the command's own flags.  Every request first replaces the settings *)
(* of the voice and then speaks, to standard output chunk by chunk or to a *)
(* numbered file.  A line that is not a request is skipped; a request that *)
(* fails ends the process.                                                 *)
(***************************************************************************)
EXTENDS ModelSettings, Sequences, FiniteSets

CONSTANTS
  MaxLines,    (* bound: lines on standard input                           *)
  MaxChunks    (* bound: chunks of audio of one request                    *)

ASSUME LineAssumption == MaxLines \in Nat \ {0} /\ MaxChunks \in Nat

VARIABLES
  cliVoice,    (* the voice that was loaded                                *)
  settings,    (* its fallback configuration                               *)
  toFile,      (* whether an output file was given                         *)
  fromFile,    (* whether an input file was given                          *)
  at,          (* where the process is                                     *)
  count,       (* request_count                                            *)
  asks,        (* the fields each request sets; its audio has chunks       *)
  stdout,      (* history: chunks written to standard output               *)
  files,       (* history: the audio of each numbered file                 *)
  skipped      (* history: lines that were not requests                    *)

inputVars == <<cliVoice, toFile, fromFile>>
outputVars == <<stdout, files>>
cliVars == <<inputVars, settings, at, count, asks, outputVars, skipped>>

Lines == 1..MaxLines
NoRequest == [sets |-> {}, chunks |-> 0]
ASSUME ValueAssumption == None \notin Lines \cup {Factory}

Requests == [sets : SUBSET Fields, chunks : 0..MaxChunks]
NoFile == [settings |-> Empty, chunks |-> 0]

CliInit ==
  /\ cliVoice \in Voices
  /\ settings = Loaded(cliVoice)
  /\ toFile \in BOOLEAN /\ fromFile \in BOOLEAN
  /\ at = "starting"
  /\ count = 0
  /\ asks = [n \in Lines |-> NoRequest]
  /\ stdout = << >>
  /\ files = [n \in Lines |-> NoFile]
  /\ skipped = {}

Go(place) == at' = place

(* main: logging, the ONNX Runtime, the voice; any of them may fail. *)
CliStart ==
  /\ at = "starting"
  /\ \E place \in {"reading", "failed"} : Go(place)
  /\ UNCHANGED <<inputVars, settings, count, asks, outputVars, skipped>>

-----------------------------------------------------------------------------
(* The next request.                                                       *)

(* A line of standard input is a request, or not. *)
ReadLine ==
  /\ at = "reading" /\ ~fromFile
  /\ count < MaxLines
  /\ count' = count + 1
  /\ \/ /\ \E r \in Requests : asks' = [asks EXCEPT ![count'] = r]
        /\ Go("configuring")
        /\ UNCHANGED skipped
     \/ /\ skipped' = skipped \cup {count'}
        /\ UNCHANGED <<at, asks>>
  /\ UNCHANGED <<inputVars, settings, outputVars>>

(* Standard input ends, or cannot be read. *)
EndOfInput ==
  /\ at = "reading" /\ ~fromFile
  /\ Go("done")
  /\ UNCHANGED <<inputVars, settings, count, asks, outputVars, skipped>>

(* synthesize_from_file: one request, or no file to read it from. *)
ReadInputFile ==
  /\ at = "reading" /\ fromFile
  /\ \/ /\ count' = 1
        /\ \E r \in Requests : asks' = [asks EXCEPT ![1] = r]
        /\ Go("configuring")
     \/ Go("failed") /\ UNCHANGED <<count, asks>>
  /\ UNCHANGED <<inputVars, settings, outputVars, skipped>>

-----------------------------------------------------------------------------
(* process_synthesis_request.                                              *)

(* Variant for the mutation runs: a request builds on the one before.      *)
RequestedFromCurrent(n) ==
  [f \in Fields |-> IF f \in asks[n].sets THEN n ELSE settings[f]]

(* as_synthesis_config: what the request sets, over the voice's defaults.  *)
Requested(n) ==
  [f \in Fields |-> IF f \in asks[n].sets THEN n ELSE DefaultConfig(cliVoice)[f]]

(* An unknown speaker is refused; any speaker of a single-speaker voice is.*)
Configure ==
  /\ at = "configuring"
  /\ \/ /\ ~Refused(cliVoice, Requested(count))
        /\ settings' = SetConfig(cliVoice, settings, Requested(count))
        /\ Go("speaking")
     \/ /\ Speaker \in asks[count].sets
        /\ Go("failed")
        /\ UNCHANGED settings
  /\ UNCHANGED <<inputVars, count, asks, outputVars, skipped>>

Written(n) == Cardinality({i \in 1..Len(stdout) : stdout[i].line = n})

(* consume_stream: the next chunk is written and flushed. *)
WriteChunk ==
  /\ at = "speaking" /\ ~toFile
  /\ Written(count) < asks[count].chunks
  /\ stdout' = Append(stdout, [line |-> count, settings |-> Effective(cliVoice, settings)])
  /\ UNCHANGED <<inputVars, settings, at, count, asks, files, skipped>>

(* A chunk is an error or cannot be written, batch_size is 0, the text     *)
(* cannot be phonemized, the file cannot be written.                       *)
SpeakFails ==
  /\ at = "speaking"
  /\ Go("failed")
  /\ UNCHANGED <<inputVars, settings, count, asks, outputVars, skipped>>

SpokenToStdout ==
  /\ at = "speaking" /\ ~toFile
  /\ Written(count) = asks[count].chunks
  /\ Go(IF fromFile THEN "done" ELSE "reading")
  /\ UNCHANGED <<inputVars, settings, count, asks, outputVars, skipped>>

(* enumerate_output_path: the number of the request is part of the name.   *)
Enumerated(n) == IF fromFile THEN 1 ELSE n

(* synthesize_to_file: the whole file, or none (see WaveFile); a request   *)
(* without audio is refused.                                               *)
SpokenToFile ==
  /\ at = "speaking" /\ toFile
  /\ asks[count].chunks > 0
  /\ files' = [files EXCEPT ![Enumerated(count)] =
                 [settings |-> Effective(cliVoice, settings), chunks |-> asks[count].chunks]]
  /\ Go(IF fromFile THEN "done" ELSE "reading")
  /\ UNCHANGED <<inputVars, settings, count, asks, stdout, skipped>>

CliNext ==
  \/ CliStart \/ ReadLine \/ EndOfInput \/ ReadInputFile \/ Configure
  \/ WriteChunk \/ SpokenToStdout \/ SpokenToFile \/ SpeakFails

CliSpec == CliInit /\ [][CliNext]_cliVars

-----------------------------------------------------------------------------
(* Properties.                                                             *)

CliTypeOK ==
  /\ cliVoice \in Voices
  /\ settings \in [Fields -> Lines \cup {None, Factory, HardCoded}]
  /\ toFile \in BOOLEAN /\ fromFile \in BOOLEAN
  /\ at \in {"starting", "reading", "configuring", "speaking", "done", "failed"}
  /\ count \in 0..MaxLines
  /\ asks \in [Lines -> Requests]
  /\ skipped \subseteq Lines

(* The settings a request is entitled to: its own, and the voice's factory *)
(* values for what it does not set or the model does not have.             *)
Entitled(n) ==
  Effective(cliVoice, [f \in Fields |-> IF f \in asks[n].sets THEN n ELSE Factory])

(* No request is spoken with a setting of an earlier one, with any model:  *)
(* neither a speaker Piper would keep nor a scale another model would.     *)
RequestsAreIsolated ==
  /\ \A i \in 1..Len(stdout) : stdout[i].settings = Entitled(stdout[i].line)
  /\ \A n \in Lines : files[n].chunks > 0 => files[n].settings = Entitled(n)

Finished(n) ==
  /\ n \in 1..count /\ n \notin skipped
  /\ n = count => at \in {"reading", "done"}

(* Standard output has the chunks of the requests in their order, and each *)
(* request all of its chunks unless it is the one that is being spoken or  *)
(* ended the process with an error; an output file holds the whole audio   *)
(* of the line whose number it bears, and the others do not exist.         *)
OutputFollowsInput ==
  /\ \A i \in 1..Len(stdout) - 1 : stdout[i].line <= stdout[i + 1].line
  /\ \A n \in Lines :
       /\ Finished(n) /\ ~toFile => Written(n) = asks[n].chunks
       /\ files[n].chunks = IF toFile /\ Finished(n) THEN asks[n].chunks ELSE 0

(* Every request of a session is answered as if it were the only one: with *)
(* its own settings, in its place, and whole.                              *)
RequestsAreAnswered == RequestsAreIsolated /\ OutputFollowsInput
=============================================================================
