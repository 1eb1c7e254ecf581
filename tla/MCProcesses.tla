----------------------------- MODULE MCProcesses -----------------------------
(***************************************************************************)
(* One model for the parts that are about processes and their files.  They *)
(* share no state, so a behaviour runs one of them, chosen at the start,   *)
(* and the others rest in one of their initial states.                     *)
(***************************************************************************)
EXTENDS WaveFile, CommandLine, NativeLibrary, OrtRuntime, CallBoundary, SpeechRecognizer,
        PythonVoice

VARIABLE part   (* the part that runs *)

(* An initial state for the parts that rest. *)
WaveFileRests == target = Absent /\ pid = [p \in Process |-> CHOOSE i \in Pid : TRUE]
                 /\ home = [w \in Writer |-> CHOOSE p \in Process : TRUE]
CommandLineRests == cliVoice = [model |-> "piper", speakers |-> FALSE] /\ ~toFile /\ ~fromFile
NativeLibraryRests ==
  /\ carries = [p \in Jvm |-> CHOOSE r \in Release : TRUE]
  /\ overridden = [p \in Jvm |-> FALSE] /\ atomicMoves
  /\ libraryFile = [r \in Release |-> "missing"]
OrtRuntimeRests == property = Unset
BoundaryRests == binding = "go" /\ operation = "load"
RecognizerRests == modelFile = "absent" /\ ~tokensFile

MCInit ==
  /\ part \in {"wave", "cli", "native", "ort", "boundary", "recognizer", "python"}
  /\ Init /\ (part = "wave" \/ WaveFileRests)
  /\ CliInit /\ (part = "cli" \/ CommandLineRests)
  /\ NativeInit /\ (part = "native" \/ NativeLibraryRests)
  /\ OrtInit /\ (part = "ort" \/ OrtRuntimeRests)
  /\ BoundaryInit /\ (part = "boundary" \/ BoundaryRests)
  /\ RecognizerInit /\ (part = "recognizer" \/ RecognizerRests)
  /\ PythonInit

MCNext ==
  /\ UNCHANGED part
  /\ \/ /\ part = "wave" /\ Next
        /\ UNCHANGED <<cliVars, nativeVars, ortVars, boundaryVars, recognizerVars, pyVars>>
     \/ /\ part = "cli" /\ CliNext
        /\ UNCHANGED <<vars, nativeVars, ortVars, boundaryVars, recognizerVars, pyVars>>
     \/ /\ part = "native" /\ NativeNext
        /\ UNCHANGED <<vars, cliVars, ortVars, boundaryVars, recognizerVars, pyVars>>
     \/ /\ part = "ort" /\ OrtNext
        /\ UNCHANGED <<vars, cliVars, nativeVars, boundaryVars, recognizerVars, pyVars>>
     \/ /\ part = "boundary" /\ BoundaryNext
        /\ UNCHANGED <<vars, cliVars, nativeVars, ortVars, recognizerVars, pyVars>>
     \/ /\ part = "recognizer" /\ RecognizerNext
        /\ UNCHANGED <<vars, cliVars, nativeVars, ortVars, boundaryVars, pyVars>>
     \/ /\ part = "python" /\ PythonNext
        /\ UNCHANGED <<vars, cliVars, nativeVars, ortVars, boundaryVars, recognizerVars>>

MCVars == <<part, vars, cliVars, nativeVars, ortVars, boundaryVars, recognizerVars, pyVars>>
MCSpec == MCInit /\ [][MCNext]_MCVars
=============================================================================
