---------------------------- MODULE NativeLibrary ----------------------------
(***************************************************************************)
(* The native library of the Java binding.  Every process extracts the     *)
(* library that its jar carries to a directory shared by all processes of  *)
(* the user, under a name that contains the hash of its content, and loads *)
(* it from there.  A file that is there and has the right content is used  *)
(* as it is; otherwise a new one is written beside it and moved over it.   *)
(* A process may be killed, and a step may fail, at any time.              *)
(***************************************************************************)
EXTENDS Naturals, FiniteSets

CONSTANTS
  Jvm,         (* processes                                                *)
  Release,     (* versions of the library                                  *)
  MaxKills     (* bound: processes killed                                  *)

ASSUME KillAssumption == MaxKills \in Nat

VARIABLES
  carries,     (* the release each process carries in its jar              *)
  overridden,  (* whether dengjen.native.library.path is set for it        *)
  atomicMoves, (* whether the file system moves files atomically           *)
  libraryFile, (* the file named after each release: missing, torn, whole  *)
  partialFile, (* the temporary file of each process                       *)
  jvmAt,       (* where each process is                                    *)
  linked,      (* what a process has loaded                                *)
  kills        (* processes killed so far                                  *)

jvmInput == <<carries, overridden, atomicMoves>>
nativeVars == <<jvmInput, libraryFile, partialFile, jvmAt, linked, kills>>

State == {"missing", "torn", "whole"}

NativeInit ==
  /\ carries \in [Jvm -> Release]
  /\ overridden \in [Jvm -> BOOLEAN]
  /\ atomicMoves \in BOOLEAN
  /\ libraryFile \in [Release -> State]
  /\ partialFile = [p \in Jvm |-> "missing"]
  /\ jvmAt = [p \in Jvm |-> "starting"]
  /\ linked = [p \in Jvm |-> "nothing"]
  /\ kills = 0

Target(p) == libraryFile[carries[p]]
Comes(p, from, to) == jvmAt[p] = from /\ jvmAt' = [jvmAt EXCEPT ![p] = to]

-----------------------------------------------------------------------------
(* load: the property names a library to use instead. *)
LoadOverride(p) ==
  /\ overridden[p]
  /\ \E end \in {"linked", "failed"} : Comes(p, "starting", end)
  /\ UNCHANGED <<jvmInput, libraryFile, partialFile, linked, kills>>

(* The platform is unknown, the jar has no library for it, the directory   *)
(* cannot be made or is not private to the user.                           *)
StartFails(p) ==
  /\ ~overridden[p]
  /\ Comes(p, "starting", "failed")
  /\ UNCHANGED <<jvmInput, libraryFile, partialFile, linked, kills>>

-----------------------------------------------------------------------------
(* extractResource.                                                        *)

(* Variant for the mutation runs: any regular file will do.                *)
FindExisting(p) ==
  /\ ~overridden[p]
  /\ Target(p) # "missing"
  /\ Comes(p, "starting", "extracted")
  /\ UNCHANGED <<jvmInput, libraryFile, partialFile, linked, kills>>

(* The file is there, and its content has the hash of its name. *)
FindWhole(p) ==
  /\ ~overridden[p]
  /\ Target(p) = "whole"
  /\ Comes(p, "starting", "extracted")
  /\ UNCHANGED <<jvmInput, libraryFile, partialFile, linked, kills>>

(* createTempFile: a name nobody else has. *)
CreatePartial(p) ==
  /\ ~overridden[p]
  /\ Target(p) # "whole"
  /\ Comes(p, "starting", "writing")
  /\ partialFile' = [partialFile EXCEPT ![p] = "torn"]
  /\ UNCHANGED <<jvmInput, libraryFile, linked, kills>>

WritePartial(p) ==
  /\ Comes(p, "writing", "moving")
  /\ partialFile' = [partialFile EXCEPT ![p] = "whole"]
  /\ UNCHANGED <<jvmInput, libraryFile, linked, kills>>

(* moveIntoPlace. *)
MoveAtomically(p) ==
  /\ atomicMoves
  /\ Comes(p, "moving", "extracted")
  /\ libraryFile' = [libraryFile EXCEPT ![carries[p]] = partialFile[p]]
  /\ partialFile' = [partialFile EXCEPT ![p] = "missing"]
  /\ UNCHANGED <<jvmInput, linked, kills>>

(* Without atomic moves the target is removed, copied and, at the end, the *)
(* partial file removed.                                                   *)
MoveRemoves(p) ==
  /\ ~atomicMoves
  /\ Comes(p, "moving", "copying")
  /\ libraryFile' = [libraryFile EXCEPT ![carries[p]] = "missing"]
  /\ UNCHANGED <<jvmInput, partialFile, linked, kills>>

MoveCopies(p) ==
  /\ jvmAt[p] = "copying"
  /\ \/ /\ Target(p) # "torn"
        /\ libraryFile' = [libraryFile EXCEPT ![carries[p]] = "torn"]
        /\ UNCHANGED <<partialFile, jvmAt>>
     \/ /\ Target(p) = "torn"
        /\ libraryFile' = [libraryFile EXCEPT ![carries[p]] = partialFile[p]]
        /\ partialFile' = [partialFile EXCEPT ![p] = "missing"]
        /\ Comes(p, "copying", "extracted")
  /\ UNCHANGED <<jvmInput, linked, kills>>

(* Writing or moving fails, the latter too if the system keeps a loaded    *)
(* library from being replaced; the partial file is removed if it can be.  *)
ExtractFails(p) ==
  /\ jvmAt[p] \in {"writing", "moving", "copying"}
  /\ Comes(p, jvmAt[p], "failed")
  /\ \E rest \in {partialFile[p], "missing"} :
       partialFile' = [partialFile EXCEPT ![p] = rest]
  /\ UNCHANGED <<jvmInput, libraryFile, linked, kills>>

(* libraryLookup of the extracted file. *)
Link(p) ==
  /\ jvmAt[p] = "extracted"
  /\ Comes(p, "extracted", IF Target(p) = "missing" THEN "failed" ELSE "linked")
  /\ linked' = [linked EXCEPT ![p] = IF Target(p) = "missing" THEN @ ELSE Target(p)]
  /\ UNCHANGED <<jvmInput, libraryFile, partialFile, kills>>

Kill(p) ==
  /\ kills < MaxKills
  /\ jvmAt[p] \notin {"linked", "failed", "killed"}
  /\ Comes(p, jvmAt[p], "killed")
  /\ kills' = kills + 1
  /\ UNCHANGED <<jvmInput, libraryFile, partialFile, linked>>

NativeNext ==
  \E p \in Jvm :
    \/ LoadOverride(p) \/ StartFails(p) \/ FindWhole(p) \/ CreatePartial(p)
    \/ WritePartial(p) \/ MoveAtomically(p) \/ MoveRemoves(p) \/ MoveCopies(p)
    \/ ExtractFails(p) \/ Link(p) \/ Kill(p)

NativeSpec == NativeInit /\ [][NativeNext]_nativeVars

-----------------------------------------------------------------------------
(* Properties.                                                             *)

NativeTypeOK ==
  /\ carries \in [Jvm -> Release] /\ atomicMoves \in BOOLEAN
  /\ libraryFile \in [Release -> State] /\ partialFile \in [Jvm -> State]
  /\ jvmAt \in [Jvm -> {"starting", "writing", "moving", "copying", "extracted",
                         "linked", "failed", "killed"}]
  /\ linked \in [Jvm -> State \cup {"nothing"}]

(* No process links a torn library, whoever was killed while writing it:   *)
(* where moves are atomic a checked file stays whole until it is linked,   *)
(* and where they are not only a process of the same release that is       *)
(* moving, or was killed or failed in the middle of that, can tear it.     *)
LinkedLibraryIsWhole ==
  \A p \in Jvm :
    /\ atomicMoves => linked[p] \in {"nothing", "whole"}
    /\ atomicMoves /\ jvmAt[p] = "extracted" => Target(p) = "whole"
    /\ linked[p] = "torn" =>
         \E q \in Jvm \ {p} : carries[q] = carries[p] /\ jvmAt[q] # "starting"
=============================================================================
