------------------------------ MODULE WaveFile ------------------------------
(***************************************************************************)
(* Synthesis to a wave file (synthesize_to_file and the wave writer).  The *)
(* audio is collected and encoded in memory, written to a temporary file   *)
(* beside the target and renamed over it.  Several calls, of several       *)
(* processes, may write to the same target; every step of the file system  *)
(* may fail, and a process may be killed between any two steps.  The name  *)
(* of a temporary file is the process id and a counter of the process, so  *)
(* processes that do not see each other's ids can come up with the same.   *)
(***************************************************************************)
EXTENDS Naturals

CONSTANTS
  Writer,      (* calls that write a file                                  *)
  Process,     (* processes that make them                                 *)
  Pid,         (* the ids they may have, alike or not                      *)
  MaxCrashes,  (* bound: processes killed                                  *)
  MaxCounter,  (* bound: temporary names one process life uses             *)
  Old,         (* what the target held before                              *)
  Absent       (* no such file                                             *)

ASSUME BoundAssumption == MaxCrashes \in Nat /\ MaxCounter \in Nat

VARIABLES
  target,    (* the contents of the target                                 *)
  temp,      (* the contents of each temporary file                        *)
  stage,     (* where each call is                                         *)
  home,      (* the process a call runs in                                 *)
  name,      (* the temporary name it uses                                 *)
  pid,       (* each process's id                                          *)
  counter,   (* TEMP_FILE_COUNTER of each process                          *)
  crashes    (* processes killed so far                                    *)

vars == <<target, temp, stage, home, name, pid, counter, crashes>>

Name == Pid \X (0..MaxCounter)
Audio == [of : Writer, whole : BOOLEAN]
ASSUME FileAssumption == Old \notin Audio /\ Absent \notin Audio
Part(w) == [of |-> w, whole |-> FALSE]
Whole(w) == [of |-> w, whole |-> TRUE]
Running == {"speaking", "encoded", "named", "writing", "written"}

Init ==
  /\ target \in {Old, Absent}
  /\ temp = [n \in Name |-> Absent]
  /\ stage = [w \in Writer |-> "idle"]
  /\ home \in [Writer -> Process]
  /\ pid \in [Process -> Pid]
  /\ name = [w \in Writer |-> <<pid[home[w]], 0>>]
  /\ counter = [p \in Process |-> 0]
  /\ crashes = 0

Goto(w, place) == stage' = [stage EXCEPT ![w] = place]

-----------------------------------------------------------------------------
Begin(w) ==
  /\ stage[w] = "idle"
  /\ Goto(w, "speaking")
  /\ UNCHANGED <<target, temp, home, name, pid, counter, crashes>>

(* Every chunk is collected and encoded before a file is touched. *)
Encode(w) ==
  /\ stage[w] = "speaking"
  /\ Goto(w, "encoded")
  /\ UNCHANGED <<target, temp, home, name, pid, counter, crashes>>

(* A chunk is an error, there is no audio, or the format is unsupported. *)
EncodeFails(w) ==
  /\ stage[w] = "speaking"
  /\ Goto(w, "failed")
  /\ UNCHANGED <<target, temp, home, name, pid, counter, crashes>>

(* temp_sibling_path: fetch_add hands every call of a process its own.     *)
NameTemp(w) ==
  /\ stage[w] = "encoded"
  /\ counter[home[w]] <= MaxCounter
  /\ name' = [name EXCEPT ![w] = <<pid[home[w]], counter[home[w]]>>]
  /\ counter' = [counter EXCEPT ![home[w]] = @ + 1]
  /\ Goto(w, "named")
  /\ UNCHANGED <<target, temp, home, pid, crashes>>

(* Variant for the mutation runs: an existing file is truncated.           *)
CreateOrTruncate(w) ==
  /\ stage[w] = "named"
  /\ temp' = [temp EXCEPT ![name[w]] = Part(w)]
  /\ Goto(w, "writing")
  /\ UNCHANGED <<target, home, name, pid, counter, crashes>>

(* create_new: the file must not exist.                                    *)
CreateTemp(w) ==
  /\ stage[w] = "named"
  /\ temp[name[w]] = Absent
  /\ temp' = [temp EXCEPT ![name[w]] = Part(w)]
  /\ Goto(w, "writing")
  /\ UNCHANGED <<target, home, name, pid, counter, crashes>>

(* It exists, or the directory does not or cannot be written. *)
CreateFails(w) ==
  /\ stage[w] = "named"
  /\ Goto(w, "failed")
  /\ UNCHANGED <<target, temp, home, name, pid, counter, crashes>>

Write(w) ==
  /\ stage[w] = "writing"
  /\ temp' = [temp EXCEPT ![name[w]] = Whole(w)]
  /\ Goto(w, "written")
  /\ UNCHANGED <<target, home, name, pid, counter, crashes>>

(* The temporary file is removed, if that works; the result is ignored.    *)
TryRemove(w) ==
  \E rest \in {temp[name[w]], Absent} : temp' = [temp EXCEPT ![name[w]] = rest]

WriteFails(w) ==
  /\ stage[w] = "writing"
  /\ TryRemove(w)
  /\ Goto(w, "failed")
  /\ UNCHANGED <<target, home, name, pid, counter, crashes>>

Rename(w) ==
  /\ stage[w] = "written"
  /\ target' = temp[name[w]]
  /\ temp' = [temp EXCEPT ![name[w]] = Absent]
  /\ Goto(w, "ok")
  /\ UNCHANGED <<home, name, pid, counter, crashes>>

RenameFails(w) ==
  /\ stage[w] = "written"
  /\ TryRemove(w)
  /\ Goto(w, "failed")
  /\ UNCHANGED <<target, home, name, pid, counter, crashes>>

(* The process is killed, and another takes its place, under any id.       *)
Crash(p) ==
  /\ crashes < MaxCrashes
  /\ crashes' = crashes + 1
  /\ stage' = [w \in Writer |->
                 IF home[w] = p /\ stage[w] \in Running THEN "killed" ELSE stage[w]]
  /\ counter' = [counter EXCEPT ![p] = 0]
  /\ \E i \in Pid : pid' = [pid EXCEPT ![p] = i]
  /\ UNCHANGED <<target, temp, home, name>>

Next ==
  \/ \E w \in Writer :
       \/ Begin(w) \/ Encode(w) \/ EncodeFails(w)
       \/ NameTemp(w) \/ CreateTemp(w) \/ CreateFails(w)
       \/ Write(w) \/ WriteFails(w)
       \/ Rename(w) \/ RenameFails(w)
  \/ \E p \in Process : Crash(p)

Spec == Init /\ [][Next]_vars

-----------------------------------------------------------------------------
(* Properties.                                                             *)

TypeOK ==
  /\ target \in Audio \cup {Old, Absent}
  /\ temp \in [Name -> Audio \cup {Absent}]
  /\ stage \in [Writer -> Running \cup {"idle", "ok", "failed", "killed"}]
  /\ home \in [Writer -> Process]
  /\ name \in [Writer -> Name]
  /\ pid \in [Process -> Pid]
  /\ counter \in [Process -> 0..(MaxCounter + 1)]
  /\ crashes \in 0..MaxCrashes

(* The target only ever changes to the whole audio of a call that returns  *)
(* Ok by that very step: never to part of a file, to nothing, or to audio  *)
(* of another call, whoever failed or was killed before.                   *)
TargetIsWhole ==
  [][target' # target =>
       \E w \in Writer : target' = Whole(w) /\ stage[w] # "ok" /\ stage'[w] = "ok"]_vars

(* What TargetIsWhole rests on: a call that is writing, or about to        *)
(* rename, has its temporary file to itself, whatever ids coincide.        *)
TempIsItsOwn ==
  \A w \in Writer : stage[w] \in {"writing", "written"} =>
    temp[name[w]] = IF stage[w] = "writing" THEN Part(w) ELSE Whole(w)
=============================================================================
