--------------------------- MODULE ProcessesProofs ---------------------------
(***************************************************************************)
(* The parts that share something with other threads, other calls or other *)
(* processes: files being written, the native library a JVM links, the ONNX*)
(* Runtime that is loaded once, a call that crosses the C boundary, the    *)
(* speech recognizer, Python objects used by several threads, and the      *)
(* requests of the command line.  Every part has an inductive invariant of *)
(* its own and a theorem that follows from it.                             *)
(***************************************************************************)
EXTENDS NativeLibrary, OrtRuntime, CallBoundary, SpeechRecognizer, PythonVoice, WaveFile,
        CommandLine, FiniteSetTheorems, TLAPS

(* Who is inside set_ort_dylib_path or init_ort_environment has the lock;  *)
(* what was looked up before a step is still so at the step; and a runtime *)
(* that was loaded came from the path that is set.                         *)
Inside(c) == ortAt[c] \in Setting \cup {"initialising", "committing"}

LookedUp(c) ==
  /\ ortAt[c] \in {"setPathFree", "setMayStore"} => dylibPath = Unset
  /\ ortAt[c] \in {"setMayStore", "committing"} => environment = NotYet
  /\ ortAt[c] = "committing" => arg[c] = dylibPath

OrtInv ==
  /\ OrtTypeOK
  /\ \A c \in Caller : Inside(c) <=> ortLock = c
  /\ \A c \in Caller : LookedUp(c)
  /\ \A c \in Caller : ortAt[c] \in {"set"} \cup Setting => arg[c] \in Path
  /\ \A c \in Caller : monitor = c => ortAt[c] \in {"set"} \cup Setting /\ arg[c] = property
  /\ environment # NotYet => environment.path = dylibPath
  /\ promised \subseteq {dylibPath}
  /\ configured => property \in promised

LEMMA OrtInvInit == OrtInit => OrtInv
<1> SUFFICES ASSUME OrtInit PROVE OrtInv
  OBVIOUS
<1> USE PathAssumption, CallerAssumption DEF OrtInit
<1>1. OrtTypeOK
  <2>1. environment \in [path : Path \cup {Unset}, outcome : {"none", "ok", "failed"}]
    BY DEF NotYet
  <2>2. ortAt \in [Caller -> Setting \cup {"idle", "set", "load", "initialising", "committing"}]
    OBVIOUS
  <2>3. arg \in [Caller -> Path \cup {Unset}] /\ calls \in [Caller -> 0..MaxCalls]
    OBVIOUS
  <2>4. QED
    BY <2>1, <2>2, <2>3 DEF OrtTypeOK
<1>2. \A c \in Caller : ortAt[c] = "idle" /\ ortLock # c /\ monitor # c
  BY DEF Nobody
<1>3. QED
  BY <1>1, <1>2 DEF OrtInv, Inside, LookedUp, Setting

(* A call begins.                                                          *)
LEMMA OrtBegins ==
  ASSUME OrtInv, NEW c \in Caller, CallSet(c) \/ CallLoad(c) \/ CallJavaLoad(c)
  PROVE  OrtInv'
<1> USE PathAssumption, CallerAssumption DEF Setting
<1>1. PICK place \in {"set", "load"}, path \in Path \cup {Unset} :
        /\ NewCall(c, place, path)
        /\ place = "set" => path \in Path
        /\ \/ monitor' = monitor
           \/ monitor = Nobody /\ monitor' = c /\ place = "set" /\ path = property
  <2>1. CASE CallSet(c) \/ CallLoad(c)
    BY <2>1 DEF CallSet, CallLoad, javaVars
  <2>2. CASE CallJavaLoad(c)
    BY <2>2 DEF CallJavaLoad, OrtInv, OrtTypeOK
  <2>3. QED
    BY <2>1, <2>2
<1>2. UNCHANGED <<property, configured, ortLock, dylibPath, environment, promised>>
  BY DEF CallSet, CallLoad, CallJavaLoad, javaVars
<1>3. /\ ortAt[c] = "idle"
      /\ \A d \in Caller : ortAt'[d] = IF d = c THEN place ELSE ortAt[d]
      /\ \A d \in Caller : arg'[d] = IF d = c THEN path ELSE arg[d]
      /\ calls' \in [Caller -> 0..MaxCalls]
  BY <1>1 DEF NewCall, Steps, OrtInv, OrtTypeOK
<1>4. OrtTypeOK'
  BY <1>1, <1>2, <1>3 DEF NewCall, Steps, OrtInv, OrtTypeOK
<1>5. \A d \in Caller : Inside(d)' <=> ortLock' = d
  BY <1>2, <1>3 DEF OrtInv, Inside
<1>6. \A d \in Caller : LookedUp(d)'
  BY <1>2, <1>3 DEF OrtInv, LookedUp
<1>7. \A d \in Caller : ortAt'[d] \in {"set"} \cup Setting => arg'[d] \in Path
  BY <1>1, <1>3 DEF OrtInv
<1>8. \A d \in Caller : monitor' = d => ortAt'[d] \in {"set"} \cup Setting /\ arg'[d] = property
  BY <1>1, <1>3 DEF OrtInv
<1>9. QED
  BY <1>2, <1>4, <1>5, <1>6, <1>7, <1>8 DEF OrtInv

(* A step of the call that has the lock, or takes it, and keeps it.        *)
LEMMA OrtHolds ==
  ASSUME OrtInv, NEW c \in Caller,
         \/ SetLocks(c) \/ SetFindsNoPath(c) \/ SetInTime(c)
         \/ LoadLocks(c) \/ LoadLooksUpPath(c)
  PROVE  OrtInv'
<1> USE PathAssumption, CallerAssumption DEF Setting
<1>1. PICK to \in Setting \cup {"initialising", "committing"} :
        /\ ortAt' = [ortAt EXCEPT ![c] = to]
        /\ ortLock' = c
        /\ ortAt[c] \in {"set"} \cup Setting <=> to \in Setting
        /\ to \in {"setPathFree", "setMayStore"} => dylibPath = Unset
        /\ to \in {"setMayStore", "committing"} => environment = NotYet
  <2>1. CASE SetLocks(c) \/ LoadLocks(c)
    BY <2>1 DEF SetLocks, LoadLocks, Steps
  <2>2. CASE SetFindsNoPath(c)
    BY <2>2 DEF SetFindsNoPath, Steps, OrtInv, Inside
  <2>3. CASE SetInTime(c)
    BY <2>3 DEF SetInTime, Steps, OrtInv, Inside, LookedUp
  <2>4. CASE LoadLooksUpPath(c)
    BY <2>4 DEF LoadLooksUpPath, Steps, OrtInv, Inside
  <2>5. QED
    BY <2>1, <2>2, <2>3, <2>4
<1>2. /\ UNCHANGED <<javaVars, dylibPath, environment, calls, promised>>
      /\ arg' = [arg EXCEPT ![c] = IF to = "committing" THEN dylibPath ELSE arg[c]]
  <2>1. CASE LoadLooksUpPath(c)
    BY <1>1, <2>1 DEF LoadLooksUpPath, Steps, OrtInv, OrtTypeOK
  <2>2. CASE ~LoadLooksUpPath(c)
    BY <1>1, <2>2 DEF SetLocks, SetFindsNoPath, SetInTime, LoadLocks, Steps, OrtInv, OrtTypeOK
  <2>3. QED
    BY <2>1, <2>2
<1>3. /\ \A d \in Caller : ortAt'[d] = IF d = c THEN to ELSE ortAt[d]
      /\ \A d \in Caller : arg'[d] = IF d = c /\ to = "committing" THEN dylibPath ELSE arg[d]
  BY <1>1, <1>2 DEF OrtInv, OrtTypeOK
<1>4. \A d \in Caller : d # c => ~Inside(d)
  BY DEF SetLocks, SetFindsNoPath, SetInTime, LoadLocks, LoadLooksUpPath, Steps,
         OrtInv, Inside, Nobody
<1>5. OrtTypeOK'
  BY <1>1, <1>2, <1>3 DEF OrtInv, OrtTypeOK, javaVars
<1>6. \A d \in Caller : Inside(d)' <=> ortLock' = d
  BY <1>1, <1>3, <1>4 DEF Inside
<1>7. \A d \in Caller : LookedUp(d)'
  BY <1>1, <1>2, <1>3, <1>4 DEF OrtInv, LookedUp, Inside
<1>8. \A d \in Caller : ortAt'[d] \in {"set"} \cup Setting => arg'[d] \in Path
  BY <1>1, <1>3 DEF OrtInv
<1>9. \A d \in Caller : monitor' = d => ortAt'[d] \in {"set"} \cup Setting /\ arg'[d] = property'
  BY <1>1, <1>2, <1>3 DEF OrtInv, javaVars
<1>10. QED
  BY <1>2, <1>5, <1>6, <1>7, <1>8, <1>9 DEF OrtInv, javaVars

(* set_ort_dylib_path returns.                                             *)
LEMMA OrtReports ==
  ASSUME OrtInv, NEW c \in Caller, SetFindsPath(c) \/ SetTooLate(c) \/ SetStores(c)
  PROVE  OrtInv'
<1> USE PathAssumption, CallerAssumption DEF Setting
<1>1. PICK ok \in BOOLEAN :
        /\ Reports(c, ok)
        /\ ok => dylibPath' = arg[c]
        /\ dylibPath' # dylibPath => environment = NotYet /\ dylibPath = Unset /\ ok
  <2>1. CASE SetFindsPath(c)
    BY <2>1 DEF SetFindsPath
  <2>2. CASE SetTooLate(c)
    BY <2>2 DEF SetTooLate
  <2>3. CASE SetStores(c)
    <3>1. environment = NotYet /\ dylibPath = Unset
      BY <2>3 DEF SetStores, OrtInv, LookedUp
    <3>2. QED
      BY <2>3, <3>1 DEF SetStores
  <2>4. QED
    BY <2>1, <2>2, <2>3
<1>2. /\ ortAt[c] \in Setting /\ ortLock = c /\ arg[c] \in Path
      /\ \A d \in Caller : d # c => ~Inside(d)
  BY DEF SetFindsPath, SetTooLate, SetStores, OrtInv, Inside
<1>3. UNCHANGED <<property, environment, arg, calls>> /\ ortLock' = Nobody
  BY <1>1 DEF Reports
<1>4. PICK to \in {"load", "idle"} : ortAt' = [ortAt EXCEPT ![c] = to]
  BY <1>1 DEF Reports
<1>5. \A d \in Caller : ortAt'[d] = IF d = c THEN to ELSE ortAt[d]
  BY <1>4 DEF OrtInv, OrtTypeOK
<1>6. promised' = IF ok THEN promised \cup {arg[c]} ELSE promised
  BY <1>1 DEF Reports
<1>7. dylibPath' \in Path \cup {Unset} /\ (dylibPath # Unset => dylibPath' = dylibPath)
  BY <1>1, <1>2 DEF OrtInv, OrtTypeOK
<1>8. promised' \subseteq Path /\ promised' \subseteq {dylibPath'}
  <2>1. promised \subseteq Path /\ promised \subseteq {dylibPath}
    BY DEF OrtInv, OrtTypeOK
  <2>2. dylibPath' # dylibPath => promised = {}
    BY <1>1, <2>1
  <2>3. QED
    BY <1>1, <1>2, <1>6, <2>1, <2>2
<1>9. /\ monitor' \in Caller \cup {Nobody} /\ configured' \in BOOLEAN
      /\ \A d \in Caller : monitor' = d => monitor = d /\ d # c
      /\ configured' => property \in promised'
  <2>1. configured => property \in promised
    BY DEF OrtInv
  <2>2. CASE monitor = c
    <3>1. monitor' = Nobody /\ configured' = ok /\ arg[c] = property
      BY <1>1, <2>2 DEF Reports, OrtInv
    <3>2. QED
      BY <1>6, <3>1
  <2>3. CASE monitor # c
    <3>1. monitor' = monitor /\ configured' = configured
      BY <1>1, <2>3 DEF Reports
    <3>2. QED
      BY <1>6, <2>1, <2>3, <3>1 DEF OrtInv, OrtTypeOK
  <2>4. QED
    BY <2>2, <2>3
<1>10. OrtTypeOK'
  BY <1>3, <1>4, <1>5, <1>7, <1>8, <1>9 DEF OrtInv, OrtTypeOK
<1>11. \A d \in Caller : Inside(d)' <=> ortLock' = d
  BY <1>2, <1>3, <1>5 DEF Inside, Nobody
<1>12. \A d \in Caller : LookedUp(d)'
  BY <1>2, <1>5 DEF LookedUp, Inside
<1>13. \A d \in Caller : ortAt'[d] \in {"set"} \cup Setting => arg'[d] \in Path
  BY <1>3, <1>5 DEF OrtInv
<1>14. \A d \in Caller : monitor' = d => ortAt'[d] \in {"set"} \cup Setting /\ arg'[d] = property'
  BY <1>3, <1>5, <1>9 DEF OrtInv
<1>15. environment' # NotYet => environment'.path = dylibPath'
  BY <1>1, <1>3 DEF OrtInv
<1>16. QED
  BY <1>3, <1>8, <1>9, <1>10, <1>11, <1>12, <1>13, <1>14, <1>15 DEF OrtInv

(* init_ort_environment returns, with the outcome kept for good.           *)
LEMMA OrtLoads ==
  ASSUME OrtInv, NEW c \in Caller, LoadFindsOutcome(c) \/ LoadCommits(c)
  PROVE  OrtInv'
<1> USE PathAssumption, CallerAssumption DEF Setting
<1>1. /\ ortAt[c] \in {"initialising", "committing"} /\ ortAt' = [ortAt EXCEPT ![c] = "idle"]
      /\ ortLock' = Nobody
      /\ UNCHANGED <<javaVars, dylibPath, arg, calls, promised>>
  BY DEF LoadFindsOutcome, LoadCommits, Steps
<1>2. \A d \in Caller : ortAt'[d] = IF d = c THEN "idle" ELSE ortAt[d]
  BY <1>1 DEF OrtInv, OrtTypeOK
<1>3. \A d \in Caller : d # c => ~Inside(d)
  BY <1>1 DEF OrtInv, Inside
<1>4. /\ environment' \in [path : Path \cup {Unset}, outcome : {"none", "ok", "failed"}]
      /\ environment' # NotYet => environment'.path = dylibPath
  <2>1. CASE LoadFindsOutcome(c)
    BY <2>1 DEF LoadFindsOutcome, OrtInv, OrtTypeOK
  <2>2. CASE LoadCommits(c)
    <3>1. arg[c] = dylibPath /\ arg[c] \in Path \cup {Unset}
      BY <2>2 DEF LoadCommits, Steps, OrtInv, OrtTypeOK, LookedUp
    <3>2. PICK outcome \in {"ok", "failed"} : environment' = [path |-> arg[c], outcome |-> outcome]
      BY <2>2 DEF LoadCommits
    <3>3. QED
      BY <3>1, <3>2
  <2>3. QED
    BY <2>1, <2>2
<1>5. OrtTypeOK'
  BY <1>1, <1>2, <1>4 DEF OrtInv, OrtTypeOK, javaVars
<1>6. \A d \in Caller : Inside(d)' <=> ortLock' = d
  BY <1>1, <1>2, <1>3 DEF Inside, Nobody
<1>7. \A d \in Caller : LookedUp(d)'
  BY <1>2, <1>3 DEF LookedUp, Inside
<1>8. \A d \in Caller : /\ ortAt'[d] \in {"set"} \cup Setting => arg'[d] \in Path
                        /\ monitor' = d => /\ ortAt'[d] \in {"set"} \cup Setting
                                           /\ arg'[d] = property'
  BY <1>1, <1>2 DEF OrtInv, javaVars
<1>9. QED
  BY <1>1, <1>4, <1>5, <1>6, <1>7, <1>8 DEF OrtInv, javaVars

LEMMA OrtInvStep == OrtInv /\ [OrtNext]_ortVars => OrtInv'
<1>1. ASSUME OrtInv, UNCHANGED ortVars PROVE OrtInv'
  BY <1>1 DEF OrtInv, OrtTypeOK, Inside, LookedUp, ortVars, javaVars
<1>2. QED
  BY <1>1, OrtBegins, OrtHolds, OrtReports, OrtLoads DEF OrtNext

(* A path whose setting was reported as a success is the one the runtime   *)
(* comes from, for any number of threads that set paths and load voices at *)
(* any time, from C, Go and Java.                                          *)
THEOREM PromisedRuntimeIsUsed == OrtSpec => []PromisedPathIsUsed
<1>1. OrtInv => PromisedPathIsUsed
  BY DEF OrtInv, PromisedPathIsUsed
<1>2. QED
  BY <1>1, OrtInvInit, OrtInvStep, PTL DEF OrtSpec

-----------------------------------------------------------------------------
(* The native library of the Java binding.                                 *)

(* A file that is moved is whole; where moves are atomic so is the library *)
(* of a process that checked it; and where it is not, another process of   *)
(* the release has begun.                                                  *)
OthersBegan(p) == \E q \in Jvm \ {p} : carries[q] = carries[p] /\ jvmAt[q] # "starting"

NativeInv ==
  /\ NativeTypeOK
  /\ \A p \in Jvm : jvmAt[p] \in {"moving", "copying"} => partialFile[p] = "whole"
  /\ atomicMoves => \A p \in Jvm :
       /\ jvmAt[p] # "copying"
       /\ jvmAt[p] = "extracted" => Target(p) = "whole"
       /\ linked[p] \in {"nothing", "whole"}
  /\ \A p \in Jvm :
       /\ jvmAt[p] = "extracted" => Target(p) = "whole" \/ OthersBegan(p)
       /\ linked[p] = "torn" => OthersBegan(p)

LEMMA NativeInvInit == NativeInit => NativeInv
<1> SUFFICES ASSUME NativeInit PROVE NativeInv
  OBVIOUS
<1>1. NativeTypeOK
  BY DEF NativeInit, NativeTypeOK, State
<1>2. QED
  BY <1>1 DEF NativeInit, NativeInv

(* A process that has begun stays so.                                      *)
LEMMA BegunStays ==
  ASSUME NativeTypeOK, UNCHANGED carries, NEW p \in Jvm, NEW to, to # "starting",
         jvmAt' = [jvmAt EXCEPT ![p] = to]
  PROVE  \A q \in Jvm : OthersBegan(q) => OthersBegan(q)'
  BY DEF NativeTypeOK, OthersBegan

(* A step that leaves the shared files and what is linked alone.           *)
LEMMA NativePrivate ==
  ASSUME NativeInv, NEW p \in Jvm, NEW to,
         to \in {"writing", "moving", "extracted", "linked", "failed", "killed"},
         jvmAt' = [jvmAt EXCEPT ![p] = to],
         UNCHANGED <<jvmInput, libraryFile, linked>>,
         partialFile' \in [Jvm -> State],
         \A q \in Jvm \ {p} : partialFile'[q] = partialFile[q],
         to = "moving" => partialFile'[p] = "whole",
         to = "extracted" => Target(p) = "whole"
  PROVE  NativeInv'
<1>1. \A q \in Jvm : jvmAt'[q] = IF q = p THEN to ELSE jvmAt[q]
  BY DEF NativeInv, NativeTypeOK
<1>2. UNCHANGED <<carries, atomicMoves>> /\ \A q \in Jvm : Target(q)' = Target(q)
  BY DEF jvmInput, Target
<1>3. \A q \in Jvm : OthersBegan(q) => OthersBegan(q)'
  BY <1>2, BegunStays DEF NativeInv
<1>4. NativeTypeOK'
  BY <1>2 DEF NativeInv, NativeTypeOK
<1>5. \A q \in Jvm : jvmAt'[q] \in {"moving", "copying"} => partialFile'[q] = "whole"
  BY <1>1 DEF NativeInv
<1>6. ASSUME NEW q \in Jvm, atomicMoves
      PROVE  /\ jvmAt'[q] # "copying"
             /\ jvmAt'[q] = "extracted" => Target(q) = "whole"
             /\ linked[q] \in {"nothing", "whole"}
  BY <1>1, <1>6 DEF NativeInv
<1>7. ASSUME NEW q \in Jvm
      PROVE  /\ jvmAt'[q] = "extracted" => Target(q) = "whole" \/ OthersBegan(q)'
             /\ linked[q] = "torn" => OthersBegan(q)'
  BY <1>1, <1>3 DEF NativeInv
<1>8. QED
  BY <1>2, <1>4, <1>5, <1>6, <1>7 DEF NativeInv

(* A step that changes the file of the process's own release.              *)
LEMMA NativeReplaces ==
  ASSUME NativeInv, NEW p \in Jvm, NEW to, NEW content \in State,
         to \in {"copying", "extracted"},
         jvmAt' = [jvmAt EXCEPT ![p] = to],
         jvmAt[p] \in {"moving", "copying"},
         libraryFile' = [libraryFile EXCEPT ![carries[p]] = content],
         UNCHANGED <<jvmInput, linked>>,
         partialFile' = IF to = "extracted" THEN [partialFile EXCEPT ![p] = "missing"]
                        ELSE partialFile,
         to = "extracted" => content = "whole",
         atomicMoves => to = "extracted"
  PROVE  NativeInv'
<1>1. /\ \A q \in Jvm : jvmAt'[q] = IF q = p THEN to ELSE jvmAt[q]
      /\ \A q \in Jvm : q # p => partialFile'[q] = partialFile[q]
  BY DEF NativeInv, NativeTypeOK
<1>2. UNCHANGED <<carries, atomicMoves>>
  BY DEF jvmInput
<1>3. \A q \in Jvm : Target(q)' = IF carries[q] = carries[p] THEN content ELSE Target(q)
  BY <1>2 DEF NativeInv, NativeTypeOK, Target
<1>4. \A q \in Jvm : OthersBegan(q) => OthersBegan(q)'
  BY <1>2, BegunStays DEF NativeInv
<1>5. NativeTypeOK'
  BY <1>2 DEF NativeInv, NativeTypeOK, State
<1>6. \A q \in Jvm : jvmAt'[q] \in {"moving", "copying"} => partialFile'[q] = "whole"
  BY <1>1 DEF NativeInv
<1>7. ASSUME NEW q \in Jvm, atomicMoves
      PROVE  /\ jvmAt'[q] # "copying"
             /\ jvmAt'[q] = "extracted" => Target(q)' = "whole"
             /\ linked[q] \in {"nothing", "whole"}
  BY <1>1, <1>3, <1>7 DEF NativeInv
<1>8. ASSUME NEW q \in Jvm
      PROVE  /\ jvmAt'[q] = "extracted" => Target(q)' = "whole" \/ OthersBegan(q)'
             /\ linked[q] = "torn" => OthersBegan(q)'
  <2>1. CASE q = p
    BY <1>1, <1>3, <1>4, <2>1 DEF NativeInv
  <2>2. CASE q # p /\ carries[q] = carries[p]
    BY <1>1, <1>2, <2>2 DEF OthersBegan
  <2>3. CASE q # p /\ carries[q] # carries[p]
    BY <1>1, <1>3, <1>4, <2>3 DEF NativeInv
  <2>4. QED
    BY <2>1, <2>2, <2>3
<1>9. QED
  BY <1>2, <1>5, <1>6, <1>7, <1>8 DEF NativeInv

(* libraryLookup takes what the file has become since it was checked.      *)
LEMMA NativeLinks ==
  ASSUME NativeInv, NEW p \in Jvm, Link(p)
  PROVE  NativeInv'
<1>1. PICK to \in {"failed", "linked"} : jvmAt' = [jvmAt EXCEPT ![p] = to]
  BY DEF Link, Comes
<1>2. /\ jvmAt[p] = "extracted"
      /\ UNCHANGED <<carries, atomicMoves, libraryFile, partialFile>>
      /\ \A q \in Jvm : Target(q)' = Target(q)
  BY DEF Link, jvmInput, Target
<1>3. \A q \in Jvm : /\ jvmAt'[q] = IF q = p THEN to ELSE jvmAt[q]
                     /\ linked'[q] = IF q = p /\ Target(p) # "missing" THEN Target(p) ELSE linked[q]
  BY <1>1 DEF Link, NativeInv, NativeTypeOK
<1>4. \A q \in Jvm : OthersBegan(q) => OthersBegan(q)'
  BY <1>1, <1>2, BegunStays DEF NativeInv
<1>5. NativeTypeOK'
  <2>1. Target(p) \in State
    BY DEF NativeInv, NativeTypeOK, Target
  <2>2. linked' \in [Jvm -> State \cup {"nothing"}]
    BY <2>1 DEF Link, NativeInv, NativeTypeOK
  <2>3. QED
    BY <1>1, <1>2, <2>2 DEF NativeInv, NativeTypeOK
<1>6. \A q \in Jvm : jvmAt'[q] \in {"moving", "copying"} => partialFile'[q] = "whole"
  BY <1>2, <1>3 DEF NativeInv
<1>7. ASSUME NEW q \in Jvm, atomicMoves
      PROVE  /\ jvmAt'[q] # "copying"
             /\ jvmAt'[q] = "extracted" => Target(q)' = "whole"
             /\ linked'[q] \in {"nothing", "whole"}
  BY <1>2, <1>3, <1>7 DEF NativeInv
<1>8. ASSUME NEW q \in Jvm
      PROVE  /\ jvmAt'[q] = "extracted" => Target(q)' = "whole" \/ OthersBegan(q)'
             /\ linked'[q] = "torn" => OthersBegan(q)'
  BY <1>2, <1>3, <1>4 DEF NativeInv
<1>9. QED
  BY <1>2, <1>5, <1>6, <1>7, <1>8 DEF NativeInv

LEMMA NativeInvStep == NativeInv /\ [NativeNext]_nativeVars => NativeInv'
<1> SUFFICES ASSUME NativeInv, [NativeNext]_nativeVars PROVE NativeInv'
  OBVIOUS
<1>1. partialFile \in [Jvm -> State] /\ libraryFile \in [Release -> State] /\ carries \in [Jvm -> Release]
  BY DEF NativeInv, NativeTypeOK
<1>2. ASSUME NEW p \in Jvm, LoadOverride(p) \/ StartFails(p) \/ FindWhole(p) \/ Kill(p)
      PROVE  NativeInv'
  <2>1. PICK to \in {"linked", "failed", "extracted", "killed"} :
          /\ jvmAt' = [jvmAt EXCEPT ![p] = to]
          /\ to = "extracted" => Target(p) = "whole"
    BY <1>2 DEF LoadOverride, StartFails, FindWhole, Kill, Comes
  <2>2. UNCHANGED <<jvmInput, libraryFile, partialFile, linked>>
    BY <1>2 DEF LoadOverride, StartFails, FindWhole, Kill
  <2>3. QED
    BY <1>1, <2>1, <2>2, NativePrivate
<1>3. ASSUME NEW p \in Jvm, CreatePartial(p) \/ WritePartial(p) \/ ExtractFails(p)
      PROVE  NativeInv'
  <2>1. PICK to \in {"writing", "moving", "failed"}, content \in State :
          /\ jvmAt' = [jvmAt EXCEPT ![p] = to]
          /\ partialFile' = [partialFile EXCEPT ![p] = content]
          /\ to = "moving" => content = "whole"
    <3>1. CASE CreatePartial(p)
      BY <3>1 DEF CreatePartial, Comes, State
    <3>2. CASE WritePartial(p)
      BY <3>2 DEF WritePartial, Comes, State
    <3>3. CASE ExtractFails(p)
      BY <1>1, <3>3 DEF ExtractFails, Comes, State
    <3>4. QED
      BY <1>3, <3>1, <3>2, <3>3
  <2>2. UNCHANGED <<jvmInput, libraryFile, linked>>
    BY <1>3 DEF CreatePartial, WritePartial, ExtractFails
  <2>3. QED
    BY <1>1, <2>1, <2>2, NativePrivate
<1>4. ASSUME NEW p \in Jvm, MoveAtomically(p) PROVE NativeInv'
  <2>1. partialFile[p] = "whole" /\ jvmAt[p] = "moving"
    BY <1>4 DEF MoveAtomically, Comes, NativeInv
  <2>2. QED
    BY <1>4, <2>1, NativeReplaces DEF MoveAtomically, Comes, State
<1>5. ASSUME NEW p \in Jvm, MoveRemoves(p) PROVE NativeInv'
  BY <1>5, NativeReplaces DEF MoveRemoves, Comes, State
<1>6. ASSUME NEW p \in Jvm, MoveCopies(p) PROVE NativeInv'
  <2>1. jvmAt[p] = "copying" /\ partialFile[p] = "whole" /\ ~atomicMoves
    BY <1>6 DEF MoveCopies, NativeInv
  <2>2. jvmAt = [jvmAt EXCEPT ![p] = "copying"]
    BY <2>1 DEF NativeInv, NativeTypeOK
  <2>3. CASE jvmAt' = jvmAt
    BY <1>6, <2>1, <2>2, <2>3, NativeReplaces DEF MoveCopies, Comes, State
  <2>4. CASE Comes(p, "copying", "extracted")
    BY <1>6, <2>1, <2>2, <2>4, NativeReplaces DEF MoveCopies, Comes, State
  <2>5. QED
    BY <1>6, <2>3, <2>4 DEF MoveCopies
<1>7. CASE UNCHANGED nativeVars
  BY <1>7 DEF nativeVars, jvmInput, NativeInv, NativeTypeOK, Target, OthersBegan
<1>8. QED
  BY <1>2, <1>3, <1>4, <1>5, <1>6, <1>7, NativeLinks DEF NativeNext

(* No process links a torn library where the file system moves files       *)
(* atomically, and elsewhere only if another process of the same release   *)
(* was at work: for any number of processes, releases and kills.           *)
THEOREM LibraryIsWhole == NativeSpec => []LinkedLibraryIsWhole
<1>1. NativeInv => LinkedLibraryIsWhole
  BY DEF NativeInv, LinkedLibraryIsWhole, OthersBegan
<1>2. QED
  BY <1>1, NativeInvInit, NativeInvStep, PTL DEF NativeSpec

-----------------------------------------------------------------------------
(* One call through the C API.                                             *)

HasText == operation \in WithText
HasConfig == operation = "getDefaultSynthConfig"

(* Which events are still to be told.                                      *)
ErrorEventPending == nativeAt = "calling" /\ eventType = "ERROR"
ErrorReturnPending == hostAt = "back" /\ outError # Success

(* Where host and native side can be at the same time.                     *)
PlacesInv ==
  /\ binding \in {"go", "java"} /\ operation \in Operations /\ blocks \in BOOLEAN
  /\ hostAt \in {"calls", "inside", "back", "reads", "leaves", "done"}
  /\ nativeAt \in {"none", "entered", "streaming", "calling"}
  /\ ~blocks => operation = "speak"
  /\ nativeAt = "entered" => hostAt = "inside"
  /\ hostAt = "inside" => nativeAt # "none"
  /\ nativeAt \in {"streaming", "calling"} =>
       /\ operation = "speak"
       /\ IF blocks THEN hostAt = "inside" ELSE hostAt \in {"back", "reads", "leaves", "done"}

(* What is allocated at each place, by whom it is still to be freed.       *)
BlocksInv ==
  /\ live \in [Blocks -> Int]
  /\ live["arguments"] = IF HasText /\ hostAt \in {"inside", "back", "reads", "leaves"}
                         THEN 1 ELSE 0
  /\ live["message"] = IF ErrorReturnPending THEN 1 ELSE 0
  /\ live["config"] = IF HasConfig /\ hostAt \in {"back", "reads"} /\ outError = Success
                      THEN 1 ELSE 0
  /\ live["event"] = IF nativeAt = "calling" THEN 1 ELSE 0
  /\ borrowed \subseteq (IF HasText /\ hostAt = "inside" THEN {"arguments"} ELSE {})

(* What went wrong is told, or on its way to be.                           *)
ToldInv ==
  /\ outError \in Int /\ eventError \in Int /\ cause \in Int
  /\ told = IF cause = Success \/ ErrorEventPending \/ ErrorReturnPending
            THEN << >> ELSE <<FromCode(cause)>>
  /\ outError # Success =>
       cause = outError /\ nativeAt = "none" /\ hostAt \in {"back", "leaves", "done"}
  /\ ErrorEventPending => cause = eventError /\ cause # Success
  /\ \/ hostAt = "calls" \/ nativeAt \in {"entered", "streaming"}
     \/ nativeAt = "calling" /\ eventType # "ERROR"
     => cause = Success

BoundaryInv == PlacesInv /\ BlocksInv /\ ToldInv

LEMMA BoundaryInvInit == BoundaryInit => BoundaryInv
<1> SUFFICES ASSUME BoundaryInit PROVE BoundaryInv
  OBVIOUS
<1> USE DEF BoundaryInit
<1>1. PlacesInv
  BY DEF PlacesInv
<1>2. BlocksInv
  BY DEF BlocksInv, ErrorReturnPending, Blocks
<1>3. ToldInv
  BY DEF ToldInv, ErrorEventPending, ErrorReturnPending, Success
<1>4. QED
  BY <1>1, <1>2, <1>3 DEF BoundaryInv

(* Every code but 0 is an error, and a code known to the binding is the    *)
(* one it was told under.                                                  *)
LEMMA Codes ==
  /\ \A c \in Categories : CodeOf[c] \in Int \ {Success}
  /\ PANIC \in Int \ {Success} /\ INVALID_UTF8_SEQUENCE \in Int \ {Success}
  /\ INVALID_SYNTHESIS_MODE \in Int \ {Success} /\ UNKNOWN_ERROR \in Int \ {Success}
  BY DEF Categories, CodeOf, PANIC, INVALID_UTF8_SEQUENCE, INVALID_SYNTHESIS_MODE,
         UNKNOWN_ERROR, Success

LEMMA FailsWithCode ==
  ASSUME Fails
  PROVE  /\ hostAt = "inside" /\ nativeAt = "entered"
         /\ \E code \in Int \ {Success} : ReturnsError(code)
<1>1. Failures \subseteq Categories
  BY DEF Failures, Categories
<1>2. Refusals \subseteq Int \ {Success}
  BY Codes DEF Refusals
<1>3. {CodeOf[c] : c \in Failures} \subseteq Int \ {Success}
  BY <1>1, Codes
<1>4. QED
  BY <1>2, <1>3, Codes DEF Fails

LEMMA FromCodeKnown ==
  ASSUME NEW code
  PROVE  FromCode(FromCode(code)) = FromCode(code)
  BY DEF FromCode, KnownCodes

LEMMA ClosedIsError == FromCode(ClosedCode(binding)) \in Int \ {Success}
  BY DEF FromCode, ClosedCode, KnownCodes, INVALID_HANDLE, UNKNOWN_ERROR, Success

(* PlacesInv by itself.                                                    *)
LEMMA PlacesStep == PlacesInv /\ BoundaryNext => PlacesInv'
<1> SUFFICES ASSUME PlacesInv, BoundaryNext PROVE PlacesInv'
  OBVIOUS
<1> USE DEF PlacesInv, callVars
<1>1. CASE VoiceIsClosed \/ Enter
  BY <1>1 DEF VoiceIsClosed, Enter
<1>2. CASE Fails
  <2>1. hostAt' = "back" /\ nativeAt' = "none" /\ UNCHANGED callVars
    BY <1>2 DEF Fails, ReturnsError
  <2>2. QED
    BY <2>1
<1>3. CASE Succeeds \/ SpawnWorker \/ SpeakHere
  BY <1>3 DEF Succeeds, SpawnWorker, SpeakHere
<1>4. CASE DeliverSpeech \/ DeliverFinished \/ DeliverError
  BY <1>4 DEF DeliverSpeech, DeliverFinished, DeliverError, Emit
<1>5. CASE PanicHere
  BY <1>5 DEF PanicHere, ReturnsError
<1>6. CASE CallbackReturns
  BY <1>6 DEF CallbackReturns, JobEnds
<1>7. CASE CheckError \/ ReadResult \/ FreeArguments
  BY <1>7 DEF CheckError, ReadResult, FreeArguments
<1>8. QED
  BY <1>1, <1>2, <1>3, <1>4, <1>5, <1>6, <1>7 DEF BoundaryNext

LEMMA BlocksStep == BoundaryInv /\ BoundaryNext => BlocksInv'
<1> SUFFICES ASSUME BoundaryInv, BoundaryNext PROVE BlocksInv'
  OBVIOUS
<1> USE DEF BoundaryInv, PlacesInv, BlocksInv, Blocks, HasText, HasConfig,
            ErrorReturnPending, callVars
<1>1. CASE VoiceIsClosed
  BY <1>1 DEF VoiceIsClosed
<1>2. CASE Enter
  BY <1>2 DEF Enter, Allocated, ToldInv
<1>3. ASSUME NEW code \in Int \ {Success}, ReturnsError(code), hostAt = "inside", nativeAt # "calling"
      PROVE  BlocksInv'
  BY <1>3 DEF ReturnsError, Allocated, ToldInv
<1>4. CASE Fails
  BY <1>3, <1>4, FailsWithCode
<1>5. CASE Succeeds
  BY <1>5 DEF Succeeds, Allocated, ToldInv
<1>6. CASE SpawnWorker \/ SpeakHere
  BY <1>6 DEF SpawnWorker, SpeakHere, ToldInv
<1>7. CASE DeliverSpeech \/ DeliverFinished \/ DeliverError
  <2>1. /\ nativeAt = "streaming" /\ nativeAt' = "calling"
        /\ live' = [live EXCEPT !["event"] = @ + 1]
        /\ UNCHANGED <<callVars, hostAt, borrowed, outError>>
    BY <1>7 DEF DeliverSpeech, DeliverFinished, DeliverError, Emit, Allocated
  <2>2. QED
    BY <2>1
<1>8. CASE PanicHere
  BY <1>3, <1>8, Codes DEF PanicHere
<1>9. CASE CallbackReturns
  <2>1. /\ nativeAt = "calling" /\ nativeAt' \in {"streaming", "none"}
        /\ live' = [live EXCEPT !["event"] = @ - 1]
        /\ UNCHANGED <<callVars, outError>> /\ outError = Success
        /\ \/ nativeAt' = "streaming" /\ UNCHANGED <<hostAt, borrowed>>
           \/ borrowed' = {} /\ hostAt' = IF blocks THEN "back" ELSE hostAt
    BY <1>9 DEF CallbackReturns, JobEnds, Freed, ToldInv
  <2>2. operation = "speak" /\ (blocks => hostAt = "inside")
    BY <2>1
  <2>3. live' \in [Blocks -> Int] /\ live'["event"] = 0
    BY <2>1
  <2>4. \A b \in Blocks \ {"event"} : live'[b] = live[b]
    BY <2>1
  <2>5. ~HasConfig
    BY <2>2
  <2>6. QED
    BY <2>1, <2>2, <2>3, <2>4, <2>5
<1>10. CASE CheckError
  BY <1>10 DEF CheckError, Freed, ToldInv
<1>11. CASE ReadResult
  BY <1>11 DEF ReadResult, Freed, ToldInv
<1>12. CASE FreeArguments
  BY <1>12 DEF FreeArguments, Freed
<1>13. QED
  BY <1>1, <1>2, <1>4, <1>5, <1>6, <1>7, <1>8, <1>9, <1>10, <1>11, <1>12 DEF BoundaryNext

LEMMA FirstTold == ASSUME NEW code PROVE Append(<< >>, code) = <<code>>
  OBVIOUS

LEMMA ToldStep == BoundaryInv /\ BoundaryNext => ToldInv'
<1> SUFFICES ASSUME BoundaryInv, BoundaryNext PROVE ToldInv'
  OBVIOUS
<1> USE DEF BoundaryInv, PlacesInv, ToldInv, ErrorEventPending, ErrorReturnPending,
            callVars, eventVars
<1>1. CASE VoiceIsClosed
  <2>1. cause' = FromCode(ClosedCode(binding)) /\ told' = Append(told, FromCode(ClosedCode(binding)))
    BY <1>1 DEF VoiceIsClosed, Tell
  <2>2. told = << >> /\ hostAt' = "done" /\ UNCHANGED <<nativeAt, outError, eventType, eventError>>
    BY <1>1 DEF VoiceIsClosed
  <2>3. told' = <<FromCode(cause')>>
    BY <2>1, <2>2, FromCodeKnown, FirstTold
  <2>4. QED
    BY <1>1, <2>1, <2>2, <2>3, ClosedIsError DEF VoiceIsClosed
<1>2. CASE Enter \/ Succeeds \/ SpawnWorker \/ SpeakHere
  BY <1>2 DEF Enter, Succeeds, SpawnWorker, SpeakHere
<1>3. ASSUME NEW code \in Int \ {Success}, ReturnsError(code), nativeAt \in {"entered", "streaming"}
      PROVE  ToldInv'
  BY <1>3 DEF ReturnsError
<1>4. CASE Fails
  BY <1>3, <1>4, FailsWithCode
<1>5. CASE DeliverSpeech \/ DeliverFinished
  BY <1>5 DEF DeliverSpeech, DeliverFinished, Emit, Success
<1>6. CASE DeliverError
  <2>1. PICK code \in Int \ {Success} : Emit("ERROR", code) /\ cause' = code
    BY <1>6, Codes DEF DeliverError
  <2>2. QED
    BY <1>6, <2>1 DEF DeliverError, Emit
<1>7. CASE PanicHere
  BY <1>3, <1>7, Codes DEF PanicHere
<1>8. CASE CallbackReturns
  <2>1. /\ eventType' = "none" /\ eventError' = Success /\ nativeAt = "calling"
        /\ UNCHANGED <<outError, cause>> /\ outError = Success
        /\ nativeAt' \in {"streaming", "none"}
        /\ nativeAt' = "streaming" => eventType = "SPEECH"
        /\ hostAt' # "calls"
    BY <1>8 DEF CallbackReturns, JobEnds
  <2>2. CASE eventType = "ERROR"
    <3>1. told' = Append(told, FromCode(eventError)) /\ told = << >> /\ cause = eventError
      BY <1>8, <2>2 DEF CallbackReturns, Tell
    <3>2. QED
      BY <2>1, <2>2, <3>1, FirstTold DEF Success
  <2>3. CASE eventType # "ERROR"
    <3>1. told' = told /\ told = << >> /\ cause = Success
      BY <1>8, <2>3 DEF CallbackReturns
    <3>2. QED
      BY <2>1, <2>3, <3>1 DEF Success
  <2>4. QED
    BY <2>2, <2>3
<1>9. CASE CheckError
  <2>1. CASE outError = Success
    BY <1>9, <2>1 DEF CheckError
  <2>2. CASE outError # Success
    <3>1. told' = Append(told, FromCode(outError)) /\ told = << >> /\ cause = outError
      BY <1>9, <2>2 DEF CheckError, Tell
    <3>2. QED
      BY <1>9, <2>2, <3>1 DEF CheckError
  <2>3. QED
    BY <2>1, <2>2
<1>10. CASE ReadResult \/ FreeArguments
  BY <1>10 DEF ReadResult, FreeArguments
<1>11. QED
  BY <1>1, <1>2, <1>4, <1>5, <1>6, <1>7, <1>8, <1>9, <1>10 DEF BoundaryNext

(* However a call goes, for any number of speech events: what crossed the  *)
(* boundary is freed exactly once and not while native code reads it, and  *)
(* a failure is told exactly once and under its own code.                  *)
THEOREM EveryCallIsSettledOnce == BoundarySpec => []CallIsSettledOnce
<1>1. BoundaryInv => CallIsSettledOnce
  <2> SUFFICES ASSUME BoundaryInv PROVE BlocksAreFreedOnce /\ FailureIsToldOnce
    BY DEF CallIsSettledOnce
  <2>1. BlocksAreFreedOnce
    BY DEF BoundaryInv, BlocksInv, BlocksAreFreedOnce, Over, Blocks, HasText, HasConfig,
           ErrorReturnPending
  <2>2. FailureIsToldOnce
    BY DEF BoundaryInv, ToldInv, FailureIsToldOnce, Over, ErrorEventPending, ErrorReturnPending
  <2>3. QED
    BY <2>1, <2>2
<1>2. BoundaryInv /\ UNCHANGED boundaryVars => BoundaryInv'
  BY DEF BoundaryInv, PlacesInv, BlocksInv, ToldInv, HasText, HasConfig, ErrorEventPending,
         ErrorReturnPending, boundaryVars, callVars, eventVars
<1>3. BoundaryInv /\ BoundaryNext => BoundaryInv'
  BY PlacesStep, BlocksStep, ToldStep DEF BoundaryInv
<1>4. QED
  BY <1>1, <1>2, <1>3, BoundaryInvInit, PTL DEF BoundarySpec

-----------------------------------------------------------------------------
(* The recognizer.                                                         *)

(* What was verified is whole for as long as nothing changed it; and what  *)
(* the engine decodes is long enough and has a recognizer.                 *)
RecognizerInv ==
  /\ listener \in [Listener -> {"idle", "called", "decoding", "back"}]
  /\ audio \in [Listener -> [samples : {"null", "given"}, len : Nat, rate : Int]]
  /\ DOMAIN stream = Listener
  /\ modelFile \in {"absent", "unreadable", "whole", "corrupt"}
  /\ loader \in {"verified", "required"} /\ ~changed => modelFile = "whole"
  /\ aborted => changed
  /\ \A t \in Listener : listener[t] = "decoding" =>
       handle /\ ~(stream[t] < MIN_MODEL_SAMPLES)

LEMMA RecognizerInvInit == RecognizerInit => RecognizerInv
  BY DEF RecognizerInit, RecognizerInv, NoAudio

(* Steps of a load that leave the threads, the handle and the process be.  *)
LEMMA LoadKeeps ==
  ASSUME RecognizerInv, UNCHANGED <<listenVars, handle, aborted>>,
         aborted => changed',
         modelFile' \in {"absent", "unreadable", "whole", "corrupt"},
         loader' \in {"verified", "required"} /\ ~changed' => modelFile' = "whole"
  PROVE  RecognizerInv'
  BY DEF RecognizerInv, listenVars

LEMMA LoadStep ==
  ASSUME RecognizerInv,
         FilesChange \/ LoadRecognizer \/ CheckArguments \/ VerifyModel \/ RequireFiles
  PROVE  RecognizerInv'
<1> USE DEF RecognizerInv
<1>1. CASE FilesChange
  BY <1>1, LoadKeeps DEF FilesChange
<1>2. CASE LoadRecognizer
  BY <1>2, LoadKeeps DEF LoadRecognizer, fileVars
<1>3. ASSUME NEW code, LoadFails(code) PROVE RecognizerInv'
  <2>1. UNCHANGED <<modelFile, listenVars, handle, aborted, changed>> /\ loader' = "idle"
    BY <1>3 DEF LoadFails, fileVars
  <2>2. QED
    BY <2>1, LoadKeeps
<1>4. CASE CheckArguments
  <2>1. CASE LoadGoesOn("checked") /\ UNCHANGED changed
    BY <2>1, LoadKeeps DEF LoadGoesOn, fileVars
  <2>2. \/ LoadFails(SttCode.NULL_POINTER) \/ LoadFails(SttCode.INVALID_UTF8_SEQUENCE)
        \/ LoadFails(SttCode.INVALID_CONFIGURATION)
        \/ LoadGoesOn("checked") /\ UNCHANGED changed
    BY <1>4 DEF CheckArguments
  <2>3. QED
    BY <1>3, <2>1, <2>2
<1>5. CASE VerifyModel
  <2>1. CASE LoadGoesOn("verified") /\ changed' = FALSE /\ modelFile = "whole"
    BY <1>5, <2>1, LoadKeeps DEF VerifyModel, LoadGoesOn, fileVars
  <2>2. CASE LoadFails(SttCode.UNREADABLE_MODEL_FILE) \/ LoadFails(SttCode.CHECKSUM_MISMATCH)
    BY <1>3, <2>2
  <2>3. QED
    BY <1>5, <2>1, <2>2 DEF VerifyModel
<1>6. CASE RequireFiles
  <2>1. CASE LoadGoesOn("required") /\ UNCHANGED changed
    BY <1>6, <2>1, LoadKeeps DEF RequireFiles, LoadGoesOn, fileVars
  <2>2. CASE LoadFails(SttCode.MISSING_MODEL_FILE)
    BY <1>3, <2>2
  <2>3. QED
    BY <1>6, <2>1, <2>2 DEF RequireFiles
<1>7. QED
  BY <1>1, <1>2, <1>4, <1>5, <1>6

(* The engine aborts on a corrupt model only.                              *)
LEMMA CreateStep == ASSUME RecognizerInv, CreateRecognizer PROVE RecognizerInv'
<1> USE DEF RecognizerInv, CreateRecognizer
<1>1. CASE LoadFails(SttCode.MODEL_LOAD_FAILED)
  BY <1>1, LoadKeeps DEF LoadFails, fileVars
<1>2. CASE modelFile = "corrupt" /\ aborted' = TRUE /\ UNCHANGED <<fileVars, loadVars, handle, listenVars>>
  BY <1>2 DEF loadVars, listenVars, fileVars
<1>3. CASE handle' = TRUE /\ loader' = "idle" /\ UNCHANGED <<fileVars, changed, listenVars, aborted>>
  BY <1>3 DEF fileVars, listenVars
<1>4. QED
  BY <1>1, <1>2, <1>3

LEMMA ListenStep ==
  ASSUME RecognizerInv, NEW t \in Listener,
         CallRecognize(t) \/ CheckAudio(t) \/ Decode(t) \/ TakeResult(t)
  PROVE  RecognizerInv'
<1> USE DEF RecognizerInv, fileVars, loadVars
<1>1. CASE CallRecognize(t)
  <2>1. PICK a \in [samples : {"null", "given"}, len : Nat, rate : Int] :
          audio' = [audio EXCEPT ![t] = a]
    BY <1>1, RecognizerAssumption DEF CallRecognize
  <2>2. QED
    BY <1>1, <2>1 DEF CallRecognize
<1>2. ASSUME NEW code, Returns(t, code), UNCHANGED <<fileVars, loadVars, handle, aborted>>
      PROVE  RecognizerInv'
  BY <1>2 DEF Returns
<1>3. CASE CheckAudio(t)
  <2>1. CASE Returns(t, SttCode.NULL_POINTER) \/ Returns(t, SttCode.INVALID_AUDIO)
    BY <1>2, <1>3, <2>1 DEF CheckAudio
  <2>2. CASE ~(Returns(t, SttCode.NULL_POINTER) \/ Returns(t, SttCode.INVALID_AUDIO))
    <3>1. /\ handle /\ ~Invalid(audio[t])
          /\ listener' = [listener EXCEPT ![t] = "decoding"]
          /\ stream' = [stream EXCEPT ![t] = (audio[t].len * MODEL_RATE) \div audio[t].rate]
          /\ UNCHANGED audio
      BY <1>3, <2>2 DEF CheckAudio
    <3>2. ~(((audio[t].len * MODEL_RATE) \div audio[t].rate) < MIN_MODEL_SAMPLES)
      BY <3>1 DEF Invalid, TooShort
    <3>3. UNCHANGED <<fileVars, loadVars, handle, aborted>>
      BY <1>3 DEF CheckAudio
    <3>4. QED
      BY <3>1, <3>2, <3>3
  <2>3. QED
    BY <2>1, <2>2
<1>4. CASE Decode(t)
  <2>1. ~(stream[t] < MIN_MODEL_SAMPLES)
    BY <1>4 DEF Decode
  <2>2. QED
    BY <1>2, <1>4, <2>1 DEF Decode
<1>5. CASE TakeResult(t)
  BY <1>5 DEF TakeResult, NoAudio
<1>6. QED
  BY <1>1, <1>3, <1>4, <1>5

LEMMA RecognizerInvStep ==
  RecognizerInv /\ [RecognizerNext]_recognizerVars => RecognizerInv'
<1>1. ASSUME RecognizerInv, Unload PROVE RecognizerInv'
  BY <1>1 DEF RecognizerInv, Unload, fileVars, loadVars, listenVars
<1>2. ASSUME RecognizerInv, UNCHANGED recognizerVars PROVE RecognizerInv'
  BY <1>2 DEF RecognizerInv, recognizerVars, fileVars, loadVars, listenVars
<1>3. QED
  BY <1>1, <1>2, LoadStep, CreateStep, ListenStep DEF RecognizerNext

(* The engine aborts the process only if the model was changed between its *)
(* hash and its loading, whatever any number of threads pass and whenever  *)
(* files change; in particular never because of the audio it is given.     *)
THEOREM EngineIsSafe == RecognizerSpec => []EngineDoesNotAbort
<1>1. RecognizerInv => EngineDoesNotAbort
  BY DEF RecognizerInv, EngineDoesNotAbort
<1>2. QED
  BY <1>1, RecognizerInvInit, RecognizerInvStep, PTL DEF RecognizerSpec
-----------------------------------------------------------------------------
(* Threads of one interpreter.                                             *)

(* A setter keeps the GIL from its copy to its update.                     *)
Outcomes == {"piper", "kokoro", "melotts", "failed"}
SettersInv ==
  /\ gil \in PyThread \cup {NoThread}
  /\ DOMAIN pyAt = PyThread /\ DOMAIN subject = PyThread /\ DOMAIN lastUpdate = Settings
  /\ \A t \in PyThread : pyAt[t] = "setting" =>
       /\ gil = t /\ subject[t] \in Setters
       /\ held = FallbackConfig
       /\ pyVoice # NoVoice
  /\ \A t \in PyThread : pyAt[t] = "loaded" => subject[t] \in Outcomes

(* Settings that are there are of the three kinds, and have the values of  *)
(* the updates; without a voice there was no update.                       *)
KeptInv ==
  /\ fallback # Unsettled => DOMAIN fallback \subseteq Settings
  /\ pyVoice = NoVoice => \A f \in Settings : lastUpdate[f] = NotSet
  /\ UpdatesAreKept

(* A stream is borrowed by one thread, whose item is the next of the       *)
(* stream; the items before it were handed out in order.                   *)
Pulling(t) == pyAt[t] \in {"pulling", "pulled"}
PullsFrom(t) == IF pyAt[t] = "pulling" THEN subject[t] ELSE subject[t].of

PullersInv ==
  /\ DOMAIN pyAt = PyThread /\ DOMAIN subject = PyThread
  /\ streams \in [PyThread -> [exists : BOOLEAN, next : Nat, borrowed : BOOLEAN]]
  /\ DOMAIN given = PyThread
  /\ \A s \in PyThread :
       streams[s].next >= 1 /\ given[s] = [i \in 1..(streams[s].next - 1) |-> i]
  /\ \A t \in PyThread : Pulling(t) =>
       PullsFrom(t) \in PyThread /\ streams[PullsFrom(t)].borrowed
  /\ \A t \in PyThread : pyAt[t] = "pulled" =>
       subject[t].item = streams[PullsFrom(t)].next
  /\ \A t, u \in PyThread :
       Pulling(t) /\ Pulling(u) /\ PullsFrom(t) = PullsFrom(u) => t = u

PythonInv == SettersInv /\ KeptInv /\ PullersInv

LEMMA PythonInvInit == PythonInit => PythonInv
<1> SUFFICES ASSUME PythonInit PROVE PythonInv
  OBVIOUS
<1> USE DEF PythonInit
<1>1. SettersInv /\ KeptInv
  BY DEF SettersInv, KeptInv, UpdatesAreKept
<1>2. PullersInv
  BY DEF PullersInv, NoStream, Pulling
<1>3. QED
  BY <1>1, <1>2 DEF PythonInv

(* Most steps leave the settings be, and start or end no update.           *)
LEMMA SettingsRest ==
  ASSUME SettersInv, KeptInv, UNCHANGED updateVars,
         gil' \in PyThread \cup {NoThread},
         DOMAIN pyAt' = PyThread, DOMAIN subject' = PyThread,
         pyVoice' = pyVoice,
         \A t \in PyThread : pyAt'[t] = "setting" =>
           pyAt[t] = "setting" /\ gil' = gil /\ subject'[t] = subject[t],
         \A t \in PyThread : pyAt'[t] = "loaded" => subject'[t] \in Outcomes
  PROVE  SettersInv' /\ KeptInv'
  BY DEF SettersInv, KeptInv, UpdatesAreKept, updateVars, FallbackConfig

LEMMA DoesOne ==
  ASSUME NEW t \in PyThread, NEW what, NEW about, Does(t, what, about),
         DOMAIN pyAt = PyThread, DOMAIN subject = PyThread
  PROVE  /\ DOMAIN pyAt' = PyThread /\ DOMAIN subject' = PyThread
         /\ pyAt'[t] = what /\ subject'[t] = about
         /\ \A u \in PyThread \ {t} : pyAt'[u] = pyAt[u] /\ subject'[u] = subject[u]
  BY DEF Does

(* Nobody is in a setter while a thread comes back with the GIL.           *)
LEMMA NobodySets ==
  ASSUME SettersInv, gil = NoThread PROVE \A t \in PyThread : pyAt[t] # "setting"
  BY PyThreadAssumption DEF SettersInv

(* The voice comes with settings that no update named.                     *)
LEMMA VoiceBringsSettings ==
  ASSUME SettersInv, KeptInv, NEW t \in PyThread, VoiceIsReturned(t)
  PROVE  SettersInv' /\ KeptInv'
<1>1. gil = NoThread /\ gil' = t /\ Does(t, "python", Quiet)
  BY DEF VoiceIsReturned, Attach
<1>2. DOMAIN pyAt' = PyThread /\ DOMAIN subject' = PyThread /\ UNCHANGED lastUpdate
  BY <1>1, DoesOne DEF SettersInv, VoiceIsReturned
<1>3. \A u \in PyThread : pyAt'[u] # "setting"
  BY <1>1, NobodySets, DoesOne DEF SettersInv
<1>4. SettersInv'
  BY <1>1, <1>2, <1>3, DoesOne DEF SettersInv
<1>5. CASE UNCHANGED <<pyVoice, fallback>>
  BY <1>2, <1>4, <1>5 DEF KeptInv, UpdatesAreKept
<1>6. CASE /\ pyVoice = NoVoice
           /\ fallback' = CASE subject[t] = "piper"   -> [f \in {"speaker", "scales"} |-> NotSet]
                            [] subject[t] = "kokoro"  -> NoParameters
                            [] subject[t] = "melotts" -> Unsettled
           /\ subject[t] \in {"piper", "kokoro", "melotts"}
  <2>1. \A f \in Settings : lastUpdate'[f] = NotSet
    BY <1>2, <1>6 DEF KeptInv
  <2>2. \/ fallback' = [f \in {"speaker", "scales"} |-> NotSet]
        \/ fallback' = NoParameters
        \/ fallback' = Unsettled
    BY <1>6
  <2>3. fallback' # Unsettled =>
          DOMAIN fallback' \subseteq Settings /\ \A f \in DOMAIN fallback' : fallback'[f] = NotSet
    BY <2>2 DEF NoParameters, Settings
  <2>4. QED
    BY <1>4, <2>1, <2>3 DEF KeptInv, UpdatesAreKept
<1>7. subject[t] \in Outcomes
  BY DEF SettersInv, VoiceIsReturned
<1>8. QED
  BY <1>5, <1>6, <1>7 DEF VoiceIsReturned, Outcomes

(* An update leaves the settings it does not name as they were copied.     *)
LEMMA SetterSettings ==
  ASSUME SettersInv, KeptInv, NEW t \in PyThread, SetFallback(t)
  PROVE  SettersInv' /\ KeptInv'
<1> DEFINE names == Names(subject[t]) \ (IF pyVoice = "piper" THEN {"other"} ELSE {})
<1>1. /\ gil = t /\ pyAt[t] = "setting" /\ Does(t, "python", Quiet) /\ UNCHANGED <<gil, pyVoice>>
      /\ fallback' = [f \in names \cup DOMAIN held |-> IF f \in names THEN pyCalls ELSE held[f]]
      /\ lastUpdate' = [f \in Settings |-> IF f \in names THEN pyCalls ELSE lastUpdate[f]]
  BY DEF SetFallback
<1>2. subject[t] \in Setters /\ held = FallbackConfig /\ pyVoice # NoVoice
  BY <1>1 DEF SettersInv
<1>3. names \subseteq Settings /\ (names \cap {"speaker", "scales"}) # {}
  BY <1>2 DEF Names, Setters, Settings
<1> HIDE DEF names
<1>4. \A u \in PyThread : pyAt'[u] # "setting"
  BY <1>1, PyThreadAssumption, DoesOne DEF SettersInv
<1>5. SettersInv'
  BY <1>1, <1>4, DoesOne DEF SettersInv
<1>6. DOMAIN held \subseteq Settings
  BY <1>2 DEF FallbackConfig, KeptInv, NoParameters
<1>7. \A f \in DOMAIN held : held[f] = lastUpdate[f] /\ fallback # Unsettled /\ f \in DOMAIN fallback
  BY <1>2 DEF FallbackConfig, KeptInv, UpdatesAreKept, NoParameters
<1>8. fallback # Unsettled => DOMAIN held = DOMAIN fallback
  BY <1>2 DEF FallbackConfig
<1>9. fallback' # Unsettled
  <2>1. DOMAIN Unsettled = {"nothing"} /\ DOMAIN fallback' = names \cup DOMAIN held
    BY <1>1 DEF Unsettled
  <2>2. QED
    BY <1>3, <2>1
<1>10. \A f \in DOMAIN fallback' : fallback'[f] = lastUpdate'[f]
  BY <1>1, <1>3, <1>6, <1>7
<1>11. \A f \in Settings : lastUpdate'[f] # NotSet => f \in DOMAIN fallback'
  <2>1. SUFFICES ASSUME NEW f \in Settings, lastUpdate'[f] # NotSet, f \notin names
                 PROVE  f \in DOMAIN held
    BY <1>1
  <2>2. lastUpdate[f] # NotSet
    BY <1>1, <2>1
  <2>3. QED
    BY <1>8, <2>2 DEF KeptInv, UpdatesAreKept
<1>12. DOMAIN fallback' \subseteq Settings
  BY <1>1, <1>3, <1>6
<1>13. QED
  BY <1>1, <1>2, <1>5, <1>9, <1>10, <1>11, <1>12 DEF KeptInv, UpdatesAreKept

LEMMA SettingsStep == SettersInv /\ KeptInv /\ PythonNext => SettersInv' /\ KeptInv'
<1> SUFFICES ASSUME SettersInv, KeptInv, PythonNext PROVE SettersInv' /\ KeptInv'
  OBVIOUS
<1>1. PICK t \in PyThread :
        \/ TakeGil(t) \/ SwitchThread(t)
        \/ PiperModel(t) \/ load_voice(t) \/ VoiceIsReturned(t)
        \/ \E setter \in Setters : Setter(t, setter)
        \/ SetterRaises(t) \/ SetFallback(t)
        \/ synthesize(t) \/ MakeStream(t) \/ StreamIsReturned(t)
        \/ \E s \in PyThread : __next__(t, s)
        \/ StreamNext(t) \/ ItemIsReturned(t)
  BY DEF PythonNext
<1> USE DEF updateVars
<1>2. ASSUME NEW what, NEW about, Does(t, what, about), UNCHANGED <<updateVars, pyVoice>>,
             what # "setting", what = "loaded" => about \in Outcomes,
             \/ gil' = gil
             \/ gil = NoThread /\ gil' = t
             \/ gil = t /\ gil' = NoThread /\ pyAt[t] # "setting"
      PROVE  SettersInv' /\ KeptInv'
  <2>1. /\ DOMAIN pyAt' = PyThread /\ DOMAIN subject' = PyThread
        /\ pyAt'[t] = what /\ subject'[t] = about
        /\ \A u \in PyThread \ {t} : pyAt'[u] = pyAt[u] /\ subject'[u] = subject[u]
    BY <1>2, DoesOne DEF SettersInv
  <2>2. gil' \in PyThread \cup {NoThread}
    BY <1>2 DEF SettersInv
  <2>3. \A u \in PyThread : pyAt'[u] = "setting" =>
          pyAt[u] = "setting" /\ gil' = gil /\ subject'[u] = subject[u]
    BY <1>2, <2>1, NobodySets DEF SettersInv
  <2>4. \A u \in PyThread : pyAt'[u] = "loaded" => subject'[u] \in Outcomes
    BY <1>2, <2>1 DEF SettersInv
  <2>5. QED
    BY <1>2, <2>1, <2>2, <2>3, <2>4, SettingsRest
<1>3. ASSUME UNCHANGED <<pyAt, subject, updateVars, pyVoice>>, gil' \in PyThread \cup {NoThread},
             gil' = gil \/ gil = NoThread \/ pyAt[gil] # "setting"
      PROVE  SettersInv' /\ KeptInv'
  <2>1. \A u \in PyThread : pyAt[u] = "setting" => gil' = gil
    BY <1>3, NobodySets DEF SettersInv
  <2>2. QED
    BY <1>3, <2>1, SettingsRest DEF SettersInv
<1>4. CASE TakeGil(t) \/ SwitchThread(t) \/ SetterRaises(t)
  BY <1>3, <1>4 DEF TakeGil, SwitchThread, SetterRaises, SettersInv
<1>5. CASE PiperModel(t) \/ synthesize(t)
  BY <1>2, <1>5 DEF PiperModel, synthesize, Calls, Detach
<1>6. CASE load_voice(t)
  <2>1. PICK kind \in Outcomes : Does(t, "loaded", kind)
    BY <1>6 DEF load_voice, Outcomes
  <2>2. QED
    BY <1>2, <1>6, <2>1 DEF load_voice
<1>7. CASE MakeStream(t)
  <2>1. PICK outcome \in {"made", "failed"} : Does(t, "made", outcome)
    BY <1>7 DEF MakeStream
  <2>2. QED
    BY <1>2, <1>7, <2>1 DEF MakeStream
<1>8. CASE StreamIsReturned(t) \/ ItemIsReturned(t)
  BY <1>2, <1>8 DEF StreamIsReturned, ItemIsReturned, Attach
<1>9. CASE StreamNext(t)
  BY <1>2, <1>9 DEF StreamNext
<1>10. CASE \E s \in PyThread : __next__(t, s)
  <2>1. PICK s \in PyThread : __next__(t, s)
    BY <1>10
  <2>2. CASE streams[s].borrowed
    BY <1>3, <2>1, <2>2 DEF __next__, SettersInv
  <2>3. CASE ~streams[s].borrowed
    BY <1>2, <2>1, <2>3 DEF __next__, Calls, Detach
  <2>4. QED
    BY <2>2, <2>3
<1>11. CASE \E setter \in Setters : Setter(t, setter)
  <2>1. PICK setter \in Setters : Setter(t, setter)
    BY <1>11
  <2>2. /\ gil = t /\ UNCHANGED <<gil, pyVoice, fallback, lastUpdate>>
        /\ Does(t, "setting", setter) /\ held' = FallbackConfig /\ pyVoice # NoVoice
    BY <2>1 DEF Setter, Calls
  <2>3. \A u \in PyThread : pyAt[u] = "setting" => u = t
    BY <2>2 DEF SettersInv
  <2>4. SettersInv'
    BY <2>2, <2>3, DoesOne DEF SettersInv, FallbackConfig
  <2>5. QED
    BY <2>2, <2>4 DEF KeptInv, UpdatesAreKept
<1>12. QED
  BY <1>1, <1>4, <1>5, <1>6, <1>7, <1>8, <1>9, <1>10, <1>11, VoiceBringsSettings, SetterSettings

(* Who pulls stays at it; nobody joins.                                    *)
LEMMA PullersRest ==
  ASSUME PullersInv, DOMAIN pyAt' = PyThread, DOMAIN subject' = PyThread,
         UNCHANGED streamVars,
         \A u \in PyThread : \/ pyAt'[u] \notin {"pulling", "pulled"}
                             \/ pyAt'[u] = pyAt[u] /\ subject'[u] = subject[u]
  PROVE  PullersInv'
<1>1. \A u \in PyThread : (Pulling(u))' =>
        Pulling(u) /\ pyAt'[u] = pyAt[u] /\ subject'[u] = subject[u] /\ (PullsFrom(u))' = PullsFrom(u)
  BY DEF Pulling, PullsFrom
<1>2. \A u \in PyThread : pyAt'[u] = "pulled" => (Pulling(u))'
  BY DEF Pulling
<1>3. QED
  BY <1>1, <1>2 DEF PullersInv, streamVars

(* PyO3 lends a stream to one thread at a time.                            *)
LEMMA BorrowStep ==
  ASSUME PullersInv, NEW t \in PyThread, NEW s \in PyThread,
         pyAt[t] = "python", ~streams[s].borrowed, Does(t, "pulling", s),
         streams' = [streams EXCEPT ![s].borrowed = TRUE], UNCHANGED given
  PROVE  PullersInv'
<1>1. /\ DOMAIN pyAt' = PyThread /\ DOMAIN subject' = PyThread
      /\ pyAt'[t] = "pulling" /\ subject'[t] = s
      /\ \A u \in PyThread \ {t} : pyAt'[u] = pyAt[u] /\ subject'[u] = subject[u]
  BY DoesOne DEF PullersInv
<1>2. /\ streams' \in [PyThread -> [exists : BOOLEAN, next : Nat, borrowed : BOOLEAN]]
      /\ \A x \in PyThread : /\ streams'[x].next = streams[x].next
                             /\ streams'[x].borrowed = IF x = s THEN TRUE ELSE streams[x].borrowed
  <2>1. streams \in [PyThread -> [exists : BOOLEAN, next : Nat, borrowed : BOOLEAN]]
    BY DEF PullersInv
  <2>2. streams' \in [PyThread -> [exists : BOOLEAN, next : Nat, borrowed : BOOLEAN]]
    BY <2>1
  <2>3. streams'[s] = [streams[s] EXCEPT !.borrowed = TRUE]
    BY <2>1
  <2>4. \A x \in PyThread \ {s} : streams'[x] = streams[x]
    BY <2>1
  <2>5. streams'[s].next = streams[s].next /\ streams'[s].borrowed = TRUE
    BY <2>1, <2>3
  <2>6. QED
    BY <2>2, <2>4, <2>5
<1>3. (PullsFrom(t))' = s /\ (Pulling(t))' /\ ~Pulling(t)
  BY <1>1 DEF PullsFrom, Pulling
<1>4. \A u \in PyThread \ {t} :
        (Pulling(u))' = Pulling(u) /\ (PullsFrom(u))' = PullsFrom(u)
  BY <1>1 DEF PullsFrom, Pulling
<1>5. \A u \in PyThread \ {t} : Pulling(u) => PullsFrom(u) # s
  BY DEF PullersInv
<1>6. \A u \in PyThread : (Pulling(u))' =>
        (PullsFrom(u))' \in PyThread /\ streams'[(PullsFrom(u))'].borrowed
  BY <1>2, <1>3, <1>4 DEF PullersInv
<1>7. \A u \in PyThread : pyAt'[u] = "pulled" =>
        subject'[u].item = streams'[(PullsFrom(u))'].next
  <2>1. SUFFICES ASSUME NEW u \in PyThread \ {t}, pyAt[u] = "pulled"
                 PROVE  subject[u].item = streams'[PullsFrom(u)].next
    BY <1>1, <1>4
  <2>2. PullsFrom(u) \in PyThread /\ subject[u].item = streams[PullsFrom(u)].next
    BY <2>1 DEF PullersInv, Pulling
  <2>3. QED
    BY <1>2, <2>2
<1>8. \A u, v \in PyThread :
        (Pulling(u))' /\ (Pulling(v))' /\ (PullsFrom(u))' = (PullsFrom(v))' => u = v
  BY <1>3, <1>4, <1>5 DEF PullersInv
<1>9. \A x \in PyThread : streams'[x].next >= 1 /\ given'[x] = [i \in 1..(streams'[x].next - 1) |-> i]
  BY <1>2 DEF PullersInv
<1>10. QED
  BY <1>1, <1>2, <1>6, <1>7, <1>8, <1>9 DEF PullersInv

(* An item that was computed is the stream's next, as nobody else pulls.   *)
LEMMA PullStep ==
  ASSUME PullersInv, NEW t \in PyThread, StreamNext(t)
  PROVE  PullersInv'
<1> DEFINE s == subject[t]
<1>1. /\ pyAt[t] = "pulling" /\ UNCHANGED <<streams, given>>
      /\ Does(t, "pulled", [of |-> s, item |-> streams[s].next])
  BY DEF StreamNext, streamVars
<1>2. /\ DOMAIN pyAt' = PyThread /\ DOMAIN subject' = PyThread
      /\ pyAt'[t] = "pulled" /\ subject'[t] = [of |-> s, item |-> streams[s].next]
      /\ \A u \in PyThread \ {t} : pyAt'[u] = pyAt[u] /\ subject'[u] = subject[u]
  BY <1>1, DoesOne DEF PullersInv
<1>3. PullsFrom(t) = s /\ Pulling(t) /\ (PullsFrom(t))' = s /\ (Pulling(t))'
  BY <1>1, <1>2 DEF PullsFrom, Pulling
<1>4. \A u \in PyThread :
        (Pulling(u))' = Pulling(u) /\ (PullsFrom(u))' = PullsFrom(u)
  BY <1>2, <1>3 DEF PullsFrom, Pulling
<1>5. subject'[t].item = streams[s].next
  BY <1>2
<1>6. \A u \in PyThread : pyAt'[u] = "pulled" =>
        subject'[u].item = streams'[(PullsFrom(u))'].next
  BY <1>1, <1>2, <1>3, <1>4, <1>5 DEF PullersInv
<1>7. QED
  BY <1>1, <1>2, <1>4, <1>6 DEF PullersInv

(* What is handed over is the next item, and then the stream moves on.     *)
LEMMA HandOver ==
  ASSUME NEW n \in Nat \ {0}
  PROVE  Append([i \in 1..(n - 1) |-> i], n) = [i \in 1..n |-> i]
<1>1. [i \in 1..(n - 1) |-> i] \in Seq(Nat) /\ Len([i \in 1..(n - 1) |-> i]) = n - 1
  OBVIOUS
<1>2. QED
  BY <1>1

LEMMA ReturnStep ==
  ASSUME PullersInv, NEW t \in PyThread, ItemIsReturned(t)
  PROVE  PullersInv'
<1> DEFINE s == subject[t].of
           item == subject[t].item
<1>1. pyAt[t] = "pulled" /\ Does(t, "python", Quiet)
  BY DEF ItemIsReturned, Attach
<1>2. /\ DOMAIN pyAt' = PyThread /\ DOMAIN subject' = PyThread
      /\ pyAt'[t] = "python"
      /\ \A u \in PyThread \ {t} : pyAt'[u] = pyAt[u] /\ subject'[u] = subject[u]
  BY <1>1, DoesOne DEF PullersInv
<1>3. Pulling(t) /\ PullsFrom(t) = s /\ ~(Pulling(t))'
  BY <1>1, <1>2 DEF PullsFrom, Pulling
<1>4. s \in PyThread /\ item = streams[s].next
  BY <1>1, <1>3 DEF PullersInv
<1>5. \A u \in PyThread \ {t} :
        (Pulling(u))' = Pulling(u) /\ (PullsFrom(u))' = PullsFrom(u)
  BY <1>2 DEF PullsFrom, Pulling
<1>6. \A u \in PyThread \ {t} : Pulling(u) => PullsFrom(u) # s
  BY <1>3 DEF PullersInv
<1>7. \/ streams' = [streams EXCEPT ![s].borrowed = FALSE] /\ UNCHANGED given
      \/ /\ streams' = [streams EXCEPT ![s].borrowed = FALSE, ![s].next = item + 1]
         /\ given' = [given EXCEPT ![s] = Append(@, item)]
  BY DEF ItemIsReturned
<1> HIDE DEF s, item
<1>8. /\ streams' \in [PyThread -> [exists : BOOLEAN, next : Nat, borrowed : BOOLEAN]]
      /\ \A x \in PyThread \ {s} : streams'[x] = streams[x] /\ given'[x] = given[x]
      /\ DOMAIN given' = PyThread
  <2>1. streams \in [PyThread -> [exists : BOOLEAN, next : Nat, borrowed : BOOLEAN]]
    BY DEF PullersInv
  <2>2. item \in Nat
    BY <1>4, <2>1
  <2>3. CASE streams' = [streams EXCEPT ![s].borrowed = FALSE] /\ UNCHANGED given
    <3>1. streams' \in [PyThread -> [exists : BOOLEAN, next : Nat, borrowed : BOOLEAN]]
      BY <1>4, <2>1, <2>3
    <3>2. QED
      BY <2>3, <3>1 DEF PullersInv
  <2>4. CASE /\ streams' = [streams EXCEPT ![s].borrowed = FALSE, ![s].next = item + 1]
             /\ given' = [given EXCEPT ![s] = Append(@, item)]
    <3>1. streams' \in [PyThread -> [exists : BOOLEAN, next : Nat, borrowed : BOOLEAN]]
      BY <1>4, <2>1, <2>2, <2>4
    <3>2. \A x \in PyThread \ {s} : streams'[x] = streams[x]
      BY <2>1, <2>4
    <3>3. QED
      BY <2>4, <3>1, <3>2 DEF PullersInv
  <2>5. QED
    BY <1>7, <2>3, <2>4
<1>9. streams'[s].next >= 1 /\ given'[s] = [i \in 1..(streams'[s].next - 1) |-> i]
  <2>1. CASE streams' = [streams EXCEPT ![s].borrowed = FALSE] /\ UNCHANGED given
    BY <1>4, <2>1 DEF PullersInv
  <2>2. CASE /\ streams' = [streams EXCEPT ![s].borrowed = FALSE, ![s].next = item + 1]
             /\ given' = [given EXCEPT ![s] = Append(@, item)]
    <3>1. item \in Nat \ {0} /\ given[s] = [i \in 1..(item - 1) |-> i]
      BY <1>4 DEF PullersInv
    <3>2. streams'[s].next = item + 1 /\ given'[s] = Append(given[s], item)
      BY <1>4, <2>2 DEF PullersInv
    <3>3. QED
      BY <3>1, <3>2, HandOver
  <2>3. QED
    BY <1>7, <2>1, <2>2
<1>10. \A u \in PyThread : (Pulling(u))' =>
         (PullsFrom(u))' \in PyThread \ {s} /\ streams'[(PullsFrom(u))'].borrowed
  BY <1>3, <1>5, <1>6, <1>8 DEF PullersInv
<1>11. \A u \in PyThread : pyAt'[u] = "pulled" =>
         subject'[u].item = streams'[(PullsFrom(u))'].next
  <2>1. SUFFICES ASSUME NEW u \in PyThread \ {t}, pyAt[u] = "pulled"
                 PROVE  subject[u].item = streams'[PullsFrom(u)].next
    BY <1>2, <1>5
  <2>2. PullsFrom(u) \in PyThread \ {s} /\ subject[u].item = streams[PullsFrom(u)].next
    BY <1>6, <2>1 DEF PullersInv, Pulling
  <2>3. QED
    BY <1>8, <2>2
<1>12. \A u, v \in PyThread :
         (Pulling(u))' /\ (Pulling(v))' /\ (PullsFrom(u))' = (PullsFrom(v))' => u = v
  BY <1>3, <1>5 DEF PullersInv
<1>13. \A x \in PyThread : streams'[x].next >= 1 /\ given'[x] = [i \in 1..(streams'[x].next - 1) |-> i]
  BY <1>8, <1>9 DEF PullersInv
<1>14. QED
  BY <1>2, <1>8, <1>10, <1>11, <1>12, <1>13 DEF PullersInv

LEMMA PullersNextInv == PullersInv /\ PythonNext => PullersInv'
<1> SUFFICES ASSUME PullersInv, PythonNext PROVE PullersInv'
  OBVIOUS
<1>1. PICK t \in PyThread :
        \/ TakeGil(t) \/ SwitchThread(t)
        \/ PiperModel(t) \/ load_voice(t) \/ VoiceIsReturned(t)
        \/ \E setter \in Setters : Setter(t, setter)
        \/ SetterRaises(t) \/ SetFallback(t)
        \/ synthesize(t) \/ MakeStream(t) \/ StreamIsReturned(t)
        \/ \E s \in PyThread : __next__(t, s)
        \/ StreamNext(t) \/ ItemIsReturned(t)
  BY DEF PythonNext
<1>2. ASSUME NEW what \in {"python", "loading", "loaded", "setting", "making", "made"},
             NEW about, Does(t, what, about), UNCHANGED streamVars
      PROVE  PullersInv'
  BY <1>2, DoesOne, PullersRest DEF PullersInv
<1>3. ASSUME UNCHANGED <<pyAt, subject, streamVars>> PROVE PullersInv'
  BY <1>3, PullersRest DEF PullersInv
<1>4. CASE TakeGil(t) \/ SwitchThread(t) \/ SetterRaises(t)
  BY <1>3, <1>4 DEF TakeGil, SwitchThread, SetterRaises
<1>5. CASE PiperModel(t) \/ synthesize(t)
  BY <1>2, <1>5 DEF PiperModel, synthesize, Detach
<1>6. CASE load_voice(t)
  <2>1. PICK kind \in {"piper", "kokoro", "melotts", "failed"} : Does(t, "loaded", kind)
    BY <1>6 DEF load_voice
  <2>2. QED
    BY <1>2, <1>6, <2>1 DEF load_voice
<1>7. CASE MakeStream(t)
  <2>1. PICK outcome \in {"made", "failed"} : Does(t, "made", outcome)
    BY <1>7 DEF MakeStream
  <2>2. QED
    BY <1>2, <1>7, <2>1 DEF MakeStream
<1>8. CASE VoiceIsReturned(t) \/ SetFallback(t)
  BY <1>2, <1>8 DEF VoiceIsReturned, SetFallback, Attach
<1>9. CASE \E setter \in Setters : Setter(t, setter)
  BY <1>2, <1>9 DEF Setter
<1>10. CASE StreamIsReturned(t)
  <2>1. /\ DOMAIN pyAt' = PyThread /\ DOMAIN subject' = PyThread
        /\ \A u \in PyThread : \/ pyAt'[u] \notin {"pulling", "pulled"}
                               \/ pyAt'[u] = pyAt[u] /\ subject'[u] = subject[u]
    BY <1>10, DoesOne DEF StreamIsReturned, Attach, PullersInv
  <2>2. \A u \in PyThread : (Pulling(u))' =>
          /\ Pulling(u) /\ pyAt'[u] = pyAt[u] /\ subject'[u] = subject[u]
          /\ (PullsFrom(u))' = PullsFrom(u)
    BY <2>1 DEF Pulling, PullsFrom
  <2>3. streams \in [PyThread -> [exists : BOOLEAN, next : Nat, borrowed : BOOLEAN]]
    BY DEF PullersInv
  <2>4. /\ streams' = [streams EXCEPT ![t] = [@ EXCEPT !.exists = (subject[t] = "made")]]
        /\ UNCHANGED given
    BY <1>10 DEF StreamIsReturned
  <2>5. (subject[t] = "made") \in BOOLEAN
    OBVIOUS
  <2>6. /\ streams' \in [PyThread -> [exists : BOOLEAN, next : Nat, borrowed : BOOLEAN]]
        /\ \A x \in PyThread : /\ streams'[x].next = streams[x].next
                               /\ streams'[x].borrowed = streams[x].borrowed
    BY <2>3, <2>4, <2>5
  <2>7. \A u \in PyThread : pyAt'[u] = "pulled" => (Pulling(u))'
    BY DEF Pulling
  <2>8. \A x \in PyThread : streams'[x].next >= 1 /\ given'[x] = [i \in 1..(streams'[x].next - 1) |-> i]
    BY <2>4, <2>6 DEF PullersInv
  <2>9. \A u \in PyThread : (Pulling(u))' =>
          (PullsFrom(u))' \in PyThread /\ streams'[(PullsFrom(u))'].borrowed
    BY <2>2, <2>6 DEF PullersInv
  <2>10. \A u \in PyThread : pyAt'[u] = "pulled" =>
           subject'[u].item = streams'[(PullsFrom(u))'].next
    BY <2>2, <2>6, <2>7 DEF PullersInv
  <2>11. \A u, v \in PyThread :
           (Pulling(u))' /\ (Pulling(v))' /\ (PullsFrom(u))' = (PullsFrom(v))' => u = v
    BY <2>2 DEF PullersInv
  <2>12. QED
    BY <2>1, <2>4, <2>6, <2>8, <2>9, <2>10, <2>11 DEF PullersInv
<1>11. CASE \E s \in PyThread : __next__(t, s)
  <2>1. PICK s \in PyThread : __next__(t, s)
    BY <1>11
  <2>2. CASE streams[s].borrowed
    BY <1>3, <2>1, <2>2 DEF __next__, streamVars
  <2>3. CASE ~streams[s].borrowed
    BY <2>1, <2>3, BorrowStep DEF __next__, Calls, Detach
  <2>4. QED
    BY <2>2, <2>3
<1>12. QED
  BY <1>1, <1>4, <1>5, <1>6, <1>7, <1>8, <1>9, <1>10, <1>11, PullStep, ReturnStep

(* Any number of Python threads share a voice and its streams: every item  *)
(* of a stream is handed out once and in order, because a stream is lent   *)
(* to one thread at a time; and no update of the settings is undone, as    *)
(* the GIL is kept from the copy to the update.                            *)
THEOREM ThreadsShareSafely == PythonSpec => []PythonThreadsShareSafely
<1>1. PythonInv => PythonThreadsShareSafely
  <2>1. ASSUME PullersInv PROVE EachItemOnce
    <3>1. \A n \in Nat : Len([i \in 1..n |-> i]) = n
      OBVIOUS
    <3>2. ASSUME NEW s \in PyThread PROVE given[s] = [i \in 1..Len(given[s]) |-> i]
      <4>1. /\ streams[s].next - 1 \in Nat
            /\ given[s] = [i \in 1..(streams[s].next - 1) |-> i]
        BY <2>1 DEF PullersInv
      <4>2. QED
        BY <3>1, <4>1
    <3>3. QED
      BY <3>2 DEF EachItemOnce
  <2>2. QED
    BY <2>1 DEF PythonInv, KeptInv, PythonThreadsShareSafely
<1>2. PythonInv /\ UNCHANGED pyVars => PythonInv'
  <2>1. SUFFICES ASSUME PythonInv, UNCHANGED pyVars PROVE PythonInv'
    OBVIOUS
  <2>2. SettersInv' /\ KeptInv'
    BY <2>1 DEF PythonInv, SettersInv, KeptInv, UpdatesAreKept, FallbackConfig, pyVars, updateVars
  <2>3. PullersInv'
    BY <2>1, PullersRest DEF PythonInv, PullersInv, pyVars, streamVars
  <2>4. QED
    BY <2>2, <2>3 DEF PythonInv
<1>3. PythonInv /\ PythonNext => PythonInv'
  BY SettingsStep, PullersNextInv DEF PythonInv
<1>4. QED
  BY <1>1, <1>2, <1>3, PythonInvInit, PTL DEF PythonSpec
-----------------------------------------------------------------------------
(* Whatever fails, whoever is killed and whichever ids coincide, the target*)
(* of synthesize_to_file only changes to a whole file.  The argument:      *)
(* create_new gives a call a temporary file nobody else is using, and      *)
(* TempIsItsOwn then holds until the call renames or removes it, since two *)
(* calls with the same name would disagree about its owner.                *)

FileInv == TypeOK /\ TempIsItsOwn

(* Parts and whole files of different calls are different files. *)
LEMMA FilesDiffer ==
  ASSUME NEW v \in Writer, NEW w \in Writer
  PROVE  /\ Part(v) \in Audio /\ Whole(v) \in Audio
         /\ Part(v) # Absent /\ Whole(v) # Absent
         /\ Part(v) # Whole(w)
         /\ Part(v) = Part(w) => v = w
         /\ Whole(v) = Whole(w) => v = w
<1>1. Part(v) \in Audio /\ Whole(v) \in Audio
  BY DEF Part, Whole, Audio
<1>2. Part(v).of = v /\ Whole(v).of = v /\ Part(w).of = w /\ Whole(w).of = w
  BY DEF Part, Whole
<1>3. Part(v).whole = FALSE /\ Whole(w).whole = TRUE
  BY DEF Part, Whole
<1> QED BY <1>1, <1>2, <1>3, FileAssumption

(* At the start no call has a temporary file. *)
LEMMA InitFileInv == Init => FileInv
<1> SUFFICES ASSUME Init PROVE FileInv
  OBVIOUS
<1>1. target \in Audio \cup {Old, Absent} /\ crashes \in 0..MaxCrashes
  BY BoundAssumption DEF Init
<1>2. stage \in [Writer -> Running \cup {"idle", "ok", "failed", "killed"}]
  BY DEF Init
<1>3. temp \in [Name -> Audio \cup {Absent}]
  BY DEF Init
<1>4. home \in [Writer -> Process] /\ pid \in [Process -> Pid]
  BY DEF Init
<1>5. name \in [Writer -> Name]
  BY <1>4, BoundAssumption DEF Init, Name
<1>6. counter \in [Process -> 0..(MaxCounter + 1)]
  BY BoundAssumption DEF Init
<1>7. TempIsItsOwn
  BY DEF Init, TempIsItsOwn
<1> QED BY <1>1, <1>2, <1>3, <1>4, <1>5, <1>6, <1>7 DEF FileInv, TypeOK

(* A call that works with its own file touches nobody else's. *)
LEMMA OwnFileOnly ==
  ASSUME FileInv, NEW v \in Writer, NEW w \in Writer,
         stage[v] \in {"writing", "written"}, stage[w] \in {"writing", "written"},
         name[v] = name[w]
  PROVE  v = w
<1>1. temp[name[v]] = IF stage[v] = "writing" THEN Part(v) ELSE Whole(v)
  BY DEF FileInv, TempIsItsOwn
<1>2. temp[name[v]] = IF stage[w] = "writing" THEN Part(w) ELSE Whole(w)
  BY DEF FileInv, TempIsItsOwn
<1>3. Part(v) # Whole(w) /\ Part(w) # Whole(v)
  BY FilesDiffer
<1>4. (Part(v) = Part(w) => v = w) /\ (Whole(v) = Whole(w) => v = w)
  BY FilesDiffer
<1> QED BY <1>1, <1>2, <1>3, <1>4

(* Every step of a call, and every kill, preserves FileInv. *)
LEMMA NextFileInv == FileInv /\ [Next]_vars => FileInv'
<1> SUFFICES ASSUME FileInv, [Next]_vars PROVE FileInv'
  OBVIOUS
<1> USE DEF FileInv
<1>1. ASSUME NEW w \in Writer, Begin(w) \/ Encode(w) \/ EncodeFails(w) \/ CreateFails(w)
      PROVE  FileInv'
  <2>1. TypeOK'
    BY <1>1 DEF TypeOK, Begin, Encode, EncodeFails, CreateFails, Goto, Running
  <2>2. TempIsItsOwn'
    BY <1>1 DEF TypeOK, TempIsItsOwn, Begin, Encode, EncodeFails, CreateFails, Goto
  <2> QED BY <2>1, <2>2
<1>2. ASSUME NEW w \in Writer, NameTemp(w) PROVE FileInv'
  <2> USE <1>2 DEF NameTemp
  <2>1. stage' \in [Writer -> Running \cup {"idle", "ok", "failed", "killed"}]
    BY DEF TypeOK, Goto, Running
  <2>2. counter[home[w]] \in 0..MaxCounter /\ pid[home[w]] \in Pid
    BY BoundAssumption DEF TypeOK
  <2>3. name' \in [Writer -> Name]
    BY <2>2 DEF TypeOK, Name
  <2>4. counter' \in [Process -> 0..(MaxCounter + 1)]
    BY <2>2, BoundAssumption DEF TypeOK
  <2>5. TypeOK'
    BY <2>1, <2>3, <2>4 DEF TypeOK
  <2>6. TempIsItsOwn'
    BY DEF TypeOK, TempIsItsOwn, Goto
  <2> QED BY <2>5, <2>6
<1>3. ASSUME NEW w \in Writer, CreateTemp(w) PROVE FileInv'
  <2> USE <1>3 DEF CreateTemp
  <2>1. Part(w) \in Audio
    BY FilesDiffer
  <2>2. TypeOK'
    BY <2>1 DEF TypeOK, Goto, Running
  <2>3. ASSUME NEW v \in Writer, stage'[v] \in {"writing", "written"}
        PROVE  temp'[name'[v]] = IF stage'[v] = "writing" THEN Part(v) ELSE Whole(v)
    <3>1. CASE v = w
      BY <3>1 DEF TypeOK, Goto
    <3>2. CASE v # w
      <4>1. stage'[v] = stage[v]
        BY <3>2 DEF TypeOK, Goto
      <4>2. temp[name[v]] = IF stage[v] = "writing" THEN Part(v) ELSE Whole(v)
        BY <4>1, <2>3 DEF TempIsItsOwn
      <4>3. Part(v) # Absent /\ Whole(v) # Absent
        BY FilesDiffer
      <4>4. name[v] # name[w]
        BY <4>2, <4>3
      <4> QED BY <4>1, <4>2, <4>4 DEF TypeOK
    <3> QED BY <3>1, <3>2
  <2> QED BY <2>2, <2>3 DEF TempIsItsOwn
<1>4. ASSUME NEW w \in Writer,
             stage[w] \in {"writing", "written"},
             NEW rest \in Audio \cup {Absent},
             temp' = [temp EXCEPT ![name[w]] = rest],
             NEW place \in {"written", "ok", "failed"},
             Goto(w, place),
             place = "written" => rest = Whole(w),
             UNCHANGED <<home, name, pid, counter, crashes>>,
             target' \in Audio \cup {Old, Absent}
      PROVE  FileInv'
  <2> USE <1>4
  <2>1. stage' \in [Writer -> Running \cup {"idle", "ok", "failed", "killed"}]
    BY DEF TypeOK, Goto, Running
  <2>2. TypeOK'
    BY <2>1 DEF TypeOK
  <2>3. ASSUME NEW v \in Writer, stage'[v] \in {"writing", "written"}
        PROVE  temp'[name'[v]] = IF stage'[v] = "writing" THEN Part(v) ELSE Whole(v)
    <3>1. CASE v = w
      BY <2>3, <3>1 DEF TypeOK, Goto
    <3>2. CASE v # w
      <4>1. stage'[v] = stage[v]
        BY <3>2 DEF TypeOK, Goto
      <4>2. temp[name[v]] = IF stage[v] = "writing" THEN Part(v) ELSE Whole(v)
        BY <4>1, <2>3 DEF TempIsItsOwn
      <4>3. name[v] # name[w]
        BY <4>1, <2>3, <3>2, OwnFileOnly
      <4> QED BY <4>1, <4>2, <4>3 DEF TypeOK
    <3> QED BY <3>1, <3>2
  <2> QED BY <2>2, <2>3 DEF TempIsItsOwn
<1>5. ASSUME NEW w \in Writer, Write(w) PROVE FileInv'
  <2>1. Whole(w) \in Audio
    BY FilesDiffer
  <2>2. target' \in Audio \cup {Old, Absent}
    BY <1>5 DEF Write, TypeOK
  <2> QED BY <1>4, <1>5, <2>1, <2>2 DEF Write
<1>6. ASSUME NEW w \in Writer, WriteFails(w) \/ RenameFails(w) PROVE FileInv'
  <2>1. temp[name[w]] \in Audio \cup {Absent}
    BY DEF TypeOK
  <2>2. PICK rest \in Audio \cup {Absent} : temp' = [temp EXCEPT ![name[w]] = rest]
    BY <1>6, <2>1 DEF WriteFails, RenameFails, TryRemove
  <2>3. target' \in Audio \cup {Old, Absent}
    BY <1>6 DEF WriteFails, RenameFails, TypeOK
  <2> QED BY <1>4, <1>6, <2>2, <2>3 DEF WriteFails, RenameFails
<1>7. ASSUME NEW w \in Writer, Rename(w) PROVE FileInv'
  <2>1. target' \in Audio \cup {Old, Absent}
    BY <1>7 DEF Rename, TypeOK
  <2> QED BY <1>4, <1>7, <2>1 DEF Rename
<1>8. ASSUME NEW p \in Process, Crash(p) PROVE FileInv'
  <2> USE <1>8 DEF Crash
  <2>1. stage' \in [Writer -> Running \cup {"idle", "ok", "failed", "killed"}]
    BY DEF TypeOK
  <2>2. crashes' \in 0..MaxCrashes
    BY BoundAssumption DEF TypeOK
  <2>3. counter' \in [Process -> 0..(MaxCounter + 1)]
    BY BoundAssumption DEF TypeOK
  <2>4. pid' \in [Process -> Pid]
    BY DEF TypeOK
  <2>5. TypeOK'
    BY <2>1, <2>2, <2>3, <2>4 DEF TypeOK
  <2>6. TempIsItsOwn'
    BY DEF TypeOK, TempIsItsOwn
  <2> QED BY <2>5, <2>6
<1>9. CASE UNCHANGED vars
  BY <1>9 DEF vars, TypeOK, TempIsItsOwn
<1> QED
  BY <1>1, <1>2, <1>3, <1>5, <1>6, <1>7, <1>8, <1>9 DEF Next

LEMMA FileInvariance == Spec => []FileInv
<1> QED BY InitFileInv, NextFileInv, PTL DEF Spec

(* Every state of the writers is well typed, for any numbers of calls,     *)
(* processes, ids, kills and temporary names.                              *)
THEOREM TypeCorrect == Spec => []TypeOK
<1>1. FileInv => TypeOK
  BY DEF FileInv
<1> QED BY <1>1, FileInvariance, PTL

(* A call that writes or renames has its temporary file to itself: the     *)
(* create_new in write_wave_samples_to_file, not the name, guarantees it.  *)
THEOREM TempFilesAreOwned == Spec => []TempIsItsOwn
<1>1. FileInv => TempIsItsOwn
  BY DEF FileInv
<1> QED BY <1>1, FileInvariance, PTL

(* The target only changes to the whole audio of the call that renames.    *)
THEOREM TargetStaysWhole == Spec => TargetIsWhole
<1> DEFINE Replaced == target' # target =>
             \E w \in Writer : target' = Whole(w) /\ stage[w] # "ok" /\ stage'[w] = "ok"
<1>1. FileInv /\ [Next]_vars => Replaced
  <2> SUFFICES ASSUME FileInv, Next, target' # target
               PROVE  \E w \in Writer : target' = Whole(w) /\ stage[w] # "ok" /\ stage'[w] = "ok"
    BY DEF vars
  <2>1. PICK w \in Writer : Rename(w)
    BY DEF Next, Begin, Encode, EncodeFails, NameTemp, CreateTemp, CreateFails, Write,
           WriteFails, RenameFails, Crash
  <2>2. target' = Whole(w)
    BY <2>1 DEF Rename, FileInv, TempIsItsOwn
  <2>3. stage[w] # "ok" /\ stage'[w] = "ok"
    BY <2>1 DEF Rename, Goto, FileInv, TypeOK
  <2> QED BY <2>2, <2>3
<1> QED BY <1>1, FileInvariance, PTL DEF Spec, TargetIsWhole

-----------------------------------------------------------------------------
(* The requests of a session of the command.                                *)

(* What the voice is set to for a request is what the request is entitled  *)
(* to; a request that is over has its chunks, on standard output in order  *)
(* or in its file; and there is nothing of the lines to come.              *)
Values == Lines \cup {None, Factory, HardCoded}
SpokenChunk == [line : Lines, settings : [Fields -> Values]]

ProgressInv ==
  /\ cliVoice \in Voices
  /\ settings \in [Fields -> Values]
  /\ toFile \in BOOLEAN /\ fromFile \in BOOLEAN
  /\ at \in {"starting", "reading", "configuring", "speaking", "done", "failed"}
  /\ count \in 0..MaxLines
  /\ asks \in [Lines -> Requests]
  /\ skipped \subseteq 1..count
  /\ at = "starting" => count = 0
  /\ at \in {"configuring", "speaking"} => count \in Lines \ skipped
  /\ at = "speaking" => Effective(cliVoice, settings) = Entitled(count)
  /\ fromFile /\ at \in {"configuring", "speaking"} => count = 1
  /\ fromFile /\ at = "reading" => count = 0

StdoutInv ==
  /\ stdout \in Seq(SpokenChunk)
  /\ \A i \in 1..Len(stdout) : stdout[i].line <= count
  /\ \A i \in 1..Len(stdout) : stdout[i].settings = Entitled(stdout[i].line)
  /\ \A i \in 1..Len(stdout) - 1 : stdout[i].line <= stdout[i + 1].line
  /\ \A n \in Lines : Finished(n) /\ ~toFile => Written(n) = asks[n].chunks

FilesInv ==
  /\ files \in [Lines -> [settings : [Fields -> Values], chunks : 0..MaxChunks]]
  /\ \A n \in Lines :
       /\ files[n].chunks > 0 => files[n].settings = Entitled(n)
       /\ files[n].chunks = IF toFile /\ Finished(n) THEN asks[n].chunks ELSE 0

AnswersInv == ProgressInv /\ StdoutInv /\ FilesInv

LEMMA AnswersInvInit == CliInit => AnswersInv
<1> SUFFICES ASSUME CliInit PROVE AnswersInv
  OBVIOUS
<1>1. MaxLines \in Nat /\ MaxChunks \in Nat
  BY LineAssumption
<1>2. Loaded(cliVoice) \in [Fields -> Values] /\ Empty \in [Fields -> Values]
  BY DEF Loaded, Empty, Values, Fields, Scales
<1>3. \A n : ~Finished(n)
  BY DEF CliInit, Finished
<1>4. NoRequest \in Requests
  BY <1>1 DEF NoRequest, Requests
<1>5. ProgressInv
  BY <1>1, <1>2, <1>4 DEF CliInit, ProgressInv
<1>6. StdoutInv
  BY <1>3 DEF CliInit, StdoutInv
<1>7. FilesInv
  BY <1>1, <1>2, <1>3 DEF CliInit, FilesInv, NoFile
<1>8. QED
  BY <1>5, <1>6, <1>7 DEF AnswersInv

(* One more chunk of line n is one more of n and none of any other line.   *)
LEMMA WrittenGrows ==
  ASSUME stdout \in Seq(SpokenChunk), NEW c \in SpokenChunk, stdout' = Append(stdout, c), NEW n, n # c.line
  PROVE  Written(n)' = Written(n)
<1>1. Len(stdout) \in Nat /\ Len(stdout') = Len(stdout) + 1
  OBVIOUS
<1>2. \A i \in 1..Len(stdout) : stdout'[i] = stdout[i]
  OBVIOUS
<1>3. stdout'[Len(stdout) + 1] = c
  OBVIOUS
<1>4. {i \in 1..Len(stdout') : stdout'[i].line = n} = {i \in 1..Len(stdout) : stdout[i].line = n}
  BY <1>1, <1>2, <1>3
<1>5. QED
  BY <1>4 DEF Written

(* A request only changes its own entitlement.                             *)
LEMMA EntitledKept ==
  ASSUME NEW n, asks'[n] = asks[n], cliVoice' = cliVoice
  PROVE  Entitled(n)' = Entitled(n)
  BY DEF Entitled, Effective

LEMMA ConfiguredIsEntitled ==
  ASSUME NEW n \in Lines, NEW config, cliVoice \in Voices
  PROVE  Effective(cliVoice, SetConfig(cliVoice, config, Requested(n))) = Entitled(n)
<1> DEFINE asked == Requested(n)
           set == SetConfig(cliVoice, config, asked)
           own == [f \in Fields |-> IF f \in asks[n].sets THEN n ELSE Factory]
<1>1. n # None /\ Factory # None
  BY ValueAssumption
<1>2. \A f \in Fields : asked[f] = IF f \in asks[n].sets THEN n ELSE DefaultConfig(cliVoice)[f]
  BY DEF Requested
<1>3. \A f \in Fields : set[f] = IF cliVoice.model = "piper"
        THEN IF asked[f] # None THEN asked[f] ELSE IF f = Speaker THEN config[f] ELSE HardCoded
        ELSE asked[f]
  BY DEF SetConfig, FilledIn
<1>4. DefaultConfig(cliVoice)[Speaker] = IF cliVoice.speakers THEN Factory ELSE None
  BY DEF DefaultConfig, Fields, Speaker, Scales
<1>5. cliVoice.model \in {"piper", "melo", "kokoro"}
  BY DEF Voices
<1>6. \A f \in Scales : DefaultConfig(cliVoice)[f] =
        IF cliVoice.model = "piper" \/ (cliVoice.model = "melo" /\ f # "noise_w") THEN Factory ELSE None
  <2> SUFFICES ASSUME NEW f \in Scales PROVE DefaultConfig(cliVoice)[f] =
        IF cliVoice.model = "piper" \/ (cliVoice.model = "melo" /\ f # "noise_w") THEN Factory ELSE None
    OBVIOUS
  <2>1. f \in Fields /\ f # Speaker
    BY DEF Fields, Scales, Speaker
  <2>2. CASE cliVoice.model = "piper"
    BY <2>1, <2>2 DEF DefaultConfig, Fields, Speaker, Scales
  <2>3. CASE cliVoice.model = "melo"
    BY <2>1, <2>3 DEF DefaultConfig, Fields, Speaker, Scales
  <2>4. CASE cliVoice.model = "kokoro"
    BY <2>1, <2>4 DEF DefaultConfig, Fields, Speaker, Scales
  <2>5. QED
    BY <1>5, <2>2, <2>3, <2>4
<1>7. \A f \in Fields : own[f] = IF f \in asks[n].sets THEN n ELSE Factory
  OBVIOUS
<1> HIDE DEF asked, set, own
<1>8. \A f \in Fields : Effective(cliVoice, set)[f] = Effective(cliVoice, own)[f]
  <2> SUFFICES ASSUME NEW f \in Fields PROVE Effective(cliVoice, set)[f] = Effective(cliVoice, own)[f]
    OBVIOUS
  <2>1. CASE f = Speaker
    BY <1>1, <1>2, <1>3, <1>4, <1>5, <1>7, <2>1 DEF Effective
  <2>2. CASE f \in Scales
    BY <1>1, <1>2, <1>3, <1>5, <1>6, <1>7, <2>2 DEF Effective, Fields, Scales, Speaker
  <2>3. QED
    BY <2>1, <2>2 DEF Fields
<1>9. Effective(cliVoice, set) = Effective(cliVoice, own)
  BY <1>8 DEF Effective
<1>10. QED
  BY <1>9 DEF Entitled, own, set, asked

(* A step that writes no audio and at most ends a request that has all its *)
(* chunks on standard output.                                              *)
LEMMA AudioRests ==
  ASSUME AnswersInv, UNCHANGED <<inputVars, outputVars>>, count' \in Nat, count <= count',
         \A n \in Lines : n <= count => asks'[n] = asks[n],
         \A n \in Lines : Finished(n) => Finished(n)',
         \A n \in Lines : Finished(n)' =>
           Finished(n) \/ (n <= count /\ ~toFile /\ Written(n) = asks[n].chunks)
  PROVE  StdoutInv' /\ FilesInv'
<1> USE DEF inputVars, outputVars
<1>1. count \in Nat /\ MaxLines \in Nat
  BY LineAssumption DEF AnswersInv, ProgressInv
<1>2. \A n \in Lines : n <= count => Entitled(n)' = Entitled(n)
  BY EntitledKept
<1>3. \A n : Written(n)' = Written(n)
  BY DEF Written
<1>4. \A n \in Lines : Finished(n) => n <= count
  BY <1>1 DEF Finished
<1>5. \A i \in 1..Len(stdout) : stdout[i].line \in Lines
  <2>1. \A i \in 1..Len(stdout) : stdout[i] \in SpokenChunk
    BY DEF AnswersInv, StdoutInv
  <2>2. QED
    BY <2>1 DEF SpokenChunk
<1>6. StdoutInv'
  <2>1. \A i \in 1..Len(stdout) : stdout[i].line <= count'
    BY <1>1, <1>5 DEF AnswersInv, StdoutInv, Lines
  <2>2. \A i \in 1..Len(stdout) : stdout[i].settings = Entitled(stdout[i].line)'
    BY <1>2, <1>5 DEF AnswersInv, StdoutInv
  <2>3. \A n \in Lines : Finished(n)' /\ ~toFile => Written(n)' = asks'[n].chunks
    BY <1>3, <1>4 DEF AnswersInv, StdoutInv
  <2>4. QED
    BY <2>1, <2>2, <2>3 DEF AnswersInv, StdoutInv
<1>7. FilesInv'
  <2>1. \A n \in Lines : Finished(n) \/ files[n].chunks = 0
    BY DEF AnswersInv, FilesInv
  <2>2. \A n \in Lines : files[n].chunks > 0 => files[n].settings = Entitled(n)'
    BY <1>2, <1>4, <2>1 DEF AnswersInv, FilesInv
  <2>3. \A n \in Lines :
          files[n].chunks = IF toFile /\ Finished(n)' THEN asks'[n].chunks ELSE 0
    BY <1>4 DEF AnswersInv, FilesInv
  <2>4. QED
    BY <2>2, <2>3 DEF AnswersInv, FilesInv
<1>8. QED
  BY <1>6, <1>7

LEMMA ReadingStep ==
  ASSUME AnswersInv, CliStart \/ ReadLine \/ EndOfInput \/ ReadInputFile
  PROVE  AnswersInv'
<1> USE LineAssumption DEF inputVars, outputVars, Go, Lines
<1> USE DEF AnswersInv
<1>0. count \in Nat /\ MaxLines \in Nat /\ skipped \subseteq 1..count
  BY DEF ProgressInv
<1>1. CASE CliStart
  <2>1. ProgressInv'
    BY <1>1 DEF CliStart, ProgressInv, Values
  <2>2. \A n : ~Finished(n) /\ ~Finished(n)'
    BY <1>1 DEF CliStart, ProgressInv, Finished
  <2>3. QED
    BY <1>0, <1>1, <2>1, <2>2, AudioRests DEF CliStart
<1>2. CASE ReadLine
  <2>1. ProgressInv'
    <3>1. count' = count + 1 /\ count' \in 1..MaxLines /\ count' \notin skipped
      BY <1>0, <1>2 DEF ReadLine
    <3>2. asks' \in [1..MaxLines -> Requests]
      BY <1>2 DEF ReadLine, ProgressInv
    <3>3. skipped' \subseteq 1..count' /\ (at' = "configuring" => count' \notin skipped')
      <4>1. \/ at' = "configuring" /\ skipped' = skipped
            \/ at' = "reading" /\ skipped' = skipped \cup {count'}
        BY <1>2 DEF ReadLine
      <4>2. skipped \subseteq 1..count' /\ count' \in 1..count'
        BY <1>0, <3>1
      <4>3. QED
        BY <3>1, <4>1, <4>2
    <3>4. at' \in {"configuring", "reading"} /\ ~fromFile
      BY <1>2 DEF ReadLine
    <3>5. QED
      BY <1>0, <1>2, <3>1, <3>2, <3>3, <3>4 DEF ReadLine, ProgressInv
  <2>2. \A n \in Lines : n <= count => asks'[n] = asks[n]
    BY <1>0, <1>2 DEF ReadLine, ProgressInv
  <2>3. \A n \in Lines : Finished(n) <=> Finished(n)'
    <3>1. \A n \in Lines : Finished(n) <=> n <= count /\ n \notin skipped
      BY <1>0, <1>2 DEF ReadLine, Finished
    <3>2. \A n \in Lines : Finished(n)' <=> n <= count /\ n \notin skipped
      BY <1>0, <1>2 DEF ReadLine, Finished
    <3>3. QED
      BY <3>1, <3>2
  <2>4. UNCHANGED <<inputVars, outputVars>> /\ count' \in Nat /\ count <= count'
    BY <1>0, <1>2 DEF ReadLine
  <2>5. QED
    BY <2>1, <2>2, <2>3, <2>4, AudioRests
<1>3. CASE EndOfInput
  <2>1. ProgressInv'
    BY <1>3 DEF EndOfInput, ProgressInv
  <2>2. \A n : Finished(n)' <=> Finished(n)
    BY <1>3 DEF EndOfInput, Finished
  <2>3. QED
    BY <1>0, <1>3, <2>1, <2>2, AudioRests DEF EndOfInput
<1>4. CASE ReadInputFile
  <2>0. count = 0 /\ fromFile /\ at = "reading" /\ skipped = {}
    BY <1>0, <1>4 DEF ReadInputFile, ProgressInv
  <2>1. ProgressInv'
    <3>1. asks' \in [1..MaxLines -> Requests]
      BY <1>4 DEF ReadInputFile, ProgressInv
    <3>2. QED
      BY <1>4, <2>0, <3>1 DEF ReadInputFile, ProgressInv
  <2>2. \A n : ~Finished(n) /\ ~Finished(n)'
    BY <1>4, <2>0 DEF ReadInputFile, Finished
  <2>3. QED
    BY <1>0, <1>4, <2>0, <2>1, <2>2, AudioRests DEF ReadInputFile
<1>5. QED
  BY <1>1, <1>2, <1>3, <1>4

LEMMA RequestStep ==
  ASSUME AnswersInv, Configure \/ SpokenToStdout \/ SpeakFails
  PROVE  AnswersInv'
<1> USE LineAssumption DEF inputVars, outputVars, Go
<1> USE DEF AnswersInv
<1>0. count \in Nat /\ count \in Lines \ skipped /\ count \in 1..count
  BY DEF ProgressInv, Configure, SpokenToStdout, SpeakFails, Lines
<1>1. CASE Configure
  <2>1. settings' \in [Fields -> Values]
    <3>1. \A f \in Fields : Requested(count)[f] \in Values
      <4>1. \A f \in Fields : DefaultConfig(cliVoice)[f] \in {None, Factory}
        <5>1. cliVoice.model \in {"piper", "melo", "kokoro"}
          BY DEF ProgressInv, Voices
        <5>2. QED
          BY <5>1 DEF DefaultConfig, Fields, Speaker, Scales
      <4>2. QED
        BY <1>0, <4>1 DEF Requested, Values
    <3>2. QED
      BY <1>0, <1>1, <3>1 DEF Configure, ProgressInv, SetConfig, FilledIn, Requested, Values
  <2>2. at' = "speaking" => Effective(cliVoice, settings') = Entitled(count)
    BY <1>0, <1>1, ConfiguredIsEntitled DEF Configure, ProgressInv
  <2>3. Entitled(count)' = Entitled(count)
    BY <1>1, EntitledKept DEF Configure
  <2>4. ProgressInv'
    BY <1>1, <2>1, <2>2, <2>3 DEF Configure, ProgressInv
  <2>5. \A n : Finished(n)' <=> Finished(n)
    BY <1>1 DEF Configure, Finished
  <2>6. QED
    BY <1>0, <1>1, <2>4, <2>5, AudioRests DEF Configure
<1>2. CASE SpokenToStdout
  <2>1. ProgressInv'
    BY <1>0, <1>2 DEF SpokenToStdout, ProgressInv
  <2>2. \A n : Finished(n) => Finished(n)'
    BY <1>2 DEF SpokenToStdout, Finished
  <2>3. \A n : Finished(n)' => Finished(n) \/ n = count
    BY <1>2 DEF SpokenToStdout, Finished
  <2>4. QED
    BY <1>0, <1>2, <2>1, <2>2, <2>3, AudioRests DEF SpokenToStdout
<1>3. CASE SpeakFails
  <2>1. ProgressInv'
    BY <1>3 DEF SpeakFails, ProgressInv
  <2>2. \A n : Finished(n)' <=> Finished(n)
    BY <1>3 DEF SpeakFails, Finished
  <2>3. QED
    BY <1>0, <1>3, <2>1, <2>2, AudioRests DEF SpeakFails
<1>4. QED
  BY <1>1, <1>2, <1>3

LEMMA WriteChunkStep == ASSUME AnswersInv, WriteChunk PROVE AnswersInv'
<1> USE LineAssumption DEF inputVars, outputVars, Go
<1> USE DEF AnswersInv
<1> DEFINE c == [line |-> count, settings |-> Effective(cliVoice, settings)]
<1>0. count \in Nat /\ count \in Lines /\ at = "speaking" /\ ~toFile
  BY DEF ProgressInv, WriteChunk, Lines
<1>1. stdout \in Seq(SpokenChunk) /\ Len(stdout) \in Nat
  BY DEF StdoutInv
<1>2. c \in SpokenChunk
  <2>1. \A f \in Fields : settings[f] \in Values
    BY DEF ProgressInv
  <2>2. Effective(cliVoice, settings) \in [Fields -> Values]
    BY <2>1 DEF Effective, Values
  <2>3. QED
    BY <1>0, <2>2 DEF SpokenChunk
<1>3. stdout' = Append(stdout, c) /\ c.line = count /\ c.settings = Entitled(count)
  BY <1>0 DEF WriteChunk, ProgressInv
<1> HIDE DEF c
<1>4. \A n : Entitled(n)' = Entitled(n)
  BY EntitledKept DEF WriteChunk
<1>5. \A n : Finished(n)' <=> Finished(n)
  BY DEF WriteChunk, Finished
<1>6. ProgressInv'
  BY <1>4 DEF WriteChunk, ProgressInv
<1>7. stdout' \in Seq(SpokenChunk) /\ Len(stdout') = Len(stdout) + 1
  BY <1>1, <1>2, <1>3
<1>8. \A i \in 1..Len(stdout) : stdout'[i] = stdout[i]
  BY <1>1, <1>3
<1>9. stdout'[Len(stdout) + 1] = c
  BY <1>1, <1>3
<1>10. \A i \in 1..Len(stdout) : stdout[i].line \in Nat /\ stdout[i].line <= count
  <2>1. \A i \in 1..Len(stdout) : stdout[i] \in SpokenChunk
    BY <1>1
  <2>2. QED
    BY <2>1 DEF StdoutInv, SpokenChunk, Lines
<1>11. StdoutInv'
  <2>1. \A i \in 1..Len(stdout') : stdout'[i].line <= count
    BY <1>0, <1>1, <1>3, <1>7, <1>8, <1>9, <1>10
  <2>2. \A i \in 1..Len(stdout') : stdout'[i].settings = Entitled(stdout'[i].line)
    BY <1>1, <1>3, <1>7, <1>8, <1>9 DEF StdoutInv
  <2>3. \A i \in 1..Len(stdout') - 1 : stdout'[i].line <= stdout'[i + 1].line
    <3> SUFFICES ASSUME NEW i \in 1..Len(stdout) PROVE stdout'[i].line <= stdout'[i + 1].line
      BY <1>1, <1>7
    <3>1. CASE i = Len(stdout)
      BY <1>1, <1>3, <1>8, <1>9, <1>10, <3>1
    <3>2. CASE i # Len(stdout)
      <4>1. i \in 1..Len(stdout) - 1 /\ i + 1 \in 1..Len(stdout)
        BY <1>1, <3>2
      <4>2. QED
        BY <1>8, <4>1 DEF StdoutInv
    <3>3. QED
      BY <3>1, <3>2
  <2>4. \A n \in Lines : Finished(n) /\ ~toFile => Written(n)' = asks[n].chunks
    <3> SUFFICES ASSUME NEW n \in Lines, Finished(n), ~toFile PROVE Written(n)' = asks[n].chunks
      OBVIOUS
    <3>1. n # count
      BY <1>0 DEF Finished
    <3>2. Written(n)' = Written(n)
      BY <1>1, <1>2, <1>3, <3>1, WrittenGrows
    <3>3. QED
      BY <3>2 DEF StdoutInv
  <2>5. UNCHANGED <<count, asks, toFile>>
    BY DEF WriteChunk
  <2>6. QED
    BY <1>4, <1>5, <1>7, <2>1, <2>2, <2>3, <2>4, <2>5 DEF StdoutInv
<1>12. FilesInv'
  BY <1>4, <1>5 DEF WriteChunk, FilesInv
<1>13. QED
  BY <1>6, <1>11, <1>12

LEMMA SpokenToFileStep == ASSUME AnswersInv, SpokenToFile PROVE AnswersInv'
<1> USE LineAssumption DEF inputVars, outputVars, Go
<1> USE DEF AnswersInv
<1> DEFINE recording == [settings |-> Effective(cliVoice, settings), chunks |-> asks[count].chunks]
<1>0. count \in Nat /\ count \in Lines \ skipped /\ at = "speaking" /\ toFile /\ count \in 1..count
  BY DEF ProgressInv, SpokenToFile, Lines
<1>1. Enumerated(count) = count
  BY <1>0 DEF Enumerated, ProgressInv
<1>2. files' = [files EXCEPT ![count] = recording]
  BY <1>1 DEF SpokenToFile
<1>3. recording \in [settings : [Fields -> Values], chunks : 0..MaxChunks]
  <2>1. \A f \in Fields : settings[f] \in Values
    BY DEF ProgressInv
  <2>2. Effective(cliVoice, settings) \in [Fields -> Values]
    BY <2>1 DEF Effective, Values
  <2>3. asks[count] \in Requests
    BY <1>0 DEF ProgressInv
  <2>4. QED
    BY <2>2, <2>3 DEF Requests
<1>4. recording.settings = Entitled(count) /\ recording.chunks = asks[count].chunks
  BY <1>0 DEF ProgressInv
<1> HIDE DEF recording
<1>5. \A n : Entitled(n)' = Entitled(n)
  BY EntitledKept DEF SpokenToFile
<1>6. \A n : Finished(n)' <=> Finished(n) \/ n = count
  BY <1>0 DEF SpokenToFile, Finished
<1>7. ~Finished(count)
  BY <1>0 DEF Finished
<1>8. ProgressInv'
  BY <1>0 DEF SpokenToFile, ProgressInv
<1>9. \A n : Written(n)' = Written(n)
  BY DEF Written, SpokenToFile
<1>10. StdoutInv'
  BY <1>0, <1>5, <1>9 DEF SpokenToFile, StdoutInv
<1>11. FilesInv'
  <2>1. files' \in [Lines -> [settings : [Fields -> Values], chunks : 0..MaxChunks]]
    BY <1>2, <1>3 DEF FilesInv
  <2>2. \A n \in Lines : files'[n] = IF n = count THEN recording ELSE files[n]
    BY <1>2 DEF FilesInv
  <2>3. UNCHANGED <<toFile, asks>>
    BY DEF SpokenToFile
  <2>4. \A n \in Lines : files'[n].chunks > 0 => files'[n].settings = Entitled(n)
    BY <1>4, <2>2 DEF FilesInv
  <2>5. \A n \in Lines :
          files'[n].chunks = IF toFile /\ Finished(n)' THEN asks[n].chunks ELSE 0
    BY <1>0, <1>4, <1>6, <2>2 DEF FilesInv
  <2>6. QED
    BY <1>5, <2>1, <2>3, <2>4, <2>5 DEF FilesInv
<1>12. QED
  BY <1>8, <1>10, <1>11

LEMMA AnswersInvStep == AnswersInv /\ [CliNext]_cliVars => AnswersInv'
<1> SUFFICES ASSUME AnswersInv, [CliNext]_cliVars PROVE AnswersInv'
  OBVIOUS
<1>1. CASE CliNext
  BY <1>1, ReadingStep, RequestStep, WriteChunkStep, SpokenToFileStep DEF CliNext
<1>2. CASE UNCHANGED cliVars
  <2>1. \A n : Entitled(n)' = Entitled(n)
    BY <1>2, EntitledKept DEF cliVars, inputVars
  <2>2. \A n : (Finished(n)' <=> Finished(n)) /\ Written(n)' = Written(n)
    BY <1>2 DEF cliVars, outputVars, Finished, Written
  <2>3. ProgressInv'
    BY <1>2, <2>1 DEF cliVars, inputVars, AnswersInv, ProgressInv
  <2>4. StdoutInv'
    BY <1>2, <2>1, <2>2 DEF cliVars, inputVars, outputVars, AnswersInv, StdoutInv
  <2>5. FilesInv'
    BY <1>2, <2>1, <2>2 DEF cliVars, inputVars, outputVars, AnswersInv, FilesInv
  <2>6. QED
    BY <2>3, <2>4, <2>5 DEF AnswersInv
<1>3. QED
  BY <1>1, <1>2

(* However many lines a session has, whatever the model and whatever the   *)
(* requests set: each is spoken with its own settings, and its output is   *)
(* whole and in its place (process_synthesis_request).                     *)
THEOREM RequestsGetAnswers == CliSpec => []RequestsAreAnswered
<1>1. AnswersInv => RequestsAreAnswered
  BY DEF AnswersInv, StdoutInv, FilesInv, RequestsAreAnswered, RequestsAreIsolated, OutputFollowsInput
<1>2. QED
  BY <1>1, AnswersInvInit, AnswersInvStep, PTL DEF CliSpec
=============================================================================
