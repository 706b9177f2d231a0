------------------------- MODULE CheckProfileProofs -------------------------
(***************************************************************************)
(* What the runs of experiments, the llama checks and the verification     *)
(* profiles promise, for any number of them, whatever fails and whatever   *)
(* is killed.                                                              *)
(*                                                                         *)
(* The proofs are in three parts, of which the last one uses the others.   *)
(* What a profile adds to the runs and the llama checks is that it takes   *)
(* files away, and that it numbers: the runs a check may judge are those   *)
(* from first on, and no manifest and no ended run that an earlier check   *)
(* left has such a number.                                                 *)
(***************************************************************************)
EXTENDS CheckProfile, SequenceTheorems, TLAPS

-----------------------------------------------------------------------------
(***************************************************************************)
(* The runs.  The exit code of a run and its manifest agree, for every set *)
(* of output directories, every script and every number of runs.           *)
(*                                                                         *)
(* The argument is that run numbers are given in order.  A process that    *)
(* has not written its manifest has a number no manifest of its directory  *)
(* has, so what it leaves there when it cannot write one is an earlier     *)
(* run's or a torn one; a process that has written it ends with the exit   *)
(* code of the status it wrote.                                            *)
(***************************************************************************)

IsProcess(p) ==
  /\ p = [run |-> p.run, at |-> p.at, next |-> p.next, outputs |-> p.outputs,
          raised |-> p.raised, forced |-> p.forced]
  /\ p.at \in {"entering", "body", "leaving", "exiting"}
  /\ p.run \in Nat

Shapes ==
  /\ runs \in Nat
  /\ files = [d \in Dirs |-> files[d]]
  /\ manifest = [d \in Dirs |-> manifest[d]]
  /\ proc = [d \in Dirs |-> proc[d]]
  /\ ended = [d \in Dirs |-> ended[d]]

(* Numbers are given in order: none is above the count of started runs.    *)
NumbersKnown(d) ==
  /\ proc[d] = NoProc \/ (IsProcess(proc[d]) /\ proc[d].run <= runs)
  /\ manifest[d].run \in Nat /\ manifest[d].run <= runs

(* A process that has not written its manifest has a fresh number.         *)
NotYetWritten(d) ==
  proc[d].at \in {"entering", "body", "leaving"} => manifest[d].run # proc[d].run

(* One that has written it finds its own run and status there.             *)
Written(d) ==
  At(d, "exiting") =>
    manifest[d].run = proc[d].run /\ manifest[d].status = Status(proc[d])

(* ExitMatchesManifest in one directory.                                   *)
Truthful(d) ==
  At(d, "none") =>
    /\ ended[d].code = "ok" =>
         manifest[d].run = ended[d].run /\ manifest[d].status = "passed"
    /\ ended[d].code = "failed" =>
         IF ended[d].lost
           THEN manifest[d].run = ended[d].run => manifest[d].status = "torn"
           ELSE manifest[d].run = ended[d].run /\ manifest[d].status = "failed"

Core(d) == NumbersKnown(d) /\ NotYetWritten(d) /\ Written(d)

DirInv(d) == Core(d) /\ Truthful(d)

(* What any step needs: no exit code is part of it.                        *)
CInv == Shapes /\ \A d \in Dirs : Core(d)

IInv == Shapes /\ \A d \in Dirs : DirInv(d)

-----------------------------------------------------------------------------
(* A step in another directory keeps what holds of this one, whatever the  *)
(* count of started runs grows to (RunContext has no state outside its     *)
(* directory).                                                             *)
LEMMA OtherDirectory ==
  ASSUME NEW d \in Dirs, Core(d), runs \in Nat, runs' \in Nat, runs <= runs',
         proc'[d] = proc[d], manifest'[d] = manifest[d], ended'[d] = ended[d]
  PROVE  Core(d)' /\ (Truthful(d) => Truthful(d)')
<1>1. NumbersKnown(d)'
  BY DEF Core, NumbersKnown, IsProcess, NoProc
<1>2. NotYetWritten(d)' /\ Written(d)' /\ (Truthful(d) => Truthful(d)')
  BY DEF Core, NotYetWritten, Written, Truthful, At, Status
<1> QED
  BY <1>1, <1>2 DEF Core

(* The directories are empty at the start.                                 *)
LEMMA InitIInv == RunInit => IInv
<1> SUFFICES ASSUME RunInit PROVE IInv
  OBVIOUS
<1>1. Shapes
  BY DEF RunInit, Shapes
<1>2. ASSUME NEW d \in Dirs PROVE DirInv(d)
  BY DEF RunInit, DirInv, Core, NumbersKnown, NotYetWritten, Written, Truthful, At,
         NoProc, NoManifest
<1> QED
  BY <1>1, <1>2 DEF IInv

(* A step in one directory: the directory's own part of the invariant, and *)
(* the frame of the others.                                                *)
Frame(d) ==
  /\ Shapes'
  /\ runs <= runs'
  /\ \A e \in Dirs \ {d} :
       proc'[e] = proc[e] /\ manifest'[e] = manifest[e] /\ ended'[e] = ended[e]

(* Launching gives the next number, above that of every manifest.          *)
LEMMA LaunchStep ==
  ASSUME CInv, NEW d \in Dirs, Launch(d)
  PROVE  Frame(d) /\ DirInv(d)'
<1>1. Shapes /\ Core(d)
  BY DEF CInv
<1>2. runs' = runs + 1 /\ proc'[d] = Process(runs + 1)
      /\ manifest' = manifest /\ ended' = ended
  BY <1>1 DEF Launch, Put, Shapes
<1>3. Frame(d)
  BY <1>1, <1>2 DEF Frame, Shapes, Launch, Put
<1>4. NumbersKnown(d)'
  BY <1>1, <1>2 DEF Core, NumbersKnown, IsProcess, Process, Shapes
<1>5. NotYetWritten(d)'
  BY <1>1, <1>2 DEF Core, NumbersKnown, NotYetWritten, Process, Shapes
<1>6. Written(d)' /\ Truthful(d)'
  BY <1>2 DEF Written, Truthful, At, Process
<1> QED
  BY <1>3, <1>4, <1>5, <1>6 DEF DirInv, Core

(* The steps up to the manifest: the number and the manifest stay, and the *)
(* process is still on its way to writing it.                              *)
LEMMA BodyStep ==
  ASSUME CInv, NEW d \in Dirs,
         \/ Enter(d) \/ WriteFile(d) \/ AddOutput(d) \/ MarkFailed(d)
         \/ StepRaises(d) \/ LeaveBody(d)
  PROVE  Frame(d) /\ DirInv(d)'
<1>1. Shapes /\ Core(d)
  BY DEF CInv
<1>2. At(d, "entering") \/ At(d, "body")
  BY DEF Enter, WriteFile, AddOutput, MarkFailed, StepRaises, LeaveBody, InBody
<1>3. IsProcess(proc[d]) /\ proc[d].run <= runs
  BY <1>1, <1>2 DEF Core, NumbersKnown, NoProc, At
<1>4. manifest' = manifest /\ ended' = ended /\ runs' = runs
  BY DEF Enter, WriteFile, AddOutput, MarkFailed, StepRaises, LeaveBody
<1>5. files' = [e \in Dirs |-> files'[e]]
  BY <1>1 DEF Enter, WriteFile, AddOutput, MarkFailed, StepRaises, LeaveBody,
              WriteBytes, Shapes
<1>6. IsProcess(proc'[d]) /\ proc'[d].run = proc[d].run
      /\ proc'[d].at \in {"body", "leaving"}
  <2>1. CASE Enter(d)
    <3>1. CASE Put(d, [proc[d] EXCEPT !.at = "body"])
      BY <3>1, <1>1, <1>3 DEF IsProcess, Put, Shapes
    <3>2. CASE Put(d, Raise(proc[d]))
      BY <3>2, <1>1, <1>3 DEF IsProcess, Raise, Put, Shapes
    <3> QED
      BY <2>1, <3>1, <3>2 DEF Enter
  <2>2. CASE WriteFile(d)
    BY <2>2, <1>1, <1>3 DEF WriteFile, IsProcess, Advance, InBody, At, Put, Shapes
  <2>3. CASE AddOutput(d)
    BY <2>3, <1>1, <1>3 DEF AddOutput, IsProcess, Advance, InBody, At, Put, Shapes
  <2>4. CASE MarkFailed(d)
    BY <2>4, <1>1, <1>3 DEF MarkFailed, IsProcess, Advance, InBody, At, Put, Shapes
  <2>5. CASE StepRaises(d)
    BY <2>5, <1>1, <1>3 DEF StepRaises, IsProcess, Raise, Put, Shapes
  <2>6. CASE LeaveBody(d)
    BY <2>6, <1>1, <1>3 DEF LeaveBody, IsProcess, Put, Shapes
  <2> QED
    BY <2>1, <2>2, <2>3, <2>4, <2>5, <2>6
<1>7. proc' = [e \in Dirs |-> proc'[e]] /\ \A e \in Dirs \ {d} : proc'[e] = proc[e]
  BY <1>1 DEF Enter, WriteFile, AddOutput, MarkFailed, StepRaises, LeaveBody,
              Put, Shapes
<1>8. Frame(d)
  BY <1>1, <1>4, <1>5, <1>7 DEF Frame, Shapes
<1>9. NumbersKnown(d)'
  BY <1>1, <1>3, <1>4, <1>6 DEF Core, NumbersKnown, IsProcess
<1>10. NotYetWritten(d)'
  BY <1>1, <1>2, <1>4, <1>6 DEF Core, NotYetWritten, At
<1>11. Written(d)' /\ Truthful(d)'
  BY <1>6 DEF Written, Truthful, At
<1> QED
  BY <1>8, <1>9, <1>10, <1>11 DEF DirInv, Core

(* What the end of a process does to the tables.                           *)
Ended(d, code, lost) ==
  /\ proc'[d] = NoProc
  /\ ended'[d] = [run |-> proc[d].run, code |-> code, lost |-> lost]
  /\ proc' = [e \in Dirs |-> proc'[e]]
  /\ ended' = [e \in Dirs |-> ended'[e]]
  /\ \A e \in Dirs \ {d} : proc'[e] = proc[e] /\ ended'[e] = ended[e]

(* No directory: the process ends with a failure and a fresh number.       *)
LEMMA NoDirectoryStep ==
  ASSUME CInv, NEW d \in Dirs, NoDirectory(d)
  PROVE  Frame(d) /\ DirInv(d)'
<1>1. Shapes /\ Core(d) /\ End(d, "failed", TRUE)
      /\ UNCHANGED <<files, manifest, runs>> /\ At(d, "entering")
  BY DEF CInv, NoDirectory
<1>ended. Ended(d, "failed", TRUE)
  BY <1>1 DEF End, Put, Shapes, Ended
<1>2. Frame(d)
  BY <1>1, <1>ended DEF Frame, Shapes, Ended
<1>3. manifest[d].run # proc[d].run
  BY <1>1 DEF Core, NotYetWritten, At
<1>4. NumbersKnown(d)' /\ NotYetWritten(d)' /\ Written(d)'
  BY <1>1, <1>ended DEF Ended, Core, NumbersKnown, NotYetWritten, Written, At, NoProc
<1>5. Truthful(d)'
  BY <1>1, <1>3, <1>ended DEF Truthful, Ended
<1> QED
  BY <1>2, <1>4, <1>5 DEF DirInv, Core

(* The manifest is written, and the exit code is still to come; or it is   *)
(* not, and the old one or a torn one stays.                               *)
LEMMA FinalizeStep ==
  ASSUME CInv, NEW d \in Dirs, Finalize(d)
  PROVE  Frame(d) /\ DirInv(d)'
<1>1. Shapes /\ Core(d) /\ At(d, "leaving") /\ UNCHANGED <<files, runs>>
  BY DEF CInv, Finalize
<1>2. IsProcess(proc[d]) /\ proc[d].run <= runs /\ manifest[d].run # proc[d].run
  BY <1>1 DEF Core, NumbersKnown, NotYetWritten, NoProc, At
<1>3. CASE /\ manifest' = [manifest EXCEPT ![d] = Saved(proc[d])]
           /\ Put(d, [proc[d] EXCEPT !.at = "exiting"])
           /\ UNCHANGED ended
  <2>1. Frame(d)
    <3>1. /\ proc' = [e \in Dirs |-> proc'[e]] /\ manifest' = [e \in Dirs |-> manifest'[e]]
          /\ \A e \in Dirs \ {d} : proc'[e] = proc[e] /\ manifest'[e] = manifest[e]
      BY <1>1, <1>3 DEF Shapes, Put
    <3> QED
      BY <1>1, <1>3, <3>1 DEF Frame, Shapes
  <2> DEFINE p == [proc[d] EXCEPT !.at = "exiting"]
  <2>2. proc'[d] = p /\ manifest'[d] = Saved(proc[d])
    BY <1>1, <1>3 DEF Shapes, Put
  <2>3. IsProcess(p) /\ p.at = "exiting" /\ p.run = proc[d].run
        /\ p.raised = proc[d].raised /\ p.forced = proc[d].forced
    BY <1>2 DEF IsProcess
  <2> HIDE DEF p
  <2>4. manifest'[d].run = proc[d].run /\ manifest'[d].status = Status(proc[d])
    BY <2>2 DEF Saved
  <2>5. NumbersKnown(d)'
    BY <1>1, <1>2, <2>2, <2>3, <2>4 DEF NumbersKnown, IsProcess
  <2>6. NotYetWritten(d)' /\ Truthful(d)'
    BY <2>2, <2>3 DEF NotYetWritten, Truthful, At
  <2>7. Status(proc[d]) = Status(p)
    BY <2>3, Zenon DEF Status
  <2>8. Written(d)'
    BY <2>2, <2>3, <2>4, <2>7 DEF Written, Status
  <2> QED
    BY <2>1, <2>5, <2>6, <2>8 DEF DirInv, Core
<1>4. CASE /\ \E m \in {manifest[d], Torn(proc[d].run)} :
                manifest' = [manifest EXCEPT ![d] = m]
           /\ End(d, ExitCode(proc[d], FALSE), TRUE)
  <2>1. PICK m \in {manifest[d], Torn(proc[d].run)} :
             manifest' = [manifest EXCEPT ![d] = m]
    BY <1>4
  <2>2. manifest'[d] = m /\ ExitCode(proc[d], FALSE) = "failed"
    BY <1>1, <2>1 DEF Shapes, ExitCode
  <2>ended. Ended(d, "failed", TRUE)
    BY <1>1, <1>4, <2>2 DEF End, Put, Shapes, Ended
  <2>3. Frame(d)
    BY <1>1, <2>1, <2>ended DEF Frame, Shapes, Ended
  <2>4. NumbersKnown(d)' /\ NotYetWritten(d)' /\ Written(d)'
    BY <1>1, <1>2, <2>2, <2>ended
       DEF Ended, Core, NumbersKnown, NotYetWritten, Written, At, NoProc, Torn, IsProcess
  <2>5. Truthful(d)'
    BY <1>2, <2>2, <2>ended DEF Ended, Truthful, Torn
  <2> QED
    BY <2>3, <2>4, <2>5 DEF DirInv, Core
<1> QED
  BY <1>3, <1>4 DEF Finalize

(* The exit code is that of the status the process wrote.                  *)
LEMMA ExitStep ==
  ASSUME CInv, NEW d \in Dirs, Exit(d)
  PROVE  Frame(d) /\ DirInv(d)'
<1>1. Shapes /\ Core(d) /\ At(d, "exiting") /\ UNCHANGED <<files, manifest, runs>>
      /\ End(d, ExitCode(proc[d], TRUE), FALSE)
  BY DEF CInv, Exit
<1>ended. Ended(d, ExitCode(proc[d], TRUE), FALSE)
  BY <1>1 DEF End, Put, Shapes, Ended
<1>2. Frame(d)
  BY <1>1, <1>ended DEF Frame, Shapes, Ended
<1>3. NumbersKnown(d)' /\ NotYetWritten(d)' /\ Written(d)'
  BY <1>1, <1>ended DEF Ended, Core, NumbersKnown, NotYetWritten, Written, At, NoProc
<1>4. manifest[d].run = proc[d].run /\ manifest[d].status = Status(proc[d])
  BY <1>1 DEF Core, Written
<1>5. \/ ExitCode(proc[d], TRUE) = "ok" /\ Status(proc[d]) = "passed"
      \/ ExitCode(proc[d], TRUE) = "failed" /\ Status(proc[d]) = "failed"
  BY DEF ExitCode, Status
<1>6. /\ ended'[d].run = proc[d].run /\ ended'[d].lost = FALSE
      /\ ended'[d].code = ExitCode(proc[d], TRUE) /\ manifest'[d] = manifest[d]
  BY <1>1, <1>ended DEF Ended
<1>7. Truthful(d)'
  BY <1>4, <1>5, <1>6 DEF Truthful
<1> QED
  BY <1>2, <1>3, <1>7 DEF DirInv, Core

(* A killed process promises nothing.                                      *)
LEMMA KillStep ==
  ASSUME CInv, NEW d \in Dirs, Kill(d)
  PROVE  Frame(d) /\ DirInv(d)'
<1>1. Shapes /\ Core(d) /\ End(d, "killed", TRUE) /\ runs' = runs /\ ~At(d, "none")
  BY DEF CInv, Kill
<1>2. IsProcess(proc[d]) /\ proc[d].run <= runs
  BY <1>1 DEF Core, NumbersKnown, NoProc, At
<1>3. /\ manifest' = [e \in Dirs |-> manifest'[e]]
      /\ \A e \in Dirs \ {d} : manifest'[e] = manifest[e]
      /\ manifest'[d] \in {manifest[d], Torn(proc[d].run)}
      /\ files' = [e \in Dirs |-> files'[e]]
  BY <1>1 DEF Kill, Shapes, WriteBytes
<1>ended. Ended(d, "killed", TRUE)
  BY <1>1 DEF End, Put, Shapes, Ended
<1>4. Frame(d)
  BY <1>1, <1>3, <1>ended DEF Frame, Shapes, Ended
<1>5. NumbersKnown(d)' /\ NotYetWritten(d)' /\ Written(d)'
  BY <1>1, <1>2, <1>3, <1>ended
     DEF Ended, Core, NumbersKnown, NotYetWritten, Written, At, NoProc, Torn, IsProcess
<1>6. Truthful(d)'
  BY <1>1, <1>ended DEF Truthful, Ended
<1> QED
  BY <1>4, <1>5, <1>6 DEF DirInv, Core

(* A step of one directory takes Core to Core, and leaves the directory    *)
(* truthful whatever it was before.                                        *)
DirStep(d) == Launch(d) \/ ProcessStep(d) \/ Kill(d)

LEMMA StepOf ==
  ASSUME CInv, NEW d \in Dirs, DirStep(d)
  PROVE  Frame(d) /\ DirInv(d)'
BY LaunchStep, BodyStep, NoDirectoryStep, FinalizeStep, ExitStep, KillStep
   DEF DirStep, ProcessStep

LEMMA StepKeepsCore ==
  ASSUME CInv, NEW d \in Dirs, DirStep(d)
  PROVE  CInv' /\ \A e \in Dirs \ {d} : Truthful(e) => Truthful(e)'
<1>1. Frame(d) /\ DirInv(d)'
  BY StepOf
<1>2. ASSUME NEW e \in Dirs \ {d} PROVE Core(e)' /\ (Truthful(e) => Truthful(e)')
  <2>1. /\ Core(e) /\ runs \in Nat /\ runs' \in Nat /\ runs <= runs'
        /\ proc'[e] = proc[e] /\ manifest'[e] = manifest[e] /\ ended'[e] = ended[e]
    BY <1>1 DEF Frame, CInv, Shapes
  <2> QED
    BY <2>1, OtherDirectory
<1>3. \A e \in Dirs : Core(e)'
  BY <1>1, <1>2 DEF DirInv
<1> QED
  BY <1>1, <1>2, <1>3 DEF CInv, Frame, Dirs

(* Every step keeps the invariant.                                         *)
LEMMA NextIInv == IInv /\ [RunNext]_runVars => IInv'
<1> SUFFICES ASSUME IInv, [RunNext]_runVars PROVE IInv'
  OBVIOUS
<1>1. CInv
  BY DEF IInv, CInv, DirInv
<1>2. CASE UNCHANGED runVars
  <2>1. Shapes'
    BY <1>2 DEF IInv, Shapes, runVars
  <2>2. ASSUME NEW d \in Dirs PROVE DirInv(d)'
    BY <1>2, OtherDirectory DEF IInv, DirInv, Shapes, runVars
  <2> QED
    BY <2>1, <2>2 DEF IInv, Dirs
<1>3. ASSUME NEW d \in Dirs, DirStep(d)
      PROVE  IInv'
  <2>1. CInv' /\ DirInv(d)' /\ \A e \in Dirs \ {d} : Truthful(e)'
    BY <1>1, <1>3, StepOf, StepKeepsCore DEF IInv, DirInv
  <2> QED
    BY <2>1 DEF IInv, CInv, DirInv, Dirs
<1> QED
  BY <1>2, <1>3 DEF RunNext, DirStep

(* No run ever exits with success without a passed manifest of its own, or *)
(* with a failure it reported and a manifest that says otherwise, whatever *)
(* scripts run in whatever directories (RunContext.__exit__, _finalize).   *)
THEOREM ExitCodeTruthful == RunSpec => []ExitMatchesManifest
<1>1. IInv => ExitMatchesManifest
  BY DEF IInv, DirInv, Truthful, ExitMatchesManifest
<1> QED
  BY <1>1, InitIInv, NextIInv, PTL DEF RunSpec

-----------------------------------------------------------------------------
(***************************************************************************)
(* A manifest describes the files of its run, for every script that        *)
(* records a file only after it wrote it and never writes it again.        *)
(*                                                                         *)
(* While a run is in its body, each file it wrote so far holds its bytes,  *)
(* and each output it recorded is one of these files.  An exception or a   *)
(* kill can tear only the file that is being written, which is not yet     *)
(* recorded.  A manifest with the number of the newest run is that run's   *)
(* own, written when its body was over.                                    *)
(***************************************************************************)
(* What is asked of a script.                                              *)
Writes(steps, i) == i \in DOMAIN steps /\ steps[i].do = "write"
Records(steps, i) == i \in DOMAIN steps /\ steps[i].do = "add"

WrittenBefore(steps) ==
  \A i \in DOMAIN steps : Records(steps, i) =>
    \E j \in DOMAIN steps : j < i /\ Writes(steps, j) /\ steps[j].file = steps[i].file

NeverRewritten(steps) ==
  \A i, j \in DOMAIN steps :
    Records(steps, i) /\ Writes(steps, j) /\ i < j => steps[j].file # steps[i].file

RecordsInOrder(steps) ==
  /\ steps \in Seq(Range(steps))
  /\ WrittenBefore(steps)
  /\ NeverRewritten(steps)

Output(d, i, run) ==
  [kind |-> Steps[d][i].kind, file |-> Steps[d][i].file, digest |-> Bytes(run, TRUE)]

Done(d) == {i \in DOMAIN Steps[d] : i < proc[d].next}

FileTable(d) == files[d] = [f \in FilesOf(d) |-> files[d][f]]

(* A run in its body: what it wrote and what it recorded so far.           *)
BodyOf(d) ==
  At(d, "body") =>
    /\ proc[d].next \in Nat \ {0} /\ proc[d].next <= Len(Steps[d]) + 1
    /\ ~proc[d].raised
    /\ \A i \in Done(d) : Writes(Steps[d], i) =>
         files[d][Steps[d][i].file] = Bytes(proc[d].run, TRUE)
    /\ proc[d].outputs =
         {Output(d, i, proc[d].run) : i \in {i \in Done(d) : Records(Steps[d], i)}}

Describes(d, outputs, run) ==
  \A o \in outputs : Holds(d, o) /\ o.digest = Bytes(run, TRUE)

(* A run on its way out: its outputs are true, and complete if it raised   *)
(* nothing.                                                                *)
LeavingOf(d) ==
  proc[d].at \in {"leaving", "exiting"} =>
    /\ Describes(d, proc[d].outputs, proc[d].run)
    /\ ~proc[d].raised => {o.kind : o \in proc[d].outputs} = KindsOf(d)

Entering(d) ==
  At(d, "entering") => proc[d] = Process(proc[d].run)

(* ManifestMatchesFiles in one directory.                                  *)
Matches(d) ==
  manifest[d].status \in {"passed", "failed"} /\ manifest[d].run = Newest(d) =>
    /\ Describes(d, manifest[d].outputs, manifest[d].run)
    /\ manifest[d].status = "passed" =>
         {o.kind : o \in manifest[d].outputs} = KindsOf(d)

FilesInv(d) ==
  FileTable(d) /\ Entering(d) /\ BodyOf(d) /\ LeavingOf(d) /\ Matches(d)

InOrder == \A d \in Dirs : RecordsInOrder(Steps[d])

-----------------------------------------------------------------------------
(* What a run recorded in its body holds, since each output was written    *)
(* before (RunContext.add_output).                                         *)
LEMMA RecordedHolds ==
  ASSUME NEW d \in Dirs, RecordsInOrder(Steps[d]), BodyOf(d), At(d, "body")
  PROVE  Describes(d, proc[d].outputs, proc[d].run)
<1> SUFFICES ASSUME NEW o \in proc[d].outputs
             PROVE  Holds(d, o) /\ o.digest = Bytes(proc[d].run, TRUE)
  BY DEF Describes
<1>1. PICK i \in Done(d) : Records(Steps[d], i) /\ o = Output(d, i, proc[d].run)
  BY DEF BodyOf
<1>2. PICK j \in DOMAIN Steps[d] :
        j < i /\ Writes(Steps[d], j) /\ Steps[d][j].file = Steps[d][i].file
  BY <1>1 DEF RecordsInOrder, WrittenBefore, Done
<1>3. DOMAIN Steps[d] = 1 .. Len(Steps[d]) /\ Len(Steps[d]) \in Nat
  BY DEF RecordsInOrder
<1>4. j \in Done(d)
  BY <1>1, <1>2, <1>3 DEF Done, BodyOf
<1>5. files[d][Steps[d][i].file] = Bytes(proc[d].run, TRUE)
  BY <1>2, <1>4 DEF BodyOf
<1> QED
  BY <1>1, <1>5 DEF Output, Holds

(* Tearing the file of the current step leaves them as they are.           *)
LEMMA TearingSparesRecorded ==
  ASSUME NEW d \in Dirs, RecordsInOrder(Steps[d]), BodyOf(d), FileTable(d),
         InBody(d), Step(d).do = "write", Shapes, NEW whole,
         WriteBytes(d, whole)
  PROVE  \A o \in proc[d].outputs : files'[d][o.file] = files[d][o.file]
<1> SUFFICES ASSUME NEW o \in proc[d].outputs
             PROVE  files'[d][o.file] = files[d][o.file]
  OBVIOUS
<1>1. PICK i \in Done(d) : Records(Steps[d], i) /\ o = Output(d, i, proc[d].run)
  BY DEF BodyOf, InBody
<1>2. o.file # Step(d).file
  BY <1>1 DEF RecordsInOrder, NeverRewritten, Writes, Done, InBody, Step, Output
<1>3. o.file \in FilesOf(d)
  BY <1>1 DEF RecordsInOrder, WrittenBefore, Writes, Done, Output, FilesOf, Range
<1>4. files'[d] = [files[d] EXCEPT ![Step(d).file] = Bytes(proc[d].run, whole)]
  BY DEF WriteBytes, Shapes
<1> QED
  BY <1>2, <1>3, <1>4 DEF FileTable

(* No step of a directory touches another.                                 *)
LEMMA OtherFiles ==
  ASSUME NEW d \in Dirs, FilesInv(d),
         proc'[d] = proc[d], manifest'[d] = manifest[d], ended'[d] = ended[d],
         files'[d] = files[d]
  PROVE  FilesInv(d)'
<1>1. FileTable(d)' /\ Entering(d)'
  BY DEF FilesInv, FileTable, Entering, At
<1>2. Done(d)' = Done(d)
  BY DEF Done
<1>3. BodyOf(d)'
  BY <1>2 DEF FilesInv, BodyOf, At
<1>4. LeavingOf(d)' /\ Matches(d)'
  BY DEF FilesInv, LeavingOf, Matches, Describes, Holds, Newest, At
<1> QED
  BY <1>1, <1>3, <1>4 DEF FilesInv

(* The file table keeps its shape.                                         *)
LEMMA TableKept ==
  ASSUME CInv, NEW d \in Dirs, FileTable(d),
         UNCHANGED files \/ \E whole \in BOOLEAN : WriteBytes(d, whole)
  PROVE  FileTable(d)'
<1>1. CASE UNCHANGED files
  BY <1>1 DEF FileTable
<1>2. ASSUME NEW whole \in BOOLEAN, WriteBytes(d, whole) PROVE FileTable(d)'
  <2>1. files'[d] = [files[d] EXCEPT ![Step(d).file] = Bytes(proc[d].run, whole)]
    BY <1>2 DEF WriteBytes, CInv, Shapes
  <2> QED
    BY <2>1 DEF FileTable
<1> QED
  BY <1>1, <1>2

LEMMA FilesInit == RunInit => \A d \in Dirs : FilesInv(d)
<1> SUFFICES ASSUME RunInit, NEW d \in Dirs PROVE FilesInv(d)
  OBVIOUS
<1>1. FileTable(d)
  BY DEF RunInit, FileTable
<1>2. proc[d].at = "none" /\ manifest[d].status = "none"
  BY DEF RunInit, NoProc, NoManifest
<1> QED
  BY <1>1, <1>2 DEF FilesInv, Entering, BodyOf, LeavingOf, Matches, At

(* While a run has not written its manifest, no manifest is the newest's.  *)
LEMMA NotNewest ==
  ASSUME NEW d \in Dirs, CInv', proc'[d].at \in {"entering", "body", "leaving"}
  PROVE  Matches(d)'
BY DEF CInv, Core, NotYetWritten, Matches, Newest, At

(* A process is gone: what its manifest says was true before.              *)
LEMMA ProcessGone ==
  ASSUME NEW d \in Dirs, CInv, FilesInv(d), FileTable(d)', ~At(d, "none"),
         proc'[d] = NoProc, ended'[d].run = proc[d].run,
         manifest'[d].status = "torn" \/ manifest'[d] = manifest[d],
         At(d, "exiting") => files' = files
  PROVE  FilesInv(d)'
<1>1. Entering(d)' /\ BodyOf(d)' /\ LeavingOf(d)'
  BY DEF Entering, BodyOf, LeavingOf, At, NoProc
<1>2. CASE manifest'[d].status = "torn"
  BY <1>1, <1>2 DEF FilesInv, Matches
<1>3. CASE manifest'[d] = manifest[d]
  <2>1. IsProcess(proc[d])
    BY DEF CInv, Core, NumbersKnown, At, NoProc
  <2>2. CASE At(d, "exiting")
    <3>1. Newest(d)' = Newest(d) /\ files'[d] = files[d]
      BY <2>2 DEF Newest, At, NoProc
    <3>2. Matches(d)'
      BY <1>3, <3>1 DEF FilesInv, Matches, Describes, Holds
    <3> QED
      BY <1>1, <3>2 DEF FilesInv
  <2>3. CASE ~At(d, "exiting")
    <3>1. manifest[d].run # proc[d].run
      BY <2>1, <2>3 DEF CInv, Core, NotYetWritten, IsProcess, At
    <3>2. Newest(d)' = proc[d].run
      BY DEF Newest, At, NoProc
    <3>3. Matches(d)'
      BY <1>3, <3>1, <3>2 DEF Matches
    <3> QED
      BY <1>1, <3>3 DEF FilesInv
  <2> QED
    BY <2>2, <2>3
<1> QED
  BY <1>2, <1>3

-----------------------------------------------------------------------------
(* One lemma per step of a run.                                            *)
LEMMA LaunchFiles ==
  ASSUME NEW d \in Dirs, CInv, CInv', FilesInv(d), Launch(d)
  PROVE  FilesInv(d)'
<1>1. proc'[d] = Process(runs + 1) /\ files' = files
  BY DEF CInv, Shapes, Launch, Put
<1>2. proc'[d].at = "entering" /\ proc'[d] = Process(proc'[d].run)
  BY <1>1 DEF Process
<1>3. FileTable(d)'
  BY <1>1 DEF FilesInv, FileTable
<1>4. Entering(d)' /\ BodyOf(d)' /\ LeavingOf(d)'
  BY <1>2 DEF Entering, BodyOf, LeavingOf, At
<1> QED
  BY <1>2, <1>3, <1>4, NotNewest DEF FilesInv

(* Nothing is written or recorded yet.                                     *)
LEMMA EnterFiles ==
  ASSUME NEW d \in Dirs, RecordsInOrder(Steps[d]), CInv, CInv', FilesInv(d), Enter(d)
  PROVE  FilesInv(d)'
<1>1. proc[d] = Process(proc[d].run) /\ files' = files
  BY DEF FilesInv, Entering, Enter
<1>2. \/ proc'[d] = [proc[d] EXCEPT !.at = "body"]
      \/ proc'[d] = Raise(proc[d])
  BY DEF CInv, Shapes, Enter, Put
<1>3. /\ proc'[d].at \in {"body", "leaving"}
      /\ proc'[d].next = 1 /\ proc'[d].outputs = {} /\ proc'[d].run = proc[d].run
      /\ proc'[d].at = "body" => proc'[d].raised = FALSE
      /\ proc'[d].at = "leaving" => proc'[d].raised = TRUE
  <2> DEFINE run == proc[d].run
  <2>1. proc[d] = [run |-> run, at |-> "entering", next |-> 1, outputs |-> {},
                   raised |-> FALSE, forced |-> FALSE]
    BY <1>1 DEF Process
  <2> HIDE DEF run
  <2>2. CASE proc'[d] = [proc[d] EXCEPT !.at = "body"]
    BY <2>1, <2>2
  <2>3. CASE proc'[d] = Raise(proc[d])
    BY <2>1, <2>3 DEF Raise
  <2> QED
    BY <1>2, <2>2, <2>3
<1>4. FileTable(d)' /\ Entering(d)'
  BY <1>1, <1>3 DEF FilesInv, FileTable, Entering, At
<1>5. Done(d)' = {} /\ 1 <= Len(Steps[d]) + 1
  BY <1>3 DEF Done, RecordsInOrder
<1>6. BodyOf(d)'
  BY <1>3, <1>5 DEF BodyOf, At
<1>7. LeavingOf(d)'
  BY <1>3 DEF LeavingOf, Describes
<1> QED
  BY <1>3, <1>4, <1>6, <1>7, NotNewest DEF FilesInv

(* The next step of the body, which raises nothing.                        *)
LEMMA AdvanceDone ==
  ASSUME NEW d \in Dirs, RecordsInOrder(Steps[d]), BodyOf(d), InBody(d),
         proc'[d].next = proc[d].next + 1
  PROVE  /\ Done(d)' = Done(d) \cup {proc[d].next}
         /\ proc'[d].next \in Nat \ {0} /\ proc'[d].next <= Len(Steps[d]) + 1
BY DEF Done, BodyOf, InBody, RecordsInOrder

LEMMA WriteFiles ==
  ASSUME NEW d \in Dirs, RecordsInOrder(Steps[d]), CInv, CInv', FilesInv(d), WriteFile(d)
  PROVE  FilesInv(d)'
<1>1. /\ proc'[d] = Advance(proc[d]) /\ InBody(d) /\ Step(d).do = "write"
      /\ files'[d] = [files[d] EXCEPT ![Step(d).file] = Bytes(proc[d].run, TRUE)]
  BY DEF CInv, Shapes, WriteFile, Put, WriteBytes
<1>2. IsProcess(proc[d]) /\ proc[d].at = "body"
  BY <1>1 DEF CInv, Core, NumbersKnown, InBody, At, NoProc
<1>3. /\ proc'[d].at = "body" /\ proc'[d].next = proc[d].next + 1
      /\ proc'[d].run = proc[d].run /\ proc'[d].outputs = proc[d].outputs
      /\ proc'[d].raised = proc[d].raised
  BY <1>1, <1>2 DEF Advance, IsProcess
<1>4. FileTable(d)' /\ Entering(d)' /\ LeavingOf(d)'
  BY <1>1, <1>3 DEF FilesInv, FileTable, Entering, LeavingOf, At
<1>5. BodyOf(d)'
  <2>1. Done(d)' = Done(d) \cup {proc[d].next}
        /\ proc'[d].next \in Nat \ {0} /\ proc'[d].next <= Len(Steps[d]) + 1
    BY <1>1, <1>3, AdvanceDone DEF FilesInv
  <2>2. ASSUME NEW i \in Done(d)', Writes(Steps[d], i)
        PROVE  files'[d][Steps[d][i].file] = Bytes(proc'[d].run, TRUE)
    <3>1. Steps[d][i].file \in DOMAIN files[d]
      <4>1. DOMAIN files[d] = FilesOf(d)
        BY DEF FilesInv, FileTable
      <4> QED
        BY <2>2, <4>1 DEF FilesOf, Range, Writes
    <3>2. CASE i = proc[d].next
      BY <1>1, <1>3, <3>1, <3>2 DEF Step
    <3>3. CASE i \in Done(d)
      BY <1>1, <1>2, <1>3, <2>2, <3>1, <3>3 DEF FilesInv, BodyOf, At
    <3> QED
      BY <2>1, <3>2, <3>3
  <2>3. {i \in Done(d)' : Records(Steps[d], i)} = {i \in Done(d) : Records(Steps[d], i)}
    BY <1>1, <2>1 DEF Records, Step
  <2> QED
    BY <1>2, <1>3, <2>1, <2>2, <2>3 DEF FilesInv, BodyOf, At
<1> QED
  BY <1>3, <1>4, <1>5, NotNewest DEF FilesInv

LEMMA AddFiles ==
  ASSUME NEW d \in Dirs, RecordsInOrder(Steps[d]), CInv, CInv', FilesInv(d), AddOutput(d)
  PROVE  FilesInv(d)'
<1> DEFINE n == proc[d].next
           record == [kind |-> Step(d).kind, file |-> Step(d).file,
                      digest |-> files[d][Step(d).file]]
<1>1. /\ proc'[d] = [Advance(proc[d]) EXCEPT !.outputs = @ \cup {record}]
      /\ InBody(d) /\ Step(d).do = "add" /\ files' = files
  BY DEF CInv, Shapes, AddOutput, Put
<1>2. IsProcess(proc[d]) /\ proc[d].at = "body"
  BY <1>1 DEF CInv, Core, NumbersKnown, InBody, At, NoProc
<1>3. /\ proc'[d].at = "body" /\ proc'[d].next = n + 1
      /\ proc'[d].run = proc[d].run
      /\ proc'[d].outputs = proc[d].outputs \cup {record}
      /\ proc'[d].raised = proc[d].raised
  <2> HIDE DEF record
  <2> QED BY <1>1, <1>2 DEF Advance, IsProcess
<1>4. FileTable(d)' /\ Entering(d)' /\ LeavingOf(d)'
  BY <1>1, <1>3 DEF FilesInv, FileTable, Entering, LeavingOf, At
<1>5. BodyOf(d)'
  <2>1. /\ Done(d)' = Done(d) \cup {n} /\ n \notin Done(d) /\ n \in DOMAIN Steps[d]
        /\ proc'[d].next \in Nat \ {0} /\ proc'[d].next <= Len(Steps[d]) + 1
    <3>1. Done(d)' = Done(d) \cup {n} /\ proc'[d].next \in Nat \ {0}
          /\ proc'[d].next <= Len(Steps[d]) + 1
      BY <1>1, <1>3, AdvanceDone DEF FilesInv
    <3>2. n \notin Done(d) /\ n \in DOMAIN Steps[d]
      BY <1>1, <1>2 DEF Done, InBody, FilesInv, BodyOf, At
    <3> QED
      BY <3>1, <3>2
  <2>2. \A i \in Done(d)' : Writes(Steps[d], i) =>
          files'[d][Steps[d][i].file] = Bytes(proc'[d].run, TRUE)
    BY <1>1, <1>2, <1>3, <2>1 DEF FilesInv, BodyOf, At, Writes, Step
  <2>3. {i \in Done(d)' : Records(Steps[d], i)}
          = {i \in Done(d) : Records(Steps[d], i)} \cup {n}
    BY <1>1, <2>1 DEF Records, Step
  <2>4. record = Output(d, n, proc[d].run)
    <3>1. Records(Steps[d], n)
      BY <1>1, <2>1 DEF Records, Step
    <3>2. PICK j \in DOMAIN Steps[d] :
            j < n /\ Writes(Steps[d], j) /\ Steps[d][j].file = Steps[d][n].file
      BY <2>1, <3>1 DEF RecordsInOrder, WrittenBefore
    <3>3. files[d][Steps[d][n].file] = Bytes(proc[d].run, TRUE)
      BY <1>2, <3>2 DEF FilesInv, BodyOf, At, Done
    <3> QED
      BY <3>3 DEF Output, Step
  <2>5. proc[d].outputs =
          {Output(d, i, proc[d].run) : i \in {i \in Done(d) : Records(Steps[d], i)}}
    BY <1>2 DEF FilesInv, BodyOf, At
  <2>6. proc'[d].outputs =
          {Output(d, i, proc[d].run) : i \in {i \in Done(d)' : Records(Steps[d], i)}}
    <3> HIDE DEF record, n
    <3> QED BY <1>3, <2>3, <2>4, <2>5
  <2>7. ~proc'[d].raised
    BY <1>2, <1>3 DEF FilesInv, BodyOf, At
  <2>8. proc'[d].run = proc[d].run
    BY <1>3
  <2> HIDE DEF n, record
  <2> QED
    BY <2>1, <2>2, <2>6, <2>7, <2>8, Zenon DEF BodyOf
<1> QED
  BY <1>3, <1>4, <1>5, NotNewest DEF FilesInv

LEMMA JudgeFiles ==
  ASSUME NEW d \in Dirs, RecordsInOrder(Steps[d]), CInv, CInv', FilesInv(d), MarkFailed(d)
  PROVE  FilesInv(d)'
<1>1. PICK errors \in BOOLEAN :
        proc'[d] = [Advance(proc[d]) EXCEPT !.forced = errors]
  BY DEF CInv, Shapes, MarkFailed, Put
<1>2. InBody(d) /\ Step(d).do = "judge" /\ files' = files
  BY DEF MarkFailed
<1>3. IsProcess(proc[d]) /\ proc[d].at = "body"
  BY <1>2 DEF CInv, Core, NumbersKnown, InBody, At, NoProc
<1>4. /\ proc'[d].at = "body" /\ proc'[d].next = proc[d].next + 1
      /\ proc'[d].run = proc[d].run /\ proc'[d].outputs = proc[d].outputs
      /\ proc'[d].raised = proc[d].raised
  BY <1>1, <1>3 DEF Advance, IsProcess
<1>5. FileTable(d)' /\ Entering(d)' /\ LeavingOf(d)'
  BY <1>2, <1>4 DEF FilesInv, FileTable, Entering, LeavingOf, At
<1>6. Done(d)' = Done(d) \cup {proc[d].next}
      /\ proc'[d].next \in Nat \ {0} /\ proc'[d].next <= Len(Steps[d]) + 1
  BY <1>2, <1>4, AdvanceDone DEF FilesInv
<1>7. {i \in Done(d)' : Records(Steps[d], i)} = {i \in Done(d) : Records(Steps[d], i)}
  BY <1>2, <1>6 DEF Records, Step
<1>8. \A i \in Done(d)' : Writes(Steps[d], i) => i \in Done(d)
  BY <1>2, <1>6 DEF Writes, Step
<1>9. BodyOf(d)'
  BY <1>2, <1>3, <1>4, <1>6, <1>7, <1>8 DEF FilesInv, BodyOf, At
<1> QED
  BY <1>4, <1>5, <1>9, NotNewest DEF FilesInv

(* A step raises, and the file it was writing may be torn.                 *)
LEMMA RaiseFiles ==
  ASSUME NEW d \in Dirs, RecordsInOrder(Steps[d]), CInv, CInv', FilesInv(d), StepRaises(d)
  PROVE  FilesInv(d)'
<1>1. proc'[d] = Raise(proc[d]) /\ InBody(d)
  BY DEF CInv, Shapes, StepRaises, Put
<1>2. IsProcess(proc[d]) /\ At(d, "body")
  BY <1>1 DEF CInv, Core, NumbersKnown, InBody, At, NoProc
<1>3. /\ proc'[d].at = "leaving" /\ proc'[d].raised = TRUE
      /\ proc'[d].run = proc[d].run /\ proc'[d].outputs = proc[d].outputs
  BY <1>1, <1>2 DEF Raise, IsProcess
<1>4. UNCHANGED files \/ (Step(d).do = "write" /\ WriteBytes(d, FALSE))
  BY DEF StepRaises
<1>5. FileTable(d)'
  BY <1>4, TableKept DEF FilesInv
<1>6. \A o \in proc[d].outputs : files'[d][o.file] = files[d][o.file]
  BY <1>1, <1>4, TearingSparesRecorded DEF FilesInv, CInv
<1>7. Describes(d, proc[d].outputs, proc[d].run)
  BY <1>2, RecordedHolds DEF FilesInv
<1>8. LeavingOf(d)'
  <2>1. Describes(d, proc[d].outputs, proc[d].run)'
    <3>1. ASSUME NEW o \in proc[d].outputs
          PROVE  files'[d][o.file] = o.digest /\ o.digest = Bytes(proc[d].run, TRUE)
      BY <1>6, <1>7 DEF Describes, Holds
    <3> QED
      BY <1>3, <3>1 DEF Describes, Holds
  <2> QED
    BY <1>3, <2>1 DEF LeavingOf
<1>9. Entering(d)' /\ BodyOf(d)'
  BY <1>3 DEF Entering, BodyOf, At
<1> QED
  BY <1>3, <1>5, <1>8, <1>9, NotNewest DEF FilesInv

(* The body is over: every output of the script is recorded.               *)
LEMMA LeaveFiles ==
  ASSUME NEW d \in Dirs, RecordsInOrder(Steps[d]), CInv, CInv', FilesInv(d), LeaveBody(d)
  PROVE  FilesInv(d)'
<1>1. /\ proc'[d] = [proc[d] EXCEPT !.at = "leaving"]
      /\ At(d, "body") /\ ~InBody(d) /\ files' = files
  BY DEF CInv, Shapes, LeaveBody, Put
<1>2. IsProcess(proc[d])
  BY <1>1 DEF CInv, Core, NumbersKnown, At, NoProc
<1>3. /\ proc'[d].at = "leaving" /\ proc'[d].run = proc[d].run
      /\ proc'[d].outputs = proc[d].outputs
  BY <1>1, <1>2 DEF IsProcess
<1>4. Done(d) = DOMAIN Steps[d]
  <2>1. proc[d].next \in Nat \ {0} /\ proc[d].next \notin DOMAIN Steps[d]
    BY <1>1 DEF InBody, FilesInv, BodyOf
  <2>2. proc[d].next <= Len(Steps[d]) + 1
        /\ Len(Steps[d]) \in Nat /\ DOMAIN Steps[d] = 1 .. Len(Steps[d])
    BY <1>1 DEF FilesInv, BodyOf, RecordsInOrder
  <2>3. proc[d].next = Len(Steps[d]) + 1
    BY <2>1, <2>2
  <2> QED
    BY <2>1, <2>2, <2>3 DEF Done
<1>5. {o.kind : o \in proc[d].outputs} = KindsOf(d)
  <2>1. proc[d].outputs =
          {Output(d, i, proc[d].run) : i \in {i \in DOMAIN Steps[d] : Records(Steps[d], i)}}
    BY <1>1, <1>4 DEF FilesInv, BodyOf
  <2>2. KindsOf(d) = {Steps[d][i].kind : i \in {i \in DOMAIN Steps[d] : Records(Steps[d], i)}}
    BY DEF KindsOf, Range, Records
  <2>3. \A i \in DOMAIN Steps[d] : Output(d, i, proc[d].run).kind = Steps[d][i].kind
    BY DEF Output
  <2> QED
    BY <2>1, <2>2, <2>3
<1>6. Describes(d, proc[d].outputs, proc[d].run)
  BY <1>1, RecordedHolds DEF FilesInv
<1>7. LeavingOf(d)'
  BY <1>1, <1>3, <1>5, <1>6 DEF LeavingOf, Describes, Holds
<1>8. FileTable(d)' /\ Entering(d)' /\ BodyOf(d)'
  BY <1>1, <1>3 DEF FilesInv, FileTable, Entering, BodyOf, At
<1> QED
  BY <1>3, <1>7, <1>8, NotNewest DEF FilesInv

(* The manifest is written with what the run recorded, or the process ends *)
(* without one.                                                            *)
LEMMA FinalizeFiles ==
  ASSUME NEW d \in Dirs, CInv, CInv', FilesInv(d), Finalize(d)
  PROVE  FilesInv(d)'
<1>1. At(d, "leaving") /\ files' = files
  BY DEF Finalize
<1>2. IsProcess(proc[d])
  BY <1>1 DEF CInv, Core, NumbersKnown, At, NoProc
<1>3. FileTable(d)'
  BY <1>1 DEF FilesInv, FileTable
<1>4. CASE /\ manifest' = [manifest EXCEPT ![d] = Saved(proc[d])]
           /\ Put(d, [proc[d] EXCEPT !.at = "exiting"])
  <2>1. proc'[d] = [proc[d] EXCEPT !.at = "exiting"] /\ manifest'[d] = Saved(proc[d])
    BY <1>4 DEF CInv, Shapes, Put
  <2>2. /\ proc'[d].at = "exiting" /\ proc'[d].run = proc[d].run
        /\ proc'[d].outputs = proc[d].outputs /\ proc'[d].raised = proc[d].raised
    BY <1>2, <2>1 DEF IsProcess
  <2>3. Describes(d, proc[d].outputs, proc[d].run)'
    BY <1>1, <2>2 DEF FilesInv, LeavingOf, At, Describes, Holds
  <2>4. ~proc[d].raised => {o.kind : o \in proc[d].outputs} = KindsOf(d)
    BY <1>1 DEF FilesInv, LeavingOf, At
  <2>5. LeavingOf(d)'
    BY <2>2, <2>3, <2>4 DEF LeavingOf
  <2>6. /\ manifest'[d].run = proc[d].run /\ manifest'[d].outputs = proc[d].outputs
        /\ manifest'[d].status = Status(proc[d])
    BY <2>1 DEF Saved
  <2>7. manifest'[d].status = "passed" => ~proc[d].raised
    BY <2>6 DEF Status
  <2>8. Matches(d)'
    BY <2>2, <2>3, <2>4, <2>6, <2>7 DEF Matches
  <2>9. Entering(d)' /\ BodyOf(d)'
    BY <2>2 DEF Entering, BodyOf, At
  <2> QED
    BY <1>3, <2>5, <2>8, <2>9 DEF FilesInv
<1>5. CASE /\ \E m \in {manifest[d], Torn(proc[d].run)} :
                manifest' = [manifest EXCEPT ![d] = m]
           /\ End(d, ExitCode(proc[d], FALSE), TRUE)
  <2>1. manifest'[d] \in {manifest[d], Torn(proc[d].run)}
    BY <1>5 DEF CInv, Shapes
  <2>2. manifest'[d].status = "torn" \/ manifest'[d] = manifest[d]
    BY <2>1 DEF Torn
  <2>3. proc'[d] = NoProc /\ ended'[d].run = proc[d].run
    BY <1>5 DEF CInv, Shapes, End, Put
  <2> QED
    BY <1>1, <1>3, <2>2, <2>3, ProcessGone DEF At
<1> QED
  BY <1>4, <1>5 DEF Finalize

(* The other ways a process ends: no directory, its exit, a kill.          *)
LEMMA EndFiles ==
  ASSUME NEW d \in Dirs, CInv, FilesInv(d), NoDirectory(d) \/ Exit(d) \/ Kill(d)
  PROVE  FilesInv(d)'
<1>1. /\ proc'[d] = NoProc /\ ended'[d].run = proc[d].run
      /\ ~At(d, "none")
  <2>1. \E code, lost : End(d, code, lost)
    BY DEF NoDirectory, Exit, Kill
  <2>2. ~At(d, "none")
    BY DEF NoDirectory, Exit, Kill, At
  <2> QED
    BY <2>1, <2>2 DEF CInv, Shapes, End, Put
<1>2. manifest'[d].status = "torn" \/ manifest'[d] = manifest[d]
  <2>1. \/ manifest' = manifest
        \/ manifest' = [manifest EXCEPT ![d] = Torn(proc[d].run)]
    BY DEF NoDirectory, Exit, Kill
  <2>2. CASE manifest' = [manifest EXCEPT ![d] = Torn(proc[d].run)]
    BY <2>2 DEF CInv, Shapes, Torn
  <2> QED
    BY <2>1, <2>2
<1>3. FileTable(d)'
  BY TableKept DEF FilesInv, NoDirectory, Exit, Kill
<1>4. At(d, "exiting") => files' = files
  BY DEF NoDirectory, Exit, Kill, InBody, At
<1> QED
  BY <1>1, <1>2, <1>3, <1>4, ProcessGone

-----------------------------------------------------------------------------
LEMMA FilesStep ==
  ASSUME NEW d \in Dirs, RecordsInOrder(Steps[d]), CInv, FilesInv(d), DirStep(d)
  PROVE  FilesInv(d)'
<1>1. CInv'
  BY StepKeepsCore
<1> QED
  BY <1>1, LaunchFiles, EnterFiles, WriteFiles, AddFiles, JudgeFiles, RaiseFiles,
     LeaveFiles, FinalizeFiles, EndFiles DEF DirStep, ProcessStep

LEMMA FilesApart ==
  ASSUME NEW d \in Dirs, CInv, DirStep(d), NEW e \in Dirs \ {d}
  PROVE  files'[e] = files[e] /\ (FilesInv(e) => FilesInv(e)')
<1>1. Frame(d)
  BY StepOf
<1>2. files'[e] = files[e]
  BY DEF CInv, Shapes, DirStep, Launch, ProcessStep, Kill, NoDirectory, Enter, WriteFile,
         AddOutput, MarkFailed, StepRaises, LeaveBody, Finalize, Exit, WriteBytes
<1> QED
  BY <1>1, <1>2, OtherFiles DEF Frame

LEMMA FilesNext ==
  ASSUME InOrder, CInv, \A d \in Dirs : FilesInv(d), [RunNext]_runVars
  PROVE  \A d \in Dirs : FilesInv(d)'
<1>1. CASE UNCHANGED runVars
  BY <1>1, OtherFiles DEF runVars
<1>2. ASSUME NEW d \in Dirs, DirStep(d) PROVE \A e \in Dirs : FilesInv(e)'
  BY <1>2, FilesStep, FilesApart DEF InOrder
<1> QED
  BY <1>1, <1>2 DEF RunNext, DirStep

(* As long as no later run was started, a manifest that can be read        *)
(* describes whole files of its own run, and a passed one all of them,     *)
(* whatever fails or is killed (RunContext.add_output, __exit__,           *)
(* _finalize), if the script writes each file before it records it.        *)
THEOREM ManifestDescribesFiles ==
  ASSUME InOrder
  PROVE  RunSpec => []ManifestMatchesFiles
<1> DEFINE Inv == IInv /\ \A d \in Dirs : FilesInv(d)
<1>1. RunInit => Inv
  BY InitIInv, FilesInit
<1>2. Inv /\ [RunNext]_runVars => Inv'
  <2> SUFFICES ASSUME Inv, [RunNext]_runVars PROVE Inv'
    OBVIOUS
  <2>1. IInv' /\ CInv
    BY NextIInv DEF IInv, CInv, DirInv
  <2> QED
    BY <2>1, FilesNext DEF Dirs
<1>3. Inv => ManifestMatchesFiles
  BY DEF FilesInv, Matches, Describes, ManifestMatchesFiles
<1> QED
  BY <1>1, <1>2, <1>3, PTL DEF RunSpec

-----------------------------------------------------------------------------
(* The scripts of the experiments do (smoke.py, runtime_residency_executor *)
(* .py).                                                                   *)
LEMMA SmokeInOrder == RecordsInOrder(SmokeSteps)
<1>1. DOMAIN SmokeSteps = 1 .. 6 /\ SmokeSteps \in Seq(Range(SmokeSteps))
  BY DEF SmokeSteps, Range
<1> QED
  BY <1>1 DEF SmokeSteps, RecordsInOrder, WrittenBefore, NeverRewritten, Writes,
     Records, Write, Add

LEMMA ResidencyInOrder == RecordsInOrder(ResidencySteps)
<1>1. DOMAIN ResidencySteps = 1 .. 7 /\ ResidencySteps \in Seq(Range(ResidencySteps))
  BY DEF ResidencySteps, Range
<1> QED
  BY <1>1 DEF ResidencySteps, RecordsInOrder, WrittenBefore, NeverRewritten, Writes,
     Records, Write, Add, Judge

(* Two scripts one after the other, if the second writes no file the first *)
(* one recorded.                                                           *)
FilesThat(do, steps) == {e.file : e \in {e \in Range(steps) : e.do = do}}

LEMMA ConcatInOrder ==
  ASSUME NEW s, NEW t, RecordsInOrder(s), RecordsInOrder(t),
         FilesThat("add", s) \cap FilesThat("write", t) = {}
  PROVE  /\ RecordsInOrder(s \o t)
         /\ Range(s \o t) = Range(s) \cup Range(t)
<1> DEFINE m == Len(s)
           n == Len(t)
           u == s \o t
<1>1. /\ m \in Nat /\ DOMAIN s = 1 .. m
      /\ n \in Nat /\ DOMAIN t = 1 .. n
      /\ s \in Seq(Range(s) \cup Range(t)) /\ t \in Seq(Range(s) \cup Range(t))
  BY DEF RecordsInOrder, Range
<1>2. u \in Seq(Range(s) \cup Range(t)) /\ Len(u) = m + n
  BY <1>1, ConcatProperties
<1>3. DOMAIN u = 1 .. (m + n)
  BY <1>2
<1>4. /\ \A i \in 1 .. m : u[i] = s[i]
      /\ \A i \in 1 .. n : u[m + i] = t[i]
  BY <1>1, ConcatProperties
<1> HIDE DEF u, m, n
<1>5. \A i \in 1 .. (m + n) :
        i \in 1 .. m \/ (i - m \in 1 .. n /\ i = m + (i - m) /\ u[i] = t[i - m])
  <2> TAKE i \in 1 .. (m + n)
  <2> SUFFICES ASSUME i \notin 1 .. m
               PROVE  i - m \in 1 .. n /\ i = m + (i - m) /\ u[i] = t[i - m]
    OBVIOUS
  <2>1. i - m \in 1 .. n /\ i = m + (i - m)
    BY <1>1
  <2> QED
    BY <1>4, <2>1
<1>6. Range(u) = Range(s) \cup Range(t)
  <2>1. ASSUME NEW e \in Range(u) PROVE e \in Range(s) \cup Range(t)
    BY <1>1, <1>3, <1>4, <1>5, <2>1 DEF Range
  <2>2. ASSUME NEW e \in Range(s) PROVE e \in Range(u)
    <3>1. PICK i \in 1 .. m : e = s[i]
      BY <1>1, <2>2 DEF Range
    <3> QED
      BY <1>1, <1>3, <1>4, <3>1 DEF Range
  <2>3. ASSUME NEW e \in Range(t) PROVE e \in Range(u)
    <3>1. PICK i \in 1 .. n : e = t[i]
      BY <1>1, <2>3 DEF Range
    <3>2. m + i \in DOMAIN u /\ u[m + i] = e
      BY <1>1, <1>3, <1>4, <3>1
    <3> QED
      BY <3>2 DEF Range
  <2> QED
    BY <2>1, <2>2, <2>3
<1>7. u \in Seq(Range(u))
  BY <1>2, <1>6
<1>8. WrittenBefore(u)
  <2> SUFFICES ASSUME NEW i \in 1 .. (m + n), u[i].do = "add"
               PROVE  \E j \in 1 .. (m + n) :
                        j < i /\ u[j].do = "write" /\ u[j].file = u[i].file
    BY <1>3 DEF WrittenBefore, Records, Writes
  <2>1. CASE i \in 1 .. m
    <3>1. PICK j \in 1 .. m : j < i /\ s[j].do = "write" /\ s[j].file = s[i].file
      BY <1>1, <1>4, <2>1 DEF RecordsInOrder, WrittenBefore, Records, Writes
    <3> QED
      BY <1>1, <1>4, <2>1, <3>1
  <2>2. CASE i - m \in 1 .. n /\ i = m + (i - m) /\ u[i] = t[i - m]
    <3>1. PICK j \in 1 .. n : j < i - m /\ t[j].do = "write" /\ t[j].file = t[i - m].file
      BY <1>1, <2>2 DEF RecordsInOrder, WrittenBefore, Records, Writes
    <3>2. m + j \in 1 .. (m + n) /\ m + j < i /\ u[m + j] = t[j]
      BY <1>1, <1>4, <3>1
    <3> QED
      BY <2>2, <3>1, <3>2
  <2> QED
    BY <1>5, <2>1, <2>2
<1>9. NeverRewritten(u)
  <2> SUFFICES ASSUME NEW i \in 1 .. (m + n), NEW j \in 1 .. (m + n), i < j,
                      u[i].do = "add", u[j].do = "write"
               PROVE  u[j].file # u[i].file
    BY <1>3 DEF NeverRewritten, Records, Writes
  <2>1. CASE j \in 1 .. m
    <3>1. i \in 1 .. m
      BY <1>1, <2>1
    <3> QED
      BY <1>1, <1>4, <2>1, <3>1 DEF RecordsInOrder, NeverRewritten, Records, Writes
  <2>2. CASE i \in 1 .. m /\ j - m \in 1 .. n /\ u[j] = t[j - m]
    <3>1. u[i] \in Range(s) /\ u[j] \in Range(t)
      BY <1>1, <1>4, <2>2 DEF Range
    <3> QED
      BY <3>1 DEF FilesThat
  <2>3. CASE /\ i - m \in 1 .. n /\ u[i] = t[i - m]
             /\ j - m \in 1 .. n /\ u[j] = t[j - m]
    <3>1. i - m < j - m
      BY <1>1
    <3> QED
      BY <1>1, <2>3, <3>1 DEF RecordsInOrder, NeverRewritten, Records, Writes
  <2> QED
    BY <1>5, <2>1, <2>2, <2>3
<1> QED
  BY <1>6, <1>7, <1>8, <1>9 DEF RecordsInOrder, u

LEMMA ProbeInOrder ==
  ASSUME NEW probe
  PROVE  /\ RecordsInOrder(ProbeSteps(probe))
         /\ Range(ProbeSteps(probe)) = {Write(probe), Add("io-probe", probe)}
<1>1. DOMAIN ProbeSteps(probe) = 1 .. 2
      /\ ProbeSteps(probe) \in Seq({Write(probe), Add("io-probe", probe)})
  BY DEF ProbeSteps
<1>2. Range(ProbeSteps(probe)) = {Write(probe), Add("io-probe", probe)}
  BY DEF ProbeSteps, Range
<1> QED
  BY <1>1, <1>2 DEF ProbeSteps, RecordsInOrder, WrittenBefore, NeverRewritten, Writes,
     Records, Write, Add

LEMMA MethodInOrder ==
  ASSUME NEW f, NEW g
  PROVE  /\ RecordsInOrder(MethodSteps(f, g))
         /\ Range(MethodSteps(f, g)) =
              {Write(f), Write(g), Add("trace", f), Add("metrics", g)}
<1> DEFINE steps == MethodSteps(f, g)
           all == {Write(f), Write(g), Add("trace", f), Add("metrics", g)}
<1>1. DOMAIN steps = 1 .. 4 /\ steps \in Seq(all)
  BY DEF MethodSteps
<1>2. Range(steps) = all
  BY DEF MethodSteps, Range
<1> QED
  BY <1>1, <1>2 DEF MethodSteps, RecordsInOrder, WrittenBefore, NeverRewritten, Writes,
     Records, Write, Add

(* movement_executor.py, ablation.py.                                      *)
LEMMA MovementInOrder == RecordsInOrder(MovementSteps)
<1> DEFINE probes == ProbeSteps("probe1") \o ProbeSteps("probe2")
           rest == <<Write("metrics"), Write("trace"), Write("summary"),
                     Add("metrics", "metrics"), Add("trace", "trace"),
                     Add("summary", "summary")>>
<1>1. /\ RecordsInOrder(probes)
      /\ Range(probes) = {Write("probe1"), Add("io-probe", "probe1"),
                          Write("probe2"), Add("io-probe", "probe2")}
  <2>1. FilesThat("add", ProbeSteps("probe1"))
          \cap FilesThat("write", ProbeSteps("probe2")) = {}
    BY ProbeInOrder DEF FilesThat, Write, Add
  <2> QED
    BY <2>1, ProbeInOrder, ConcatInOrder
<1>2. RecordsInOrder(rest) /\ FilesThat("write", rest) \subseteq {"metrics", "trace", "summary"}
  <2>1. DOMAIN rest = 1 .. 6 /\ rest \in Seq(Range(rest))
    BY DEF Range
  <2>2. RecordsInOrder(rest)
    BY <2>1 DEF RecordsInOrder, WrittenBefore, NeverRewritten, Writes, Records, Write, Add
  <2> QED
    BY <2>1, <2>2 DEF FilesThat, Range, Write, Add
<1> HIDE DEF probes, rest
<1>3. FilesThat("add", probes) \cap FilesThat("write", rest) = {}
  BY <1>1, <1>2 DEF FilesThat, Write, Add
<1>4. RecordsInOrder(probes \o rest)
  BY <1>1, <1>2, <1>3, ConcatInOrder
<1> QED
  BY <1>4 DEF MovementSteps, probes, rest

LEMMA AblationInOrder == RecordsInOrder(AblationSteps)
<1> DEFINE methods == MethodSteps("trace1", "metrics1") \o MethodSteps("trace2", "metrics2")
           rest == <<Write("summary"), Add("summary", "summary")>>
<1>1. /\ RecordsInOrder(methods)
      /\ FilesThat("add", methods) \subseteq {"trace1", "metrics1", "trace2", "metrics2"}
  <2>1. FilesThat("add", MethodSteps("trace1", "metrics1"))
          \cap FilesThat("write", MethodSteps("trace2", "metrics2")) = {}
    BY MethodInOrder DEF FilesThat, Write, Add
  <2>2. /\ RecordsInOrder(methods)
        /\ Range(methods) = Range(MethodSteps("trace1", "metrics1"))
                              \cup Range(MethodSteps("trace2", "metrics2"))
    BY <2>1, MethodInOrder, ConcatInOrder
  <2> HIDE DEF methods
  <2> QED
    BY <2>2, MethodInOrder DEF FilesThat, Write, Add
<1>2. RecordsInOrder(rest) /\ FilesThat("write", rest) \subseteq {"summary"}
  <2>1. DOMAIN rest = 1 .. 2 /\ rest \in Seq(Range(rest))
    BY DEF Range
  <2>2. RecordsInOrder(rest)
    BY <2>1 DEF RecordsInOrder, WrittenBefore, NeverRewritten, Writes, Records, Write, Add
  <2> QED
    BY <2>1, <2>2 DEF FilesThat, Range, Write, Add
<1> HIDE DEF methods, rest
<1>3. FilesThat("add", methods) \cap FilesThat("write", rest) = {}
  BY <1>1, <1>2
<1>4. RecordsInOrder(methods \o rest)
  BY <1>1, <1>2, <1>3, ConcatInOrder
<1> QED
  BY <1>4 DEF AblationSteps, methods, rest

(* Every experiment of the repository writes a file before it records it,  *)
(* so that its manifests describe its files in any set of directories.     *)
THEOREM ExperimentsDescribeFiles ==
  ASSUME \A d \in Dirs :
           Steps[d] \in {SmokeSteps, AblationSteps, ResidencySteps, MovementSteps}
  PROVE  RunSpec => []ManifestMatchesFiles
<1>1. InOrder
  BY SmokeInOrder, AblationInOrder, ResidencyInOrder, MovementInOrder DEF InOrder
<1> QED
  BY <1>1, ManifestDescribesFiles

-----------------------------------------------------------------------------
(***************************************************************************)
(* What llama checks leave behind, for any number of them.  Each promise   *)
(* has an invariant of its own, which says what holds at every stage of a  *)
(* check: how far the checkout is changed, and whose events are in the     *)
(* trace and whose lines in the summary.                                   *)
(***************************************************************************)
BuildStages == {"apply", "configure", "build"}

EarlyLlamaStages ==
  {"prepare", "add", "truncate", "execute", "judge"} \cup BuildStages \cup Llama!Outputs

LlamaStages == {"idle", "remove", "cleanup"} \cup EarlyLlamaStages

(***************************************************************************)
(* The checkout.                                                           *)
(***************************************************************************)
CheckoutInv ==
  /\ llamaStage \in LlamaStages
  /\ present \subseteq excused \cup {llamaChecks}
  /\ registered \subseteq excused \cup {llamaChecks}
  /\ llamaStage \in {"idle", "prepare"} => present \subseteq excused
  /\ llamaStage \in {"idle", "prepare", "add", "cleanup"} => registered \subseteq excused

LEMMA StageOrder ==
  /\ \A s \in BuildStages : Llama!NextCommand[s] \in {"configure", "build", "truncate"}
  /\ DOMAIN Llama!NextCommand = BuildStages
  /\ \A s \in Llama!Outputs : Llama!NextOutput[s] \in {"stderr", "judge", "summary", "remove"}
  /\ Llama!NextOutput["summary"] = "remove"
  /\ \A s \in Llama!Outputs : Llama!NextOutput[s] = "remove" => s = "summary"
  /\ \A s \in Llama!Outputs : Llama!NextOutput[s] = "summary" => s = "harness_trace"
  /\ \A s \in Llama!Outputs :
       Llama!NextOutput[s] = "stderr" \/ Llama!NextOutput[s] = "judge" => s \in {"stdout", "stderr"}
BY DEF Llama!NextCommand, BuildStages, Llama!NextOutput, Llama!Outputs

LEMMA CheckoutInit == Llama!Init => CheckoutInv
BY DEF Llama!Init, CheckoutInv, LlamaStages

LEMMA CheckoutNext == CheckoutInv /\ [Llama!Next]_(Llama!vars) => CheckoutInv'
<1> SUFFICES ASSUME CheckoutInv, [Llama!Next]_(Llama!vars) PROVE CheckoutInv'
  OBVIOUS
<1> USE DEF CheckoutInv, LlamaStages, EarlyLlamaStages, BuildStages, Llama!Outputs
<1>1. CASE Llama!StartCheck
  BY <1>1 DEF Llama!StartCheck, Llama!Go, Llama!treeVars, Llama!fileVars
<1>2. CASE Llama!Prepare
  BY <1>2 DEF Llama!Prepare, Llama!Go, Llama!Ends, Llama!fileVars
<1>3. CASE Llama!AddWorktree
  BY <1>3 DEF Llama!AddWorktree, Llama!Go, Llama!Raise, Llama!fileVars, Llama!Same
<1>4. CASE Llama!BuildCommand
  BY <1>4, StageOrder
  DEF Llama!BuildCommand, Llama!Go, Llama!Raise, Llama!treeVars, Llama!fileVars, Llama!Same
<1>5. CASE Llama!TruncateTrace
  BY <1>5 DEF Llama!TruncateTrace, Llama!Go, Llama!Raise, Llama!treeVars, Llama!Same
<1>6. CASE Llama!Execute
  BY <1>6 DEF Llama!Execute, Llama!Go, Llama!Raise, Llama!treeVars, Llama!Same
<1>7. CASE Llama!SaveOutput
  <2>1. UNCHANGED <<llamaChecks, excused, registered, present>>
    BY <1>7 DEF Llama!SaveOutput, Llama!treeVars, Llama!Same
  <2>2. llamaStage' \in {"stderr", "judge", "summary", "remove"} /\ llamaStage \in Llama!Outputs
    BY <1>7, StageOrder DEF Llama!SaveOutput, Llama!Go, Llama!Raise
  <2>3. QED
    BY <2>1, <2>2
<1>8. CASE Llama!Judge
  BY <1>8 DEF Llama!Judge, Llama!Go, Llama!Raise, Llama!treeVars, Llama!fileVars, Llama!Same
<1>9. CASE Llama!RemoveWorktree
  BY <1>9 DEF Llama!RemoveWorktree, Llama!Go, Llama!Raise, Llama!fileVars
<1>10. CASE Llama!Cleanup
  BY <1>10 DEF Llama!Cleanup, Llama!Ends, Llama!fileVars
<1>11. CASE Llama!Kill
  <2>1. /\ llamaStage' = "idle" /\ excused' = excused \cup {llamaChecks}
        /\ UNCHANGED <<llamaChecks, present>>
    BY <1>11 DEF Llama!Kill, Llama!Ends
  <2>2. registered' \subseteq registered \cup {llamaChecks}
    BY <1>11 DEF Llama!Kill
  <2>3. QED
    BY <2>1, <2>2
<1>12. CASE Llama!Interrupt
  BY <1>12 DEF Llama!Interrupt, Llama!Raise, Llama!fileVars
<1>13. CASE UNCHANGED Llama!vars
  BY <1>13 DEF Llama!vars, Llama!treeVars
<1>14. QED
  BY <1>1, <1>2, <1>3, <1>4, <1>5, <1>6, <1>7, <1>8, <1>9, <1>10, <1>11, <1>12, <1>13
  DEF Llama!Next, Llama!Progress

(* When no check runs, every worktree registered in the user's checkout    *)
(* and every temporary directory is of a check that was killed or whose    *)
(* removal failed (llama_check.py:116-142).                                *)
THEOREM CheckoutClean == Llama!Spec => []Llama!CheckoutLeftClean
<1>1. CheckoutInv => Llama!CheckoutLeftClean
  BY DEF CheckoutInv, Llama!CheckoutLeftClean
<1>2. QED
  BY <1>1, CheckoutInit, CheckoutNext, PTL DEF Llama!Spec

(***************************************************************************)
(* The summary.                                                            *)
(***************************************************************************)
IsTrace ==
  /\ trace \in [events : SUBSET Nat, evictions : SUBSET Nat, torn : BOOLEAN]
  /\ trace.evictions \subseteq trace.events

Own == [events |-> {llamaChecks}, evictions |-> {llamaChecks}, torn |-> FALSE]

SummaryInv ==
  /\ llamaStage \in LlamaStages
  /\ llamaChecks \in Nat
  /\ IsTrace
  /\ llamaOutputs \in [Llama!Outputs -> [check : Nat, whole : BOOLEAN]]
  /\ llamaOutputs["summary"].check <= llamaChecks
  /\ llamaStage \in EarlyLlamaStages => llamaOutputs["summary"].check < llamaChecks
  /\ llamaStage \in {"execute", "stdout", "stderr", "judge"} => trace.events \subseteq {llamaChecks}
  /\ llamaStage \in {"harness_trace", "summary"} => returncode = "zero" /\ trace = Own
  /\ Llama!SummaryIsEarned

LEMMA SummaryInit == Llama!Init => SummaryInv
BY
DEF Llama!Init, SummaryInv, LlamaStages, IsTrace, Llama!NoEvents, Llama!NoOutput, Llama!Outputs,
    EarlyLlamaStages, BuildStages,
       Llama!SummaryIsEarned

(* What the built test appends is of this check, and evictions are events. *)
LEMMA AppendedTrace ==
  ASSUME IsTrace, llamaChecks \in Nat, Llama!TraceAppended
  PROVE  /\ IsTrace'
         /\ trace.events \subseteq {llamaChecks} => trace'.events \subseteq {llamaChecks}
<1>1. PICK e \in SUBSET {llamaChecks}, v \in SUBSET {llamaChecks}, t \in BOOLEAN :
        /\ trace' = [events |-> trace.events \cup e, evictions |-> trace.evictions \cup v,
                     torn |-> trace.torn \/ t]
        /\ trace'.evictions \subseteq trace'.events
  BY DEF Llama!TraceAppended, Llama!Appends
<1>2. trace'.events = trace.events \cup e /\ trace.torn \in BOOLEAN
  BY <1>1 DEF IsTrace
<1>3. trace' \in [events : SUBSET Nat, evictions : SUBSET Nat, torn : BOOLEAN]
  BY <1>1, <1>2 DEF IsTrace
<1>4. QED
  BY <1>1, <1>2, <1>3 DEF IsTrace

LEMMA OutputTyped ==
  ASSUME llamaChecks \in Nat, llamaOutputs \in [Llama!Outputs -> [check : Nat, whole : BOOLEAN]],
         NEW f \in Llama!Outputs, NEW w \in BOOLEAN
  PROVE  [llamaOutputs EXCEPT ![f] = [check |-> llamaChecks, whole |-> w]]
           \in [Llama!Outputs -> [check : Nat, whole : BOOLEAN]]
<1> DEFINE R == [check : Nat, whole : BOOLEAN]
           new == [check |-> llamaChecks, whole |-> w]
<1>1. new \in R
  OBVIOUS
<1> HIDE DEF R, new
<1>2. llamaOutputs \in [Llama!Outputs -> R]
        => [llamaOutputs EXCEPT ![f] = new] \in [Llama!Outputs -> R]
  BY <1>1
<1>3. QED
  BY <1>2 DEF R, new

(* A step that leaves the files and the return code alone.                 *)
LEMMA SameFiles ==
  ASSUME SummaryInv, UNCHANGED <<llamaChecks, returncode, trace, llamaOutputs>>,
         llamaStage' \in LlamaStages,
         llamaStage' \in EarlyLlamaStages => llamaStage \in EarlyLlamaStages,
         llamaStage' \in {"execute", "stdout", "stderr", "judge"} => llamaStage' = llamaStage,
         llamaStage' \in {"harness_trace", "summary"} => returncode = "zero" /\ trace = Own
  PROVE  SummaryInv'
BY DEF SummaryInv, IsTrace, Llama!SummaryIsEarned, Own

LEMMA SummaryNext == SummaryInv /\ [Llama!Next]_(Llama!vars) => SummaryInv'
<1> SUFFICES ASSUME SummaryInv, [Llama!Next]_(Llama!vars) PROVE SummaryInv'
  OBVIOUS
<1> USE DEF LlamaStages, EarlyLlamaStages, BuildStages, Llama!Outputs
<1>1. CASE Llama!StartCheck
  <2>1. /\ llamaChecks' = llamaChecks + 1 /\ llamaStage' = "prepare"
        /\ UNCHANGED <<returncode, trace, llamaOutputs>>
    BY <1>1 DEF Llama!StartCheck, Llama!Go, Llama!fileVars
  <2>2. /\ llamaChecks \in Nat /\ llamaOutputs["summary"].check \in Nat
        /\ llamaOutputs["summary"].check <= llamaChecks
    BY DEF SummaryInv
  <2>3. llamaOutputs'["summary"].check < llamaChecks' /\ llamaChecks' \in Nat
    BY <2>1, <2>2
  <2>4. Llama!SummaryIsEarned'
    BY <2>2, <2>3 DEF Llama!SummaryIsEarned
  <2>5. QED
    BY <2>1, <2>2, <2>3, <2>4 DEF SummaryInv, IsTrace
<1>2. CASE Llama!Prepare
  BY <1>2, SameFiles DEF Llama!Prepare, Llama!Go, Llama!Ends, Llama!fileVars
<1>3. CASE Llama!AddWorktree
  BY <1>3, SameFiles DEF Llama!AddWorktree, Llama!Go, Llama!Raise, Llama!fileVars, Llama!Same
<1>4. CASE Llama!BuildCommand
  BY <1>4, StageOrder, SameFiles
  DEF Llama!BuildCommand, Llama!Go, Llama!Raise, Llama!treeVars, Llama!fileVars, Llama!Same
<1>5. CASE Llama!TruncateTrace
  <2>1. /\ llamaStage = "truncate" /\ trace' \in {trace, Llama!NoEvents}
        /\ llamaStage' \in {"execute", "remove"}
        /\ llamaStage' = "execute" => trace' = Llama!NoEvents
        /\ UNCHANGED <<llamaChecks, returncode, llamaOutputs>>
    BY <1>5 DEF Llama!TruncateTrace, Llama!Go, Llama!Raise, Llama!Same
  <2>2. IsTrace'
    <3>1. CASE trace' = trace
      BY <3>1 DEF SummaryInv, IsTrace
    <3>2. CASE trace' = Llama!NoEvents
      <4>1. {} \in SUBSET Nat /\ FALSE \in BOOLEAN
        OBVIOUS
      <4>2. QED
        BY <3>2, <4>1 DEF IsTrace, Llama!NoEvents
    <3>3. QED
      BY <2>1, <3>1, <3>2
  <2>3. /\ llamaOutputs["summary"].check < llamaChecks
        /\ llamaOutputs["summary"].check \in Nat /\ llamaChecks \in Nat
    BY <2>1 DEF SummaryInv
  <2>4. Llama!SummaryIsEarned'
    BY <2>1, <2>3 DEF Llama!SummaryIsEarned
  <2>5. llamaStage' = "execute" => trace'.events \subseteq {llamaChecks'}
    BY <2>1 DEF Llama!NoEvents
  <2>6. QED
    BY <2>1, <2>2, <2>3, <2>4, <2>5 DEF SummaryInv
<1>6. CASE Llama!Execute
  <2>1. /\ llamaStage = "execute" /\ UNCHANGED <<llamaChecks, llamaOutputs>>
        /\ llamaStage' \in {"stdout", "remove"}
        /\ Llama!TraceAppended \/ UNCHANGED trace
        /\ llamaStage' = "stdout" => Llama!TraceAppended
    BY <1>6 DEF Llama!Execute, Llama!Go, Llama!Raise, Llama!Same
  <2>2. /\ llamaChecks \in Nat /\ IsTrace /\ trace.events \subseteq {llamaChecks}
        /\ llamaOutputs["summary"].check < llamaChecks /\ llamaOutputs["summary"].check \in Nat
    BY <2>1 DEF SummaryInv
  <2>3. IsTrace' /\ (llamaStage' = "stdout" => trace'.events \subseteq {llamaChecks})
    <3>1. CASE Llama!TraceAppended
      BY <2>2, <3>1, AppendedTrace
    <3>2. CASE ~Llama!TraceAppended
      BY <2>1, <2>2, <3>2 DEF IsTrace
    <3>3. QED
      BY <3>1, <3>2
  <2>4. Llama!SummaryIsEarned'
    BY <2>1, <2>2 DEF Llama!SummaryIsEarned
  <2>5. QED
    BY <2>1, <2>2, <2>3, <2>4 DEF SummaryInv
<1>7. CASE Llama!SaveOutput
  <2>1. /\ llamaStage \in Llama!Outputs /\ UNCHANGED <<llamaChecks, returncode, trace>>
        /\ llamaChecks \in Nat
        /\ llamaOutputs["summary"].check < llamaChecks /\ llamaOutputs["summary"].check \in Nat
        /\ IsTrace
    BY <1>7 DEF Llama!SaveOutput, Llama!Same, SummaryInv
  <2>2. \/ llamaOutputs' = [llamaOutputs EXCEPT
                             ![llamaStage] = [check |-> llamaChecks, whole |-> TRUE]]
             /\ llamaStage' = Llama!NextOutput[llamaStage]
        \/ llamaOutputs' \in {llamaOutputs, [llamaOutputs EXCEPT
                                 ![llamaStage] = [check |-> llamaChecks, whole |-> FALSE]]}
             /\ llamaStage' = "remove"
    BY <1>7 DEF Llama!SaveOutput, Llama!WriteOutput, Llama!Go, Llama!Raise
  <2>3. llamaOutputs' \in [Llama!Outputs -> [check : Nat, whole : BOOLEAN]]
    BY <2>1, <2>2, OutputTyped DEF SummaryInv
  <2>4. llamaStage' \in {"stderr", "judge", "summary", "remove"}
    BY <2>1, <2>2, StageOrder
  <2>5. CASE llamaStage # "summary"
    <3>1. llamaOutputs'["summary"] = llamaOutputs["summary"]
      BY <2>1, <2>2, <2>5 DEF SummaryInv
    <3>2. Llama!SummaryIsEarned'
      BY <2>1, <3>1 DEF Llama!SummaryIsEarned
    <3>3. llamaStage' \in {"stderr", "judge"} => trace.events \subseteq {llamaChecks}
      BY <2>1, <2>2, StageOrder DEF SummaryInv
    <3>4. llamaStage' = "summary" => returncode = "zero" /\ trace = Own
      BY <2>1, <2>2, StageOrder DEF SummaryInv
    <3>5. IsTrace' /\ Own' = Own
      BY <2>1 DEF IsTrace, Own
    <3>6. QED
      BY <2>1, <2>3, <2>4, <3>1, <3>2, <3>3, <3>4, <3>5 DEF SummaryInv
  <2>6. CASE llamaStage = "summary"
    <3>1. returncode = "zero" /\ trace = Own
      BY <2>6 DEF SummaryInv
    <3>2. Llama!SummaryIsEarned' /\ Own' = Own
      BY <2>1, <3>1 DEF Llama!SummaryIsEarned, Own
    <3>3. llamaStage' = "remove"
      BY <2>2, <2>6, StageOrder
    <3>4. llamaOutputs'["summary"].check <= llamaChecks
      BY <2>1, <2>2, <2>6 DEF SummaryInv
    <3>5. QED
      BY <2>1, <2>3, <3>2, <3>3, <3>4 DEF SummaryInv, IsTrace
  <2>7. QED
    BY <2>5, <2>6
<1>8. CASE Llama!Judge
  <2>1. /\ llamaStage = "judge" /\ UNCHANGED <<llamaChecks, returncode, trace, llamaOutputs>>
        /\ llamaStage' \in {"harness_trace", "remove"}
        /\ llamaStage' = "harness_trace" =>
             returncode = "zero" /\ ~trace.torn /\ trace.evictions # {}
    BY <1>8 DEF Llama!Judge, Llama!Go, Llama!Raise, Llama!fileVars, Llama!Same
  <2>2. /\ trace \in [events : SUBSET Nat, evictions : SUBSET Nat, torn : BOOLEAN]
        /\ trace.evictions \subseteq trace.events /\ trace.events \subseteq {llamaChecks}
    BY <2>1 DEF SummaryInv, IsTrace
  <2>3. llamaStage' = "harness_trace" => trace = Own
    <3> SUFFICES ASSUME llamaStage' = "harness_trace" PROVE trace = Own
      OBVIOUS
    <3>1. trace.evictions = {llamaChecks} /\ trace.events = {llamaChecks} /\ trace.torn = FALSE
      BY <2>1, <2>2
    <3>2. QED
      BY <2>2, <3>1 DEF Own
  <2>4. QED
    BY <2>1, <2>3, SameFiles
<1>9. CASE Llama!RemoveWorktree
  BY <1>9, SameFiles DEF Llama!RemoveWorktree, Llama!Go, Llama!Raise, Llama!fileVars
<1>10. CASE Llama!Cleanup
  BY <1>10, SameFiles DEF Llama!Cleanup, Llama!Ends, Llama!fileVars
<1>11. CASE Llama!Kill
  <2>1. /\ llamaStage' = "idle" /\ UNCHANGED <<llamaChecks, returncode>>
        /\ llamaOutputs' = llamaOutputs
             \/ (llamaStage \in Llama!Outputs
                   /\ llamaOutputs' = [llamaOutputs EXCEPT
                                        ![llamaStage] = [check |-> llamaChecks, whole |-> FALSE]])
        /\ UNCHANGED trace \/ (llamaStage = "execute" /\ Llama!TraceAppended)
    BY <1>11 DEF Llama!Kill, Llama!Ends
  <2>2. /\ llamaChecks \in Nat /\ IsTrace
        /\ llamaOutputs["summary"].check <= llamaChecks /\ llamaOutputs["summary"].check \in Nat
    BY DEF SummaryInv
  <2>3. llamaOutputs' \in [Llama!Outputs -> [check : Nat, whole : BOOLEAN]]
    BY <2>1, <2>2, OutputTyped DEF SummaryInv
  <2>4. IsTrace'
    BY <2>1, <2>2, AppendedTrace DEF IsTrace
  <2>5. \/ llamaOutputs'["summary"] = llamaOutputs["summary"]
        \/ llamaOutputs'["summary"] = [check |-> llamaChecks, whole |-> FALSE]
    BY <2>1 DEF SummaryInv
  <2>6. Llama!SummaryIsEarned'
    <3>1. CASE llamaOutputs'["summary"] = llamaOutputs["summary"] /\ UNCHANGED trace
      BY <2>1, <3>1 DEF SummaryInv, Llama!SummaryIsEarned
    <3>2. CASE llamaOutputs'["summary"] = llamaOutputs["summary"] /\ llamaStage = "execute"
      <4>1. llamaOutputs["summary"].check < llamaChecks
        BY <3>2 DEF SummaryInv
      <4>2. QED
        BY <2>1, <2>2, <3>2, <4>1 DEF Llama!SummaryIsEarned
    <3>3. CASE llamaOutputs'["summary"] = [check |-> llamaChecks, whole |-> FALSE]
      BY <3>3 DEF Llama!SummaryIsEarned
    <3>4. QED
      BY <2>1, <2>5, <3>1, <3>2, <3>3
  <2>7. QED
    BY <2>1, <2>2, <2>3, <2>4, <2>5, <2>6 DEF SummaryInv
<1>12. CASE Llama!Interrupt
  <2>1. /\ llamaStage \in {"execute", "judge", "remove"} \cup Llama!Outputs
        /\ llamaStage' \in {"remove", "cleanup"} /\ UNCHANGED <<llamaChecks, returncode>>
        /\ IF llamaStage \in Llama!Outputs
           THEN llamaOutputs' = [llamaOutputs EXCEPT
                                  ![llamaStage] = [check |-> llamaChecks, whole |-> TRUE]]
           ELSE UNCHANGED llamaOutputs
        /\ IF llamaStage = "execute" THEN Llama!TraceAppended ELSE UNCHANGED trace
    BY <1>12 DEF Llama!Interrupt, Llama!Raise, Llama!WriteOutput, Llama!fileVars
  <2>2. /\ llamaChecks \in Nat /\ IsTrace
        /\ llamaOutputs["summary"].check <= llamaChecks /\ llamaOutputs["summary"].check \in Nat
    BY DEF SummaryInv
  <2>3. llamaOutputs' \in [Llama!Outputs -> [check : Nat, whole : BOOLEAN]]
    <3>1. CASE llamaStage \in Llama!Outputs
      <4>1. TRUE \in BOOLEAN
        OBVIOUS
      <4>2. [llamaOutputs EXCEPT ![llamaStage] = [check |-> llamaChecks, whole |-> TRUE]]
              \in [Llama!Outputs -> [check : Nat, whole : BOOLEAN]]
        BY <2>2, <3>1, <4>1, OutputTyped DEF SummaryInv
      <4>3. QED
        BY <2>1, <3>1, <4>2
    <3>2. CASE llamaStage \notin Llama!Outputs
      BY <2>1, <3>2 DEF SummaryInv
    <3>3. QED
      BY <3>1, <3>2
  <2>4. IsTrace'
    BY <2>1, <2>2, AppendedTrace DEF IsTrace
  <2>5. /\ llamaStage # "summary" => llamaOutputs'["summary"] = llamaOutputs["summary"]
        /\ llamaStage = "summary" =>
             llamaOutputs'["summary"] = [check |-> llamaChecks, whole |-> TRUE]
    BY <2>1 DEF SummaryInv
  <2>6. Llama!SummaryIsEarned'
    <3>1. CASE llamaStage = "summary"
      BY <2>1, <3>1 DEF SummaryInv, Llama!SummaryIsEarned, Own
    <3>2. CASE llamaStage = "execute"
      <4>1. llamaOutputs["summary"].check < llamaChecks
        BY <3>2 DEF SummaryInv
      <4>2. QED
        BY <2>1, <2>2, <2>5, <3>2, <4>1 DEF Llama!SummaryIsEarned
    <3>3. CASE llamaStage \notin {"summary", "execute"}
      BY <2>1, <2>5, <3>3 DEF SummaryInv, Llama!SummaryIsEarned
    <3>4. QED
      BY <3>1, <3>2, <3>3
  <2>7. QED
    BY <2>1, <2>2, <2>3, <2>4, <2>5, <2>6 DEF SummaryInv
<1>13. CASE UNCHANGED Llama!vars
  BY <1>13 DEF Llama!vars, Llama!fileVars, SummaryInv, IsTrace, Own, Llama!SummaryIsEarned
<1>14. QED
  BY <1>1, <1>2, <1>3, <1>4, <1>5, <1>6, <1>7, <1>8, <1>9, <1>10, <1>11, <1>12, <1>13
  DEF Llama!Next, Llama!Progress

(* A whole summary of the newest check is of a test that exited with zero  *)
(* and of a trace with its own events only (evict_smoke.py:53-140).        *)
THEOREM SummaryEarned == Llama!Spec => []Llama!SummaryIsEarned
<1>1. SummaryInv => Llama!SummaryIsEarned
  BY DEF SummaryInv
<1>2. QED
  BY <1>1, SummaryInit, SummaryNext, PTL DEF Llama!Spec

(***************************************************************************)
(* The answer.  A check that has raised nothing has written each of its    *)
(* output files whole by the time it removes its worktree, and the answer  *)
(* "ok" is given only then.                                                *)
(***************************************************************************)
Kept(f) == llamaOutputs[f] = [check |-> llamaChecks, whole |-> TRUE]

Whole == trace = Own /\ \A f \in Llama!Outputs : Kept(f)

AnswerInv ==
  /\ SummaryInv
  /\ llamaStage = "idle" => llamaAnswer = [check |-> llamaChecks, code |-> llamaAnswer.code]
  /\ llamaStage \in {"idle"} \cup EarlyLlamaStages => llamaRaised = FALSE
  /\ llamaStage \in {"stderr", "judge", "harness_trace", "summary"} => Kept("stdout")
  /\ llamaStage \in {"judge", "harness_trace", "summary"} => Kept("stderr")
  /\ llamaStage = "summary" => Kept("harness_trace")
  /\ llamaStage \in {"remove", "cleanup"} /\ ~llamaRaised => Whole

OkIsWhole == llamaStage = "idle" /\ llamaAnswer.code = "ok" => Whole

LEMMA AnswerInit == Llama!Init => AnswerInv /\ OkIsWhole
BY SummaryInit DEF Llama!Init, AnswerInv, OkIsWhole, EarlyLlamaStages, BuildStages, Llama!Outputs

(* A step without output files: later stages come with what they need.     *)
LEMMA SameOutputs ==
  ASSUME AnswerInv, SummaryInv', UNCHANGED <<llamaChecks, llamaOutputs>>, llamaStage' # "idle",
         llamaStage' \in EarlyLlamaStages => llamaRaised' = FALSE,
         llamaStage' \in {"stderr", "summary"} => llamaStage' = llamaStage,
         llamaStage' = "judge" => llamaStage' = llamaStage,
         llamaStage' = "harness_trace" => llamaStage \in {"judge", "harness_trace"},
         llamaStage' \in {"remove", "cleanup"} /\ ~llamaRaised' =>
           llamaStage \in {"remove", "cleanup"} /\ ~llamaRaised /\ UNCHANGED trace
  PROVE  AnswerInv' /\ OkIsWhole'
BY DEF AnswerInv, OkIsWhole, Kept, Whole, Own

LEMMA AnswerNext == AnswerInv /\ Llama!Next => AnswerInv' /\ OkIsWhole'
<1> SUFFICES ASSUME AnswerInv, Llama!Next PROVE AnswerInv' /\ OkIsWhole'
  OBVIOUS
<1>1. SummaryInv'
  BY SummaryNext DEF AnswerInv
<1> USE DEF EarlyLlamaStages, BuildStages, Llama!Outputs
<1>2. CASE Llama!StartCheck
  BY <1>1, <1>2 DEF Llama!StartCheck, Llama!Go, AnswerInv, OkIsWhole
<1>3. CASE Llama!Prepare
  <2>1. CASE Llama!Go("add")
    BY <1>1, <1>3, <2>1, SameOutputs DEF Llama!Prepare, Llama!Go, AnswerInv, Llama!fileVars
  <2>2. CASE Llama!Ends("failed")
    BY <1>1, <1>3, <2>2 DEF Llama!Prepare, Llama!Ends, AnswerInv, OkIsWhole
  <2>3. QED
    BY <1>3, <2>1, <2>2 DEF Llama!Prepare
<1>4. CASE Llama!AddWorktree
  BY <1>1, <1>4, SameOutputs
  DEF Llama!AddWorktree, Llama!Go, Llama!Raise, Llama!Same, AnswerInv, Llama!fileVars
<1>5. CASE Llama!BuildCommand
  BY <1>1, <1>5, SameOutputs, StageOrder
  DEF Llama!BuildCommand, Llama!Go, Llama!Raise, Llama!Same, AnswerInv, Llama!fileVars
<1>6. CASE Llama!TruncateTrace
  BY <1>1, <1>6, SameOutputs DEF Llama!TruncateTrace, Llama!Go, Llama!Raise, Llama!Same, AnswerInv
<1>7. CASE Llama!Execute
  BY <1>1, <1>7, SameOutputs DEF Llama!Execute, Llama!Go, Llama!Raise, Llama!Same, AnswerInv
<1>8. CASE Llama!SaveOutput
  <2>1. /\ llamaStage \in Llama!Outputs /\ UNCHANGED <<llamaChecks, trace>>
        /\ llamaOutputs \in [Llama!Outputs -> [check : Nat, whole : BOOLEAN]]
        /\ llamaRaised = FALSE
    BY <1>8 DEF Llama!SaveOutput, Llama!Same, AnswerInv, SummaryInv
  <2>2. \/ /\ llamaOutputs' = [llamaOutputs EXCEPT
                                ![llamaStage] = [check |-> llamaChecks, whole |-> TRUE]]
           /\ llamaStage' = Llama!NextOutput[llamaStage] /\ llamaRaised' = FALSE
        \/ llamaStage' = "remove" /\ llamaRaised' = TRUE
    BY <1>8, <2>1 DEF Llama!SaveOutput, Llama!WriteOutput, Llama!Go, Llama!Raise
  <2>3. CASE llamaStage' = "remove" /\ llamaRaised' = TRUE
    BY <1>1, <2>3 DEF AnswerInv, OkIsWhole
  <2>4. CASE /\ llamaOutputs' = [llamaOutputs EXCEPT
                                  ![llamaStage] = [check |-> llamaChecks, whole |-> TRUE]]
             /\ llamaStage' = Llama!NextOutput[llamaStage] /\ llamaRaised' = FALSE
    <3>1. llamaOutputs'[llamaStage] = [check |-> llamaChecks, whole |-> TRUE]
          /\ \A f \in Llama!Outputs \ {llamaStage} : llamaOutputs'[f] = llamaOutputs[f]
      BY <2>1, <2>4
    <3>2. \/ llamaStage = "stdout" /\ llamaStage' = "stderr"
          \/ llamaStage = "stderr" /\ llamaStage' = "judge"
          \/ llamaStage = "harness_trace" /\ llamaStage' = "summary"
          \/ llamaStage = "summary" /\ llamaStage' = "remove"
      BY <2>1, <2>4 DEF Llama!NextOutput
    <3>3. llamaStage \in {"harness_trace", "summary"} => trace = Own
      BY DEF AnswerInv, SummaryInv
    <3>4. \A f \in Llama!Outputs :
            llamaOutputs'[f] = [check |-> llamaChecks, whole |-> TRUE] => Kept(f)'
      BY <2>1 DEF Kept
    <3>5. CASE llamaStage = "stdout"
      BY <1>1, <2>4, <3>1, <3>2, <3>4, <3>5 DEF AnswerInv, OkIsWhole, Kept
    <3>6. CASE llamaStage = "stderr"
      BY <1>1, <2>4, <3>1, <3>2, <3>4, <3>6 DEF AnswerInv, OkIsWhole, Kept
    <3>7. CASE llamaStage = "harness_trace"
      BY <1>1, <2>4, <3>1, <3>2, <3>4, <3>7 DEF AnswerInv, OkIsWhole, Kept
    <3>8. CASE llamaStage = "summary"
      <4>1. Whole'
        BY <2>1, <3>1, <3>3, <3>8 DEF AnswerInv, Kept, Whole, Own
      <4>2. QED
        BY <1>1, <3>2, <3>8, <4>1 DEF AnswerInv, OkIsWhole
    <3>9. QED
      BY <2>1, <3>5, <3>6, <3>7, <3>8
  <2>5. QED
    BY <2>2, <2>3, <2>4
<1>9. CASE Llama!Judge
  BY <1>1, <1>9, SameOutputs
  DEF Llama!Judge, Llama!Go, Llama!Raise, Llama!Same, AnswerInv, Llama!fileVars
<1>10. CASE Llama!RemoveWorktree
  <2>1. /\ llamaStage = "remove" /\ UNCHANGED <<llamaChecks, trace, llamaOutputs>>
        /\ Llama!Go("cleanup") \/ Llama!Raise("cleanup")
    BY <1>10 DEF Llama!RemoveWorktree, Llama!fileVars
  <2>2. CASE Llama!Go("cleanup")
    BY <1>1, <2>1, <2>2, SameOutputs DEF Llama!Go, AnswerInv
  <2>3. CASE Llama!Raise("cleanup")
    BY <1>1, <2>1, <2>3, SameOutputs DEF Llama!Raise, AnswerInv
  <2>4. QED
    BY <2>1, <2>2, <2>3
<1>11. CASE Llama!Cleanup
  <2>1. /\ llamaStage = "cleanup" /\ llamaStage' = "idle" /\ llamaRaised' = FALSE
        /\ UNCHANGED <<llamaChecks, trace, llamaOutputs>>
    BY <1>11 DEF Llama!Cleanup, Llama!Ends, Llama!fileVars
  <2>2. llamaAnswer' = [check |-> llamaChecks, code |-> llamaAnswer'.code]
    BY <1>11 DEF Llama!Cleanup, Llama!Ends
  <2>3. llamaAnswer'.code = "ok" => ~llamaRaised
    BY <1>11 DEF Llama!Cleanup, Llama!Ends
  <2>4. ~llamaRaised => Whole'
    BY <2>1 DEF AnswerInv, Whole, Kept, Own
  <2>5. QED
    BY <1>1, <2>1, <2>2, <2>3, <2>4 DEF AnswerInv, OkIsWhole
<1>12. CASE Llama!Kill
  BY <1>1, <1>12 DEF Llama!Kill, Llama!Ends, AnswerInv, OkIsWhole
<1>13. CASE Llama!Interrupt
  <2>1. llamaStage' \in {"remove", "cleanup"} /\ llamaRaised' = TRUE
    <3>1. Llama!Raise("remove") \/ Llama!Raise("cleanup")
      BY <1>13 DEF Llama!Interrupt
    <3>2. QED
      BY <3>1 DEF Llama!Raise
  <2>2. QED
    BY <1>1, <2>1 DEF AnswerInv, OkIsWhole
<1>14. QED
  BY <1>2, <1>3, <1>4, <1>5, <1>6, <1>7, <1>8, <1>9, <1>10, <1>11, <1>12, <1>13
  DEF Llama!Next, Llama!Progress

(* What the llama checks left behind, with no claim on the last answer: a  *)
(* profile may have removed the files it was about.                        *)
LlamaInv == CheckoutInv /\ AnswerInv

LEMMA LlamaNext ==
  ASSUME LlamaInv, Llama!StartCheck \/ Llama!Progress \/ Llama!Interrupt \/ Llama!Kill
  PROVE  LlamaInv' /\ OkIsWhole'
<1>1. Llama!Next
  BY DEF Llama!Next
<1> QED
  BY <1>1, CheckoutNext, AnswerNext DEF LlamaInv

(* A removal of any of the files between two llama checks.                 *)
LEMMA LlamaRemoved ==
  ASSUME LlamaInv, llamaStage = "idle", UNCHANGED llamaRunVars,
         trace' \in {trace, Llama!NoEvents},
         \E dropped \in SUBSET Llama!Outputs :
           llamaOutputs' = [f \in Llama!Outputs |->
             IF f \in dropped THEN Llama!NoOutput ELSE llamaOutputs[f]]
  PROVE  LlamaInv'
<1>1. /\ llamaOutputs' \in [Llama!Outputs -> [check : Nat, whole : BOOLEAN]]
      /\ llamaOutputs'["summary"] \in {Llama!NoOutput, llamaOutputs["summary"]}
  BY DEF LlamaInv, AnswerInv, SummaryInv, Llama!NoOutput, Llama!Outputs
<1>2. llamaChecks \in Nat /\ llamaOutputs["summary"].check <= llamaChecks
  BY DEF LlamaInv, AnswerInv, SummaryInv
<1>3. llamaOutputs'["summary"].check <= llamaChecks
  BY <1>1, <1>2 DEF Llama!NoOutput
<1>4. IsTrace'
  <2>1. CASE trace' = trace
    BY <2>1 DEF LlamaInv, AnswerInv, SummaryInv, IsTrace
  <2>2. CASE trace' = Llama!NoEvents
    <3>1. /\ Llama!NoEvents \in [events : SUBSET Nat, evictions : SUBSET Nat, torn : BOOLEAN]
          /\ Llama!NoEvents.evictions \subseteq Llama!NoEvents.events
      BY DEF Llama!NoEvents
    <3> QED
      BY <2>2, <3>1 DEF IsTrace
  <2> QED
    BY <2>1, <2>2
<1>5. Llama!SummaryIsEarned'
  BY <1>1
     DEF LlamaInv, AnswerInv, SummaryInv, Llama!SummaryIsEarned,
         Llama!NoOutput, Llama!NoEvents, llamaRunVars
<1>6. SummaryInv'
  BY <1>1, <1>2, <1>3, <1>4, <1>5
     DEF LlamaInv, AnswerInv, SummaryInv, llamaRunVars, LlamaStages,
         EarlyLlamaStages, BuildStages, Llama!Outputs
<1>7. AnswerInv'
  BY <1>6 DEF LlamaInv, AnswerInv, llamaRunVars
<1> QED
  BY <1>7 DEF LlamaInv, CheckoutInv, llamaRunVars

-----------------------------------------------------------------------------
(***************************************************************************)
(* A check goes through the commands of its profile.                       *)
(***************************************************************************)
LEMMA CommandOrder ==
  /\ DOMAIN NextStage = {"fast", "llama", "io"}
  /\ DOMAIN NextStage["fast"] = {"prerequisites", "pytest", "smoke", "ablation"}
  /\ DOMAIN NextStage["llama"] = {"prerequisites", "llama", "pytest"}
  /\ DOMAIN NextStage["io"] = {"prerequisites", "make", "backend", "pytest"}
  /\ NextStage["fast"]["prerequisites"] = "pytest" /\ NextStage["fast"]["pytest"] = "smoke"
  /\ NextStage["fast"]["smoke"] = "ablation" /\ NextStage["fast"]["ablation"] = "passed"
  /\ NextStage["llama"]["prerequisites"] = "llama" /\ NextStage["llama"]["llama"] = "pytest"
  /\ NextStage["llama"]["pytest"] = "passed"
  /\ NextStage["io"]["prerequisites"] = "make" /\ NextStage["io"]["make"] = "backend"
  /\ NextStage["io"]["backend"] = "pytest" /\ NextStage["io"]["pytest"] = "passed"
BY DEF NextStage

(* The stage and the result; nothing runs but what the check waits for.    *)
Control ==
  /\ profile \in DOMAIN NextStage \cup {"none"}
  /\ stage = "idle" \/ (profile # "none" /\ stage \in DOMAIN NextStage[profile])
  /\ checks \in Nat /\ first \in Nat
  /\ result.check \in Nat /\ result.check <= checks
  /\ stage # "idle" \/ profile = "none" => result = NoResult
  /\ \A d \in Dirs : stage # d => At(d, "none")
  /\ llamaStage # "idle" => profile = "none" \/ stage = "llama"

(* What every action that decides on a command does: it goes on, or it     *)
(* finishes.                                                               *)
GoesOn ==
  /\ stage # "idle" /\ NextStage[profile][stage] # "passed"
  /\ stage' = NextStage[profile][stage]
  /\ UNCHANGED <<result, answer>>

Finishes(status) ==
  /\ stage # "idle"
  /\ status \in {"passed", "failed", "unavailable"}
  /\ status = "passed" => NextStage[profile][stage] = "passed"
  /\ Finish(checks, status, result)

Verdict == GoesOn \/ \E status : Finishes(status)

Decides ==
  \/ CheckPrerequisites \/ RunCommand \/ CannotStartLlama \/ JudgeLlama
  \/ \E d \in Dirs : CannotStart(d) \/ JudgeExperiment(d)

LEMMA DecidesVerdict == Control /\ Decides => Verdict /\ Same
<1> SUFFICES ASSUME Control, Decides PROVE Verdict /\ Same
  OBVIOUS
<1>1. ASSUME stage # "idle", Succeed PROVE Verdict
  BY <1>1 DEF Succeed, Verdict, GoesOn, Finishes
<1>2. ASSUME stage # "idle", Fail PROVE Verdict
  BY <1>2 DEF Fail, Verdict, Finishes
<1>3. stage # "idle"
  BY StepsAssumption
  DEF Decides, CheckPrerequisites, RunCommand, CannotStartLlama, JudgeLlama, CannotStart,
         JudgeExperiment, Waiting
<1>4. Same
  BY DEF Decides, CheckPrerequisites, RunCommand, CannotStartLlama, JudgeLlama, CannotStart,
         JudgeExperiment
<1>5. Succeed \/ Fail \/ Finish(checks, "unavailable", result)
  BY DEF Decides, CheckPrerequisites, RunCommand, CannotStartLlama, JudgeLlama, CannotStart,
         JudgeExperiment
<1>6. ASSUME Finish(checks, "unavailable", result) PROVE Verdict
  BY <1>3, <1>6 DEF Verdict, Finishes
<1> QED
  BY <1>1, <1>2, <1>3, <1>4, <1>5, <1>6

(* How a check can finish.                                                 *)
LEMMA FinishOutcomes ==
  ASSUME NEW check, NEW status, NEW old, Finish(check, status, old)
  PROVE  /\ stage' = "idle" /\ answer'.check = check
         /\ \/ result' = [check |-> check, status |-> status]
            \/ result' = old
            \/ result' = [check |-> check, status |-> "torn"]
         /\ \/ /\ result' = [check |-> check, status |-> status]
               /\ answer'.code = status /\ answer'.saved = TRUE
            \/ answer'.code \in {"failed", "killed"} /\ answer'.saved = FALSE
         /\ result' = old => \/ answer'.code = "failed"
                             \/ old = [check |-> check, status |-> status]
                             \/ old = [check |-> check, status |-> "torn"]
BY DEF Finish, Ends

LEMMA ControlInit == Init => Control
<1> SUFFICES ASSUME Init PROVE Control
  OBVIOUS
<1>1. \A d \in Dirs : At(d, "none")
  BY DEF Init, RunInit, At, NoProc
<1>2. llamaStage = "idle"
  BY DEF Init, Llama!Init
<1> QED
  BY <1>1, <1>2 DEF Init, Control, NoResult

LEMMA ControlVerdict ==
  ASSUME Control, Verdict, Same, llamaStage = "idle", \A d \in Dirs : At(d, "none")
  PROVE  Control'
<1>1. UNCHANGED <<checks, first, profile, proc, llamaStage>> /\ Dirs' = Dirs
  BY DEF Same, runVars, llamaVars, llamaRunVars, Dirs
<1>2. \A d \in Dirs : At(d, "none")'
  BY <1>1 DEF At
<1>3. CASE GoesOn
  <2>1. profile # "none" /\ stage' \in DOMAIN NextStage[profile] /\ stage' # "idle"
    BY <1>3, CommandOrder DEF Control, GoesOn
  <2>2. result' = result /\ result = NoResult
    BY <1>3 DEF Control, GoesOn
  <2> QED
    BY <1>1, <1>2, <2>1, <2>2 DEF Control
<1>4. ASSUME NEW status, Finishes(status) PROVE Control'
  <2>1. stage' = "idle" /\ stage # "idle"
    BY <1>4, FinishOutcomes DEF Finishes
  <2>2. result'.check \in Nat /\ result'.check <= checks
    <3>1. result' \in {[check |-> checks, status |-> status], result,
                       [check |-> checks, status |-> "torn"]}
      BY <1>4, FinishOutcomes DEF Finishes
    <3> QED
      BY <3>1 DEF Control
  <2>3. profile # "none"
    BY <2>1 DEF Control
  <2> QED
    BY <1>1, <1>2, <2>1, <2>2, <2>3 DEF Control
<1> QED
  BY <1>3, <1>4 DEF Verdict

-----------------------------------------------------------------------------
(***************************************************************************)
(* The runs of the experiments.                                            *)
(***************************************************************************)
(* What a passed result says of an experiment.                             *)
Backed(d) ==
  /\ At(d, "none") /\ ended[d].code = "ok"
  /\ manifest[d].run = ended[d].run /\ manifest[d].run >= first
  /\ RequirePassed(d)
  /\ \A o \in manifest[d].outputs : Holds(d, o) /\ o.digest.whole

EndsKnown == \A d \in Dirs : ended[d].run \in Nat /\ ended[d].run <= runs

(* The exit code of a run before this check is of a manifest that was      *)
(* removed; one of its own is truthful.                                    *)
Sound(d) == FilesInv(d) /\ (ended[d].run >= first => Truthful(d))

PassedIdle == stage = "idle" /\ result = [check |-> checks, status |-> "passed"]

Backing ==
  /\ profile = "fast" /\ stage # "idle" => \A d \in Dirs : Sound(d)
  /\ stage = "ablation" => Backed("smoke")
  /\ profile = "fast" /\ PassedIdle => \A d \in Dirs : Backed(d)

(* What is on disk is known for scripts that write before they record.     *)
RunPart == CInv /\ EndsKnown /\ (InOrder => Backing)

LEMMA OrderFixed == InOrder' = InOrder
BY DEF InOrder, Dirs

(* The ended run of a directory is the one that just ran there.            *)
LEMMA EndsStep ==
  ASSUME CInv, EndsKnown, NEW d \in Dirs, DirStep(d)
  PROVE  EndsKnown'
<1>1. Frame(d) /\ Shapes /\ Core(d)
  BY StepOf DEF CInv
<1>2. runs \in Nat /\ runs' \in Nat /\ runs <= runs' /\ Dirs' = Dirs
  BY <1>1 DEF Frame, Shapes, Dirs
<1>3. \A e \in Dirs \ {d} : ended'[e] = ended[e]
  BY <1>1 DEF Frame
<1>4. ended'[d] = ended[d]
        \/ (~At(d, "none") /\ \E code, lost : End(d, code, lost))
  BY DEF DirStep, Launch, ProcessStep, Kill, NoDirectory, Enter, WriteFile, AddOutput,
         MarkFailed, StepRaises, LeaveBody, Finalize, Exit, At
<1>5. ASSUME ~At(d, "none"), NEW code, NEW lost, End(d, code, lost)
      PROVE  ended'[d].run \in Nat /\ ended'[d].run <= runs
  <2>1. proc[d].run \in Nat /\ proc[d].run <= runs
    BY <1>1, <1>5 DEF Core, NumbersKnown, IsProcess, NoProc, At
  <2>2. ended'[d].run = proc[d].run
    BY <1>1, <1>5 DEF End, Shapes
  <2> QED
    BY <2>1, <2>2
<1>6. ended'[d].run \in Nat /\ ended'[d].run <= runs'
  BY <1>2, <1>4, <1>5 DEF EndsKnown
<1> QED
  BY <1>2, <1>3, <1>6 DEF EndsKnown

(* What a check left stays while another directory is at work.             *)
LEMMA BackedApart ==
  ASSUME CInv, NEW d \in Dirs, DirStep(d), NEW e \in Dirs \ {d}, Backed(e), UNCHANGED first
  PROVE  Backed(e)'
<1>1. Frame(d) /\ files'[e] = files[e]
  BY StepOf, FilesApart
<1> QED
  BY <1>1 DEF Frame, Backed, At, RequirePassed, Holds

LEMMA SoundStep ==
  ASSUME CInv, InOrder, NEW d \in Dirs, DirStep(d), \A e \in Dirs : Sound(e),
         UNCHANGED first
  PROVE  \A e \in Dirs : Sound(e)'
<1>1. FilesInv(d)' /\ Truthful(d)'
  BY FilesStep, StepOf DEF InOrder, Sound, DirInv
<1>2. ASSUME NEW e \in Dirs \ {d} PROVE Sound(e)'
  <2>1. FilesInv(e)' /\ (Truthful(e) => Truthful(e)') /\ ended'[e] = ended[e]
    BY FilesApart, StepKeepsCore, StepOf DEF Sound, Frame
  <2> QED
    BY <2>1 DEF Sound
<1> QED
  BY <1>1, <1>2 DEF Sound

(* An experiment that is accepted backs the result: the manifest that was  *)
(* read is of the run that just exited, and still true.                    *)
LEMMA AcceptedIsBacked ==
  ASSUME NEW d \in Dirs, CInv, EndsKnown, Sound(d), At(d, "none"), first \in Nat,
         ended[d].run >= first, Accepts(d)
  PROVE  Backed(d)
<1>1. /\ ended[d].code = "ok" /\ RequirePassed(d)
      /\ manifest[d].run = ended[d].run /\ manifest[d].status = "passed"
  BY DEF Sound, Truthful, Accepts, RequirePassed
<1>2. Describes(d, manifest[d].outputs, manifest[d].run)
  BY <1>1 DEF Sound, FilesInv, Matches, Newest
<1> QED
  BY <1>1, <1>2 DEF Backed, Describes, Bytes

(* Files that are removed back nothing, and contradict nothing.            *)
LEMMA CInvRemoved ==
  ASSUME CInv, \A d \in Dirs : At(d, "none"), UNCHANGED <<proc, runs, ended>>,
         files' = [d \in Dirs |-> files'[d]],
         manifest' = [d \in Dirs |-> manifest'[d]],
         \A d \in Dirs : manifest'[d] \in {manifest[d], NoManifest}
  PROVE  CInv'
<1>1. Shapes' /\ Dirs' = Dirs
  BY DEF CInv, Shapes, Dirs
<1>2. ASSUME NEW d \in Dirs PROVE Core(d)'
  <2>1. proc'[d] = NoProc /\ proc'[d].at = "none"
    BY DEF CInv, Core, NumbersKnown, IsProcess, At
  <2>2. manifest'[d].run \in Nat /\ manifest'[d].run <= runs
    BY DEF CInv, Shapes, Core, NumbersKnown, NoManifest
  <2> QED
    BY <2>1, <2>2 DEF Core, NumbersKnown, NotYetWritten, Written, At
<1> QED
  BY <1>1, <1>2 DEF CInv

-----------------------------------------------------------------------------
(***************************************************************************)
(* The llama check of a profile check: it has the number first.            *)
(***************************************************************************)
LlamaBacked ==
  /\ llamaAnswer = [check |-> first, code |-> "ok"]
  /\ trace.events = {first}
  /\ \A f \in Llama!Outputs : llamaOutputs[f] = [check |-> first, whole |-> TRUE]

LlamaPart ==
  /\ LlamaInv
  /\ profile = "llama" /\ stage # "idle" => llamaChecks = first \/ llamaChecks + 1 = first
  /\ profile = "llama" /\ stage = "prerequisites" => llamaChecks + 1 = first
  /\ stage = "llama" /\ llamaStage # "idle" => llamaChecks = first
  /\ stage = "llama" /\ llamaChecks = first => OkIsWhole
  /\ profile = "llama" /\ (stage = "pytest" \/ PassedIdle) => LlamaBacked

LEMMA LlamaNumber == LlamaInv => llamaChecks \in Nat
BY DEF LlamaInv, AnswerInv, SummaryInv

LEMMA OkIsBacked ==
  ASSUME LlamaInv, OkIsWhole, llamaStage = "idle", llamaChecks = first,
         llamaAnswer.code = "ok"
  PROVE  LlamaBacked
<1>1. Whole /\ llamaAnswer = [check |-> llamaChecks, code |-> llamaAnswer.code]
  BY DEF OkIsWhole, LlamaInv, AnswerInv
<1> QED
  BY <1>1 DEF LlamaBacked, Whole, Kept, Own

-----------------------------------------------------------------------------
(***************************************************************************)
(* The answers, and the invariant.                                         *)
(***************************************************************************)
Answers == AnswerMatchesResult /\ StaleResultExplained

Inv == Control /\ RunPart /\ LlamaPart /\ Answers

(* The result of the check before is gone once this one runs.              *)
LEMMA BeginStep ==
  ASSUME Inv, Begin
  PROVE  Inv'
<1>1. /\ stage = "idle" /\ stage' = "prerequisites" /\ profile # "none"
      /\ checks' = checks + 1 /\ result' = NoResult
      /\ first' = IF profile = "llama" THEN llamaChecks + 1 ELSE runs + 1
      /\ UNCHANGED <<profile, proc, runs, ended, llamaRunVars>>
  BY DEF Begin, StartCheck, Removed
<1>2. /\ \A d \in Dirs : At(d, "none")
      /\ llamaStage = "idle" /\ CInv /\ EndsKnown /\ LlamaInv
      /\ checks \in Nat /\ llamaChecks \in Nat /\ runs \in Nat
  <2>1. \A d \in Dirs : At(d, "none")
    BY <1>1, StepsAssumption DEF Inv, Control
  <2> QED
    BY <1>1, <2>1, LlamaNumber DEF Inv, Control, RunPart, LlamaPart, CInv, Shapes
<1>3. /\ files' = [d \in Dirs |-> [f \in FilesOf(d) |-> NoFile]]
      /\ manifest' = [d \in Dirs |-> NoManifest]
      /\ Dirs' = Dirs
  BY DEF Begin, Removed, Dirs
<1>4. CInv'
  <2>1. files' = [d \in Dirs |-> files'[d]] /\ manifest' = [d \in Dirs |-> manifest'[d]]
    BY <1>3
  <2>2. \A d \in Dirs : manifest'[d] \in {manifest[d], NoManifest}
    BY <1>3
  <2> QED
    BY <1>1, <1>2, <2>1, <2>2, CInvRemoved
<1>5. Control'
  <2>1. stage' \in DOMAIN NextStage[profile]
    BY <1>1, CommandOrder DEF Inv, Control
  <2>2. \A d \in Dirs : At(d, "none")'
    BY <1>1, <1>2 DEF At
  <2>3. llamaStage' = "idle" /\ first' \in Nat
    BY <1>1, <1>2 DEF llamaRunVars
  <2>4. result'.check = 0 /\ checks' \in Nat
    BY <1>1, <1>2 DEF NoResult
  <2> QED
    BY <1>1, <1>2, <1>3, <2>1, <2>2, <2>3, <2>4 DEF Inv, Control
<1>6. RunPart'
  <2>1. ASSUME profile = "fast", NEW d \in Dirs PROVE Sound(d)'
    <3>1. proc'[d].at = "none"
      BY <1>1, <1>2 DEF At
    <3>2. FileTable(d)'
      BY <1>3 DEF FileTable
    <3>3. manifest'[d].status = "none"
      BY <1>3 DEF NoManifest
    <3>4. FilesInv(d)'
      BY <3>1, <3>2, <3>3 DEF FilesInv, Entering, BodyOf, LeavingOf, Matches, At
    <3>5. ~(ended'[d].run >= first')
      BY <1>1, <1>2, <2>1 DEF EndsKnown
    <3> QED
      BY <3>4, <3>5 DEF Sound
  <2>2. EndsKnown'
    BY <1>1, <1>2, <1>3 DEF EndsKnown
  <2> QED
    BY <1>1, <1>3, <1>4, <2>1, <2>2 DEF RunPart, Backing, PassedIdle
<1>7. LlamaPart'
  <2>1. LlamaInv'
    <3>1. llamaOutputs' = [f \in Llama!Outputs |->
            IF f \in Llama!Outputs THEN Llama!NoOutput ELSE llamaOutputs[f]]
      BY DEF Begin, Removed
    <3>2. trace' = Llama!NoEvents
      BY DEF Begin, Removed
    <3> QED
      BY <1>1, <1>2, <3>1, <3>2, LlamaRemoved
  <2>2. llamaChecks' = llamaChecks /\ llamaStage' = llamaStage
    BY <1>1 DEF llamaRunVars
  <2>3. profile = "llama" => llamaChecks' + 1 = first'
    BY <1>1, <2>2
  <2> QED
    BY <1>1, <2>1, <2>2, <2>3 DEF LlamaPart, PassedIdle
<1>8. Answers'
  BY <1>1 DEF Answers, AnswerMatchesResult, StaleResultExplained
<1> QED
  BY <1>5, <1>6, <1>7, <1>8 DEF Inv

(* A removal that is cut short may leave the old result, and says so.      *)
LEMMA RemovalStopsStep ==
  ASSUME Inv, RemovalStops
  PROVE  Inv'
<1>1. /\ stage = "idle" /\ profile # "none"
      /\ checks' = checks + 1
      /\ first' = IF profile = "llama" THEN llamaChecks + 1 ELSE runs + 1
      /\ UNCHANGED <<profile, proc, runs, ended, llamaRunVars>>
  BY DEF RemovalStops, StartCheck
<1>2. /\ \A d \in Dirs : At(d, "none")
      /\ llamaStage = "idle" /\ CInv /\ EndsKnown /\ LlamaInv
      /\ checks \in Nat /\ llamaChecks \in Nat /\ runs \in Nat
      /\ result.check \in Nat /\ result.check <= checks
  <2>1. \A d \in Dirs : At(d, "none")
    BY <1>1, StepsAssumption DEF Inv, Control
  <2> QED
    BY <1>1, <2>1, LlamaNumber DEF Inv, Control, RunPart, LlamaPart, CInv, Shapes
<1>3. /\ stage' = "idle" /\ answer'.check = checks + 1
      /\ answer'.code \in {"failed", "killed"}
      /\ answer'.saved => result' = [check |-> checks + 1, status |-> answer'.code]
      /\ \/ result' \in {result, NoResult}
         \/ result'.check = checks + 1 /\ result'.status \in {"failed", "torn"}
  <2>1. PICK old \in {result, NoResult} :
          \/ Finish(checks + 1, "failed", old)
          \/ result' = old /\ Ends(checks + 1, "killed", FALSE)
    BY DEF RemovalStops
  <2>2. CASE Finish(checks + 1, "failed", old)
    <3>1. /\ stage' = "idle" /\ answer'.check = checks + 1
          /\ \/ /\ result' = [check |-> checks + 1, status |-> "failed"]
                /\ answer'.code = "failed" /\ answer'.saved = TRUE
             \/ answer'.code \in {"failed", "killed"} /\ answer'.saved = FALSE
          /\ \/ result' = [check |-> checks + 1, status |-> "failed"]
             \/ result' = old
             \/ result' = [check |-> checks + 1, status |-> "torn"]
      BY <2>2, FinishOutcomes
    <3> QED
      BY <2>1, <3>1
  <2>3. CASE result' = old /\ Ends(checks + 1, "killed", FALSE)
    BY <2>1, <2>3 DEF Ends
  <2> QED
    BY <2>1, <2>2, <2>3
<1>4. /\ files' = [d \in Dirs |-> files'[d]]
      /\ manifest' = [d \in Dirs |-> manifest'[d]]
      /\ \A d \in Dirs : manifest'[d] \in {manifest[d], NoManifest}
      /\ Dirs' = Dirs
  BY DEF RemovalStops, PartlyRemoved, Dirs
<1>5. CInv'
  BY <1>1, <1>2, <1>4, CInvRemoved
<1>6. result'.check \in Nat /\ result'.check <= checks'
      /\ ~(result' = [check |-> checks', status |-> "passed"])
  <2>1. CASE result' \in {result, NoResult}
    BY <1>1, <1>2, <2>1 DEF NoResult
  <2>2. CASE result'.check = checks + 1 /\ result'.status \in {"failed", "torn"}
    BY <1>1, <1>2, <2>2
  <2> QED
    BY <1>3, <2>1, <2>2
<1>7. Control'
  <2>1. \A d \in Dirs : At(d, "none")'
    BY <1>1, <1>2 DEF At
  <2>2. llamaStage' = "idle" /\ first' \in Nat
    BY <1>1, <1>2 DEF llamaRunVars
  <2> QED
    BY <1>1, <1>2, <1>3, <1>4, <1>6, <2>1, <2>2 DEF Inv, Control
<1>8. RunPart'
  <2>1. EndsKnown'
    BY <1>1, <1>2, <1>4 DEF EndsKnown
  <2> QED
    BY <1>3, <1>5, <1>6, <2>1 DEF RunPart, Backing, PassedIdle
<1>9. LlamaPart'
  <2>1. LlamaInv'
    <3>1. PICK dropped \in SUBSET {f \in Llama!Outputs : llamaOutputs[f] # Llama!NoOutput} :
            llamaOutputs' = [f \in Llama!Outputs |->
              IF f \in dropped THEN Llama!NoOutput ELSE llamaOutputs[f]]
      BY DEF RemovalStops, PartlyRemoved
    <3>2. trace' \in {trace, Llama!NoEvents} /\ dropped \in SUBSET Llama!Outputs
      BY DEF RemovalStops, PartlyRemoved
    <3> QED
      BY <1>1, <1>2, <3>1, <3>2, LlamaRemoved
  <2> QED
    BY <1>3, <1>6, <2>1 DEF LlamaPart, PassedIdle
<1>10. Answers'
  <2>1. StaleResultExplained'
    <3>1. IF profile' = "llama" THEN llamaChecks' < first' ELSE runs' < first'
      BY <1>1, <1>2 DEF llamaRunVars
    <3> QED
      BY <1>1, <1>3, <3>1 DEF StaleResultExplained
  <2> QED
    BY <1>1, <1>3, <2>1 DEF Answers, AnswerMatchesResult
<1> QED
  BY <1>7, <1>8, <1>9, <1>10 DEF Inv

-----------------------------------------------------------------------------
(* What stays when the runs, or the llama checks, do.                      *)
LEMMA RunsStay ==
  ASSUME CInv, EndsKnown, UNCHANGED runVars
  PROVE  /\ CInv' /\ EndsKnown' /\ Dirs' = Dirs
         /\ \A d \in Dirs : At(d, "none")' = At(d, "none")
         /\ first' = first =>
              \A d \in Dirs : (Sound(d) => Sound(d)') /\ (Backed(d) => Backed(d)')
<1>1. runs' = runs /\ files' = files /\ manifest' = manifest /\ proc' = proc /\ ended' = ended
  BY DEF runVars
<1>2. Shapes' /\ EndsKnown' /\ Dirs' = Dirs
  BY <1>1 DEF CInv, Shapes, EndsKnown, Dirs
<1>3. \A d \in Dirs : Core(d)' /\ (Truthful(d) => Truthful(d)')
  BY <1>1, OtherDirectory DEF CInv, Shapes
<1>4. \A d \in Dirs : FilesInv(d) => FilesInv(d)'
  BY <1>1, OtherFiles
<1>5. first' = first =>
        \A d \in Dirs : (Sound(d) => Sound(d)') /\ (Backed(d) => Backed(d)')
  BY <1>1, <1>3, <1>4 DEF Sound, Backed, At, RequirePassed, Holds
<1> QED
  BY <1>1, <1>2, <1>3, <1>5 DEF CInv, At

LEMMA LlamaStays ==
  ASSUME LlamaInv, UNCHANGED llamaVars
  PROVE  /\ LlamaInv'
         /\ OkIsWhole => OkIsWhole'
         /\ LlamaBacked /\ first' = first => LlamaBacked'
<1>1. /\ UNCHANGED <<llamaChecks, llamaStage, llamaRaised, returncode, registered, present>>
      /\ UNCHANGED <<llamaAnswer, excused, trace, llamaOutputs>>
  BY DEF llamaVars, llamaRunVars
<1>2. CheckoutInv'
  BY <1>1 DEF LlamaInv, CheckoutInv
<1>3. SummaryInv'
  BY <1>1 DEF LlamaInv, AnswerInv, SummaryInv, IsTrace, Own,
              Llama!SummaryIsEarned
<1>4. AnswerInv'
  BY <1>1, <1>3 DEF LlamaInv, AnswerInv, Kept, Whole, Own
<1>5. OkIsWhole => OkIsWhole'
  BY <1>1 DEF OkIsWhole, Kept, Whole, Own
<1>6. LlamaBacked /\ first' = first => LlamaBacked'
  BY <1>1 DEF LlamaBacked
<1> QED
  BY <1>2, <1>4, <1>5, <1>6 DEF LlamaInv

LEMMA StutterStep ==
  ASSUME Inv, UNCHANGED vars
  PROVE  Inv'
<1>1. /\ UNCHANGED runVars /\ UNCHANGED llamaVars
      /\ UNCHANGED <<profile, stage, result, checks, first, answer>>
  BY DEF vars
<1>2. /\ CInv /\ EndsKnown /\ LlamaInv
      /\ llamaStage' = llamaStage /\ llamaChecks' = llamaChecks /\ runs' = runs
  BY <1>1 DEF Inv, RunPart, LlamaPart, runVars, llamaVars, llamaRunVars
<1>3. Control'
  BY <1>1, <1>2, RunsStay DEF Inv, Control
<1>4. RunPart'
  BY <1>1, <1>2, RunsStay, StepsAssumption, OrderFixed DEF Inv, RunPart, Backing, PassedIdle
<1>5. LlamaPart'
  BY <1>1, <1>2, LlamaStays DEF Inv, LlamaPart, PassedIdle
<1>6. Answers'
  BY <1>1, <1>2 DEF Inv, Answers, AnswerMatchesResult, StaleResultExplained
<1> QED
  BY <1>3, <1>4, <1>5, <1>6 DEF Inv

(* A step of an experiment the check waits for.                            *)
LEMMA ExperimentStep ==
  ASSUME Inv, NEW d \in Dirs, StartExperiment(d) \/ Experiment(d)
  PROVE  Inv'
<1>1. /\ stage = d /\ DirStep(d)
      /\ UNCHANGED llamaVars /\ UNCHANGED <<profile, stage, result, checks, first, answer>>
  BY DEF StartExperiment, Experiment, Waiting, DirStep
<1>2. /\ profile = "fast" /\ stage \in {"smoke", "ablation"} /\ CInv /\ EndsKnown /\ LlamaInv
      /\ llamaStage' = llamaStage /\ llamaChecks' = llamaChecks
  BY <1>1, StepsAssumption, CommandOrder
     DEF Inv, Control, RunPart, LlamaPart, llamaVars, llamaRunVars
<1>3. InOrder => \A e \in Dirs : Sound(e)
  BY <1>1, <1>2 DEF Inv, RunPart, Backing
<1>4. CInv' /\ EndsKnown' /\ (InOrder => \A e \in Dirs : Sound(e)') /\ Dirs' = Dirs
  BY <1>1, <1>2, <1>3, StepKeepsCore, EndsStep, SoundStep DEF Dirs
<1>5. Control'
  <2>1. ASSUME NEW e \in Dirs, stage # e PROVE At(e, "none")'
    BY <1>1, <1>2, <2>1, StepOf DEF Inv, Control, At, Frame
  <2> QED
    BY <1>1, <1>2, <1>4, <2>1 DEF Inv, Control
<1>6. RunPart'
  <2>1. InOrder /\ stage = "ablation" => Backed("smoke")'
    BY <1>1, <1>2, BackedApart, StepsAssumption DEF Inv, RunPart, Backing
  <2> QED
    BY <1>1, <1>2, <1>4, <2>1, OrderFixed DEF RunPart, Backing, PassedIdle
<1>7. LlamaPart'
  BY <1>1, <1>2, LlamaStays DEF Inv, LlamaPart, PassedIdle
<1>8. Answers'
  BY <1>1, <1>2 DEF Answers, AnswerMatchesResult, StaleResultExplained
<1> QED
  BY <1>5, <1>6, <1>7, <1>8 DEF Inv

(* A step of a llama check, of the profile's or of one run by hand.        *)
LEMMA LlamaRuns ==
  ASSUME Llama!Progress \/ Llama!Interrupt \/ Llama!Kill
  PROVE  llamaStage # "idle" /\ llamaChecks' = llamaChecks
BY DEF Llama!Progress, Llama!Kill, Llama!Interrupt, Llama!Prepare, Llama!AddWorktree,
       Llama!BuildCommand,
       Llama!NextCommand, Llama!TruncateTrace, Llama!Execute, Llama!SaveOutput, Llama!Judge,
       Llama!RemoveWorktree, Llama!Cleanup, Llama!Outputs, Llama!Same

LEMMA LlamaCheckStep ==
  ASSUME Inv, StartLlama \/ LlamaStep
  PROVE  Inv'
<1>1. /\ UNCHANGED runVars /\ UNCHANGED <<profile, stage, result, checks, first, answer>>
      /\ Llama!StartCheck \/ Llama!Progress \/ Llama!Interrupt \/ Llama!Kill
  BY DEF StartLlama, LlamaStep
<1>2. CInv /\ EndsKnown /\ LlamaInv /\ llamaChecks \in Nat /\ first \in Nat
  BY LlamaNumber DEF Inv, Control, RunPart, LlamaPart
<1>3. LlamaInv' /\ OkIsWhole'
  BY <1>1, <1>2, LlamaNext
<1>4. \/ profile = "none" /\ stage = "idle" /\ result = NoResult
      \/ stage = "llama" /\ profile = "llama" /\ llamaChecks' = first
  <2>1. CASE StartLlama
    <3>1. llamaChecks' = llamaChecks + 1
      BY <2>1 DEF StartLlama, Llama!StartCheck
    <3>2. stage = "llama" => profile = "llama"
      BY CommandOrder DEF Inv, Control
    <3>3. ASSUME stage = "llama", llamaChecks < first PROVE llamaChecks + 1 = first
      BY <1>2, <3>2, <3>3 DEF Inv, LlamaPart
    <3>4. profile = "none" => stage = "idle" /\ result = NoResult
      BY DEF Inv, Control
    <3> QED
      BY <2>1, <3>1, <3>2, <3>3, <3>4 DEF StartLlama
  <2>2. CASE LlamaStep
    <3>1. llamaStage # "idle" /\ llamaChecks' = llamaChecks
      BY <2>2, LlamaRuns DEF LlamaStep
    <3>2. stage = "llama" => profile = "llama"
      BY CommandOrder DEF Inv, Control
    <3>3. profile = "none" => stage = "idle" /\ result = NoResult
      BY DEF Inv, Control
    <3> QED
      BY <3>1, <3>2, <3>3 DEF Inv, Control, LlamaPart
  <2> QED
    BY <2>1, <2>2
<1>5. Control'
  BY <1>1, <1>2, <1>4, RunsStay DEF Inv, Control
<1>6. RunPart'
  BY <1>1, <1>2, <1>4, RunsStay DEF RunPart, Backing, PassedIdle
<1>7. LlamaPart'
  BY <1>1, <1>2, <1>3, <1>4 DEF LlamaPart, PassedIdle
<1>8. Answers'
  BY <1>1, <1>4 DEF Inv, Answers, AnswerMatchesResult, StaleResultExplained, NoResult
<1> QED
  BY <1>5, <1>6, <1>7, <1>8 DEF Inv

(* A check that is killed leaves no result, and its exit code says so.     *)
LEMMA KillCheckStep ==
  ASSUME Inv, KillCheck
  PROVE  Inv'
<1>1. /\ stage # "idle" /\ stage' = "idle" /\ result = NoResult
      /\ answer' = [check |-> checks, code |-> "killed", saved |-> FALSE]
      /\ UNCHANGED <<profile, result, checks, first>>
  BY DEF Inv, Control, KillCheck, Ends
<1>2. CInv /\ EndsKnown /\ LlamaInv
  BY DEF Inv, RunPart, LlamaPart
<1>3. CInv' /\ EndsKnown' /\ Dirs' = Dirs /\ \A d \in Dirs : At(d, "none")'
  <2>1. CASE UNCHANGED runVars /\ \A d \in Dirs : At(d, "none")
    BY <1>2, <2>1, RunsStay
  <2>2. ASSUME NEW d \in Dirs, Kill(d)
        PROVE  CInv' /\ EndsKnown' /\ Dirs' = Dirs /\ \A e \in Dirs : At(e, "none")'
    <3>1. CInv' /\ EndsKnown' /\ Frame(d) /\ Dirs' = Dirs
      BY <1>2, <2>2, StepKeepsCore, StepOf, EndsStep DEF DirStep, Dirs
    <3>2. ~At(d, "none") /\ proc'[d].at = "none"
      BY <1>2, <2>2 DEF Kill, End, Put, CInv, Shapes, NoProc
    <3>3. \A e \in Dirs \ {d} : At(e, "none")
      BY <3>2 DEF Inv, Control
    <3> QED
      BY <3>1, <3>2, <3>3 DEF Frame, At
  <2> QED
    BY <2>1, <2>2 DEF KillCheck
<1>4. LlamaInv' /\ llamaStage' = "idle"
  <2>1. CASE llamaStage # "idle"
    <3>1. Llama!Kill
      BY <2>1 DEF KillCheck
    <3> QED
      BY <1>2, <3>1, LlamaNext DEF Llama!Kill, Llama!Ends
  <2>2. CASE llamaStage = "idle"
    <3>1. UNCHANGED llamaVars
      BY <2>2 DEF KillCheck
    <3> QED
      BY <1>2, <2>2, <3>1, LlamaStays DEF llamaVars, llamaRunVars
  <2> QED
    BY <2>1, <2>2
<1>5. ~PassedIdle'
  BY <1>1 DEF PassedIdle, NoResult
<1>6. Control'
  BY <1>1, <1>3, <1>4 DEF Inv, Control
<1>7. RunPart' /\ LlamaPart'
  BY <1>1, <1>3, <1>4, <1>5 DEF RunPart, Backing, LlamaPart
<1>8. Answers'
  BY <1>1 DEF Answers, AnswerMatchesResult, StaleResultExplained, NoResult
<1> QED
  BY <1>6, <1>7, <1>8 DEF Inv

-----------------------------------------------------------------------------
(***************************************************************************)
(* A decision on a command.                                                *)
(***************************************************************************)
(* What a check knows of its command when it goes on after it.             *)
Passes ==
  /\ stage \in Dirs =>
       At(stage, "none") /\ ended[stage].run >= first /\ Accepts(stage)
  /\ stage = "llama" =>
       llamaStage = "idle" /\ llamaChecks >= first /\ llamaAnswer.code = "ok"

LEMMA DecidesPasses ==
  ASSUME Control, Decides, stage' # "idle" \/ result'.status = "passed"
  PROVE  Passes
<1>1. stage # "idle" /\ result = NoResult
  BY StepsAssumption
     DEF Control, Decides, CheckPrerequisites, RunCommand, CannotStartLlama, JudgeLlama,
         CannotStart, JudgeExperiment, Waiting
<1>2. ~Fail /\ ~Finish(checks, "unavailable", result)
  <2>1. ASSUME NEW status \in {"failed", "unavailable"}, Finish(checks, status, result)
        PROVE  FALSE
    <3>1. stage' = "idle"
      BY <2>1, FinishOutcomes
    <3>2. result' \in {[check |-> checks, status |-> status], result,
                       [check |-> checks, status |-> "torn"]}
      BY <2>1, FinishOutcomes
    <3>3. result'.status # "passed"
      BY <1>1, <3>2 DEF NoResult
    <3> QED
      BY <3>1, <3>3
  <2> QED
    BY <2>1 DEF Fail
<1>3. CASE CheckPrerequisites \/ RunCommand
  BY <1>3, StepsAssumption DEF CheckPrerequisites, RunCommand, Passes
<1>4. CASE JudgeLlama
  BY <1>2, <1>4, StepsAssumption DEF JudgeLlama, Passes
<1>5. ASSUME NEW d \in Dirs, JudgeExperiment(d) PROVE Passes
  BY <1>2, <1>5, StepsAssumption DEF JudgeExperiment, Passes
<1> QED
  BY <1>2, <1>3, <1>4, <1>5 DEF Decides, CannotStartLlama, CannotStart

(* Nothing runs when a check decides.                                      *)
LEMMA DecidesAlone ==
  ASSUME Control, LlamaPart, Decides
  PROVE  llamaStage = "idle" /\ \A d \in Dirs : At(d, "none")
<1>1. stage # "idle" /\ profile # "none"
  BY StepsAssumption
     DEF Control, Decides, CheckPrerequisites, RunCommand, CannotStartLlama, JudgeLlama,
         CannotStart, JudgeExperiment, Waiting
<1>2. CASE stage \in Dirs
  <2>1. At(stage, "none")
    BY <1>2, StepsAssumption
       DEF Decides, CheckPrerequisites, RunCommand, CannotStartLlama, JudgeLlama,
           CannotStart, JudgeExperiment, Waiting
  <2> QED
    BY <1>1, <1>2, <2>1, StepsAssumption DEF Control
<1>3. CASE stage \notin Dirs
  <2>1. \A d \in Dirs : At(d, "none")
    BY <1>3 DEF Control
  <2>2. CASE stage = "llama"
    <3>1. llamaStage = "idle" \/ llamaChecks < first
      BY <2>2, StepsAssumption
         DEF Decides, CheckPrerequisites, RunCommand, CannotStartLlama, JudgeLlama,
             CannotStart, JudgeExperiment, Waiting
    <3> QED
      BY <2>1, <2>2, <3>1, LlamaNumber DEF Control, LlamaPart
  <2> QED
    BY <1>1, <2>1, <2>2 DEF Control
<1> QED
  BY <1>2, <1>3

LEMMA DecidesStep ==
  ASSUME Inv, Decides
  PROVE  Inv'
<1>1. Control /\ RunPart /\ LlamaPart /\ Verdict /\ Same
  BY DecidesVerdict DEF Inv
<1>2. /\ UNCHANGED runVars /\ UNCHANGED llamaVars /\ UNCHANGED <<profile, checks, first>>
      /\ CInv /\ EndsKnown /\ LlamaInv /\ llamaChecks \in Nat /\ first \in Nat
  BY <1>1, LlamaNumber DEF Same, RunPart, LlamaPart, Control
<1>3. llamaStage = "idle" /\ \A d \in Dirs : At(d, "none")
  BY <1>1, DecidesAlone
<1>4. Control'
  BY <1>1, <1>3, ControlVerdict
<1>5. stage # "idle" /\ result = NoResult /\ profile # "none"
      /\ stage \in DOMAIN NextStage[profile] /\ profile \in DOMAIN NextStage
  BY <1>1 DEF Control, Verdict, GoesOn, Finishes
<1>6. PassedIdle' => Passes /\ NextStage[profile][stage] = "passed"
  <2> SUFFICES ASSUME PassedIdle' PROVE Passes /\ NextStage[profile][stage] = "passed"
    OBVIOUS
  <2>1. stage' = "idle" /\ result'.status = "passed"
    BY DEF PassedIdle
  <2>2. ~GoesOn
    BY <1>5, <2>1, CommandOrder DEF GoesOn
  <2>3. PICK status : Finishes(status)
    BY <1>1, <2>2 DEF Verdict
  <2>4. result' \in {[check |-> checks, status |-> status], result,
                     [check |-> checks, status |-> "torn"]}
    BY <2>3, FinishOutcomes DEF Finishes
  <2>5. status = "passed"
    BY <1>5, <2>1, <2>4 DEF NoResult
  <2> QED
    BY <1>1, <2>1, <2>3, <2>5, DecidesPasses DEF Finishes
<1>7. stage' # "idle" => Passes /\ GoesOn
  <2>1. stage' # "idle" => Passes
    BY <1>1, DecidesPasses
  <2>2. \A status : Finishes(status) => stage' = "idle"
    BY FinishOutcomes DEF Finishes
  <2> QED
    BY <1>1, <2>1, <2>2 DEF Verdict
<1>8. ASSUME InOrder, profile = "fast", Passes, stage \in Dirs PROVE Backed(stage)
  BY <1>1, <1>2, <1>5, <1>8, AcceptedIsBacked DEF RunPart, Backing, Passes
<1>9. RunPart'
  <2>1. InOrder /\ profile = "fast" => \A d \in Dirs : Sound(d)'
    BY <1>1, <1>2, <1>5, RunsStay DEF RunPart, Backing
  <2>2. ASSUME InOrder, stage' = "ablation" PROVE Backed("smoke")'
    <3>1. profile = "fast" /\ stage = "smoke" /\ Passes
      BY <1>5, <1>7, <2>2, CommandOrder DEF GoesOn
    <3>2. "smoke" \in Dirs /\ Backed("smoke")
      BY <1>8, <2>2, <3>1, StepsAssumption
    <3> QED
      BY <1>2, <3>2, RunsStay
  <2>3. ASSUME InOrder, profile = "fast", PassedIdle', NEW d \in Dirs PROVE Backed(d)'
    <3>1. stage = "ablation" /\ Passes
      BY <1>5, <1>6, <2>3, CommandOrder
    <3>2. Backed("ablation") /\ Backed("smoke")
      BY <1>1, <1>8, <2>3, <3>1, StepsAssumption DEF RunPart, Backing
    <3> QED
      BY <1>2, <3>2, RunsStay, StepsAssumption
  <2> QED
    BY <1>2, <2>1, <2>2, <2>3, RunsStay, OrderFixed DEF RunPart, Backing
<1>10. LlamaPart'
  <2>1. LlamaInv' /\ llamaStage' = "idle" /\ llamaChecks' = llamaChecks
    BY <1>2, <1>3, LlamaStays DEF llamaVars, llamaRunVars
  <2>2. profile = "llama" => llamaChecks = first \/ llamaChecks + 1 = first
    BY <1>1, <1>5 DEF LlamaPart
  <2>3. stage' # "prerequisites"
    BY <1>5, <1>7, CommandOrder DEF GoesOn
  <2>4. stage' = "llama" => llamaChecks # first
    <3>1. stage' = "llama" => profile = "llama" /\ stage = "prerequisites"
      BY <1>5, <1>7, CommandOrder DEF GoesOn
    <3> QED
      BY <1>1, <1>2, <3>1 DEF LlamaPart
  <2>5. ASSUME profile = "llama", stage' = "pytest" \/ PassedIdle' PROVE LlamaBacked'
    <3>1. stage = "pytest" \/ (stage = "llama" /\ Passes)
      BY <1>5, <1>6, <1>7, <2>5, CommandOrder DEF GoesOn
    <3>2. CASE stage = "llama" /\ Passes
      <4>1. llamaChecks = first /\ llamaAnswer.code = "ok"
        BY <1>2, <2>2, <2>5, <3>2 DEF Passes
      <4> QED
        BY <1>1, <1>2, <1>3, <3>2, <4>1, OkIsBacked, LlamaStays DEF LlamaPart
    <3>3. CASE stage = "pytest"
      BY <1>1, <1>2, <2>5, <3>3, LlamaStays DEF LlamaPart
    <3> QED
      BY <3>1, <3>2, <3>3
  <2> QED
    BY <1>2, <2>1, <2>2, <2>3, <2>4, <2>5 DEF LlamaPart
<1>11. Answers'
  <2>1. CASE stage' # "idle"
    BY <2>1 DEF Answers, AnswerMatchesResult, StaleResultExplained
  <2>2. ASSUME NEW status, Finishes(status) PROVE Answers'
    <3>1. result' \in {[check |-> checks, status |-> status], result,
                       [check |-> checks, status |-> "torn"]}
      BY <2>2, FinishOutcomes DEF Finishes
    <3>2. \/ /\ result' = [check |-> checks, status |-> status]
             /\ answer'.code = status /\ answer'.saved = TRUE
          \/ answer'.code \in {"failed", "killed"} /\ answer'.saved = FALSE
      BY <2>2, FinishOutcomes DEF Finishes
    <3>3. AnswerMatchesResult'
      BY <1>2, <3>2 DEF AnswerMatchesResult
    <3>4. result'.status = "passed" => ~(result'.check < checks')
      BY <1>1, <1>2, <1>5, <3>1 DEF Control, NoResult
    <3> QED
      BY <3>3, <3>4 DEF Answers, StaleResultExplained
  <2> QED
    BY <1>1, <1>5, <2>1, <2>2, CommandOrder DEF Verdict, GoesOn
<1> QED
  BY <1>4, <1>9, <1>10, <1>11 DEF Inv

-----------------------------------------------------------------------------
LEMMA InitInv == Init => Inv
<1> SUFFICES ASSUME Init PROVE Inv
  OBVIOUS
<1>1. RunInit /\ Llama!Init /\ stage = "idle" /\ result = NoResult
      /\ answer = [check |-> 0, code |-> "none", saved |-> FALSE]
  BY DEF Init
<1>2. RunPart
  <2>1. CInv
    BY <1>1, InitIInv DEF IInv, CInv, DirInv
  <2>2. EndsKnown
    BY <1>1 DEF RunInit, EndsKnown
  <2> QED
    BY <1>1, <2>1, <2>2 DEF RunPart, Backing, PassedIdle, NoResult
<1>3. LlamaPart
  <2>1. LlamaInv
    BY <1>1, CheckoutInit, AnswerInit DEF LlamaInv
  <2> QED
    BY <1>1, <2>1 DEF LlamaPart, PassedIdle, NoResult
<1>4. Answers
  BY <1>1 DEF Answers, AnswerMatchesResult, StaleResultExplained, NoResult
<1> QED
  BY <1>2, <1>3, <1>4, ControlInit DEF Inv

LEMMA NextInv == Inv /\ [Next]_vars => Inv'
<1> SUFFICES ASSUME Inv, [Next]_vars PROVE Inv'
  OBVIOUS
<1>1. CASE UNCHANGED vars
  BY <1>1, StutterStep
<1>2. CASE Begin \/ RemovalStops
  BY <1>2, BeginStep, RemovalStopsStep
<1>3. CASE Decides
  BY <1>3, DecidesStep
<1>4. ASSUME NEW d \in Dirs, StartExperiment(d) \/ Experiment(d) PROVE Inv'
  BY <1>4, ExperimentStep
<1>5. CASE StartLlama \/ LlamaStep
  BY <1>5, LlamaCheckStep
<1>6. CASE KillCheck
  BY <1>6, KillCheckStep
<1> QED
  BY <1>1, <1>2, <1>3, <1>4, <1>5, <1>6 DEF Next, Decides

LEMMA ProfileInvariant == Spec => []Inv
BY InitInv, NextInv, PTL DEF Spec

(* Whatever earlier checks left in the directory, whatever failed in this  *)
(* one and whatever was killed, a passed result of the newest check rests  *)
(* on files and manifests of its own runs, though the digests in them are  *)
(* not read again (check.py, require_passed_manifest), provided that the   *)
(* scripts write each file before they record it.                          *)
THEOREM PassedResultBacked ==
  ASSUME InOrder
  PROVE  Spec => []PassedResultIsBacked
<1>1. Inv => PassedResultIsBacked
  BY DEF Inv, RunPart, Backing, LlamaPart, PassedIdle, Backed, LlamaBacked,
         PassedResultIsBacked
<1> QED
  BY <1>1, ProfileInvariant, PTL

(* The scripts of the fast profile do (smoke.py, ablation.py).             *)
THEOREM ExperimentsBacked ==
  ASSUME \A d \in Dirs : Steps[d] \in {SmokeSteps, AblationSteps}
  PROVE  Spec => []PassedResultIsBacked
<1>1. InOrder
  BY SmokeInOrder, AblationInOrder DEF InOrder
<1> QED
  BY <1>1, PassedResultBacked

(* The exit code of a check is the status of the result beside it, or says *)
(* that it could not be saved (check.py, _finish).                         *)
THEOREM AnswerIsInResult == Spec => []AnswerMatchesResult
<1>1. Inv => AnswerMatchesResult
  BY DEF Inv, Answers
<1> QED
  BY <1>1, ProfileInvariant, PTL

(* A passed result of an earlier check survives only a check that was cut  *)
(* short in its removal (check.py, build_profile_commands).                *)
THEOREM StaleResultsExplained == Spec => []StaleResultExplained
<1>1. Inv => StaleResultExplained
  BY DEF Inv, Answers
<1> QED
  BY <1>1, ProfileInvariant, PTL

LEMMA LlamaPromises == Inv => CheckoutLeftClean /\ SummaryIsEarned
<1> SUFFICES ASSUME Inv PROVE CheckoutLeftClean /\ SummaryIsEarned
  OBVIOUS
<1>1. CheckoutInv /\ Llama!SummaryIsEarned
  BY DEF Inv, LlamaPart, LlamaInv, AnswerInv, SummaryInv
<1> QED
  BY <1>1
     DEF CheckoutLeftClean, SummaryIsEarned, Llama!CheckoutLeftClean,
         Llama!SummaryIsEarned, Llama!NoEvents, CheckoutInv,
         Llama!SummaryIsEarned, Llama!NoEvents

(* The checkout is left clean also when a profile runs the llama check and *)
(* is killed with it (llama_check.py, the finally of run_llama_check).     *)
THEOREM ChecksLeaveCheckoutClean == Spec => []CheckoutLeftClean
BY LlamaPromises, ProfileInvariant, PTL

(* A whole summary is earned by its check's own test also when a profile   *)
(* runs the llama check and removes its files (evict_smoke.py).            *)
THEOREM SummariesAreEarned == Spec => []SummaryIsEarned
BY LlamaPromises, ProfileInvariant, PTL
=============================================================================
