----------------------------- MODULE RunManifest -----------------------------
(***************************************************************************)
(* Runs of the experiments and what they leave in their output directory   *)
(* (src/harness/run_manifest.py and the scripts that use it).              *)
(*                                                                         *)
(* A run enters a RunContext, writes its artifacts, records each of them   *)
(* with its digest (add_output), and on the way out the context writes     *)
(* run_manifest.json with a status.  A directory is reused: what an        *)
(* earlier run left stays until a later one overwrites it.  A write can    *)
(* fail before it touches the file or after it truncated it, and a run can *)
(* be killed between any two steps and in the middle of a write.           *)
(*                                                                         *)
(* The bytes of a file are identified with the run that wrote them, and    *)
(* whether it wrote all of them; a digest is the bytes it was taken of.    *)
(* One process at a time runs in a directory.                              *)
(***************************************************************************)
EXTENDS Naturals, Sequences, Functions

CONSTANTS Steps,     \* output directory -> the steps of the script run there
          MaxRuns    \* bound: how many runs are started in all

Dirs == DOMAIN Steps

VARIABLES files,     \* output directory -> file name -> its bytes
          manifest,  \* output directory -> run_manifest.json, and who wrote it
          proc,      \* output directory -> the process running there
          runs,      \* how many runs were started
          ended      \* history: output directory -> how its last run ended

runVars == <<files, manifest, proc, runs, ended>>

Bytes(run, whole) == [run |-> run, whole |-> whole]
NoFile == Bytes(0, FALSE)
Torn(run) == [run |-> run, status |-> "torn", outputs |-> {}]
NoManifest == [run |-> 0, status |-> "none", outputs |-> {}]
NoProc == [run |-> 0, at |-> "none"]

(***************************************************************************)
(* The steps of a script, in the order of the source.  The ablation writes *)
(* and records two files for each of its methods; two methods stand for    *)
(* the six.                                                                *)
(***************************************************************************)
Write(file) == [do |-> "write", file |-> file]
Add(kind, file) == [do |-> "add", kind |-> kind, file |-> file]
Judge == [do |-> "judge"]

SmokeSteps ==
  <<Write("trace"), Write("metrics"), Write("summary"),
    Add("trace", "trace"), Add("metrics", "metrics"), Add("summary", "summary")>>

MethodSteps(trace, metrics) ==
  <<Write(trace), Write(metrics), Add("trace", trace), Add("metrics", metrics)>>

AblationSteps ==
  MethodSteps("trace1", "metrics1") \o MethodSteps("trace2", "metrics2")
    \o <<Write("summary"), Add("summary", "summary")>>

(* Fault: the summary is recorded before it is written.                    *)
ResidencyStepsHashFirst ==
  <<Write("metrics"), Write("trace"), Add("metrics", "metrics"), Add("trace", "trace"),
    Add("summary", "summary"), Write("summary"), Judge>>

ResidencySteps ==
  <<Write("metrics"), Write("trace"), Write("summary"),
    Add("metrics", "metrics"), Add("trace", "trace"), Add("summary", "summary"), Judge>>

(* The movement executor probes one block size after the other and records *)
(* each probe's file at once; two sizes stand for any number.              *)
ProbeSteps(probe) == <<Write(probe), Add("io-probe", probe)>>

MovementSteps ==
  ProbeSteps("probe1") \o ProbeSteps("probe2")
    \o <<Write("metrics"), Write("trace"), Write("summary"),
         Add("metrics", "metrics"), Add("trace", "trace"), Add("summary", "summary")>>

FilesOf(d) == {s.file : s \in {s \in Range(Steps[d]) : s.do = "write"}}
KindsOf(d) == {s.kind : s \in {s \in Range(Steps[d]) : s.do = "add"}}

(***************************************************************************)
(* A process.  at: where it is; next: the step of the body it takes next;  *)
(* outputs: what add_output recorded; raised: an exception is on its way   *)
(* out; forced: mark_failed was called.                                    *)
(***************************************************************************)
Process(run) ==
  [run |-> run, at |-> "entering", next |-> 1, outputs |-> {}, raised |-> FALSE,
   forced |-> FALSE]

RunInit ==
  /\ files = [d \in Dirs |-> [f \in FilesOf(d) |-> NoFile]]
  /\ manifest = [d \in Dirs |-> NoManifest]
  /\ proc = [d \in Dirs |-> NoProc]
  /\ runs = 0
  /\ ended = [d \in Dirs |-> [run |-> 0, code |-> "none", lost |-> FALSE]]

At(d, place) == proc[d].at = place
Step(d) == Steps[d][proc[d].next]
InBody(d) == At(d, "body") /\ proc[d].next \in DOMAIN Steps[d]

Put(d, p) == proc' = [proc EXCEPT ![d] = p]
Advance(p) == [p EXCEPT !.next = @ + 1]

Raise(p) == [p EXCEPT !.raised = TRUE, !.at = "leaving"]

WriteBytes(d, whole) ==
  files' = [files EXCEPT ![d][Step(d).file] = Bytes(proc[d].run, whole)]

(* The process is gone; lost: it could not write its manifest.             *)
End(d, code, lost) ==
  /\ Put(d, NoProc)
  /\ ended' = [ended EXCEPT ![d] = [run |-> proc[d].run, code |-> code, lost |-> lost]]

Launch(d) ==
  /\ At(d, "none") /\ runs < MaxRuns
  /\ runs' = runs + 1
  /\ Put(d, Process(runs + 1))
  /\ UNCHANGED <<files, manifest, ended>>

(* The directory cannot be made: __enter__ raises before its try block.    *)
NoDirectory(d) ==
  /\ At(d, "entering")
  /\ End(d, "failed", TRUE)
  /\ UNCHANGED <<files, manifest, runs>>

(* Reading the revision, the configuration and the inputs may raise, and   *)
(* then the manifest is written as on the way out of the body.             *)
Enter(d) ==
  /\ At(d, "entering")
  /\ Put(d, [proc[d] EXCEPT !.at = "body"]) \/ Put(d, Raise(proc[d]))
  /\ UNCHANGED <<files, manifest, runs, ended>>

WriteFile(d) ==
  /\ InBody(d) /\ Step(d).do = "write"
  /\ WriteBytes(d, TRUE)
  /\ Put(d, Advance(proc[d]))
  /\ UNCHANGED <<manifest, runs, ended>>

AddOutput(d) ==
  /\ InBody(d) /\ Step(d).do = "add"
  /\ LET record == [kind |-> Step(d).kind, file |-> Step(d).file,
                    digest |-> files[d][Step(d).file]]
     IN Put(d, [Advance(proc[d]) EXCEPT !.outputs = @ \cup {record}])
  /\ UNCHANGED <<files, manifest, runs, ended>>

(* The executor marks the run failed when it counted verification errors.  *)
MarkFailed(d) ==
  /\ InBody(d) /\ Step(d).do = "judge"
  /\ \E errors \in BOOLEAN : Put(d, [Advance(proc[d]) EXCEPT !.forced = errors])
  /\ UNCHANGED <<files, manifest, runs, ended>>

(* A step raises; a write may have truncated its file by then.             *)
StepRaises(d) ==
  /\ InBody(d)
  /\ UNCHANGED files \/ (Step(d).do = "write" /\ WriteBytes(d, FALSE))
  /\ Put(d, Raise(proc[d]))
  /\ UNCHANGED <<manifest, runs, ended>>

LeaveBody(d) ==
  /\ At(d, "body") /\ ~InBody(d)
  /\ Put(d, [proc[d] EXCEPT !.at = "leaving"])
  /\ UNCHANGED <<files, manifest, runs, ended>>

Status(p) == IF p.raised \/ p.forced THEN "failed" ELSE "passed"

(* Fault: the error of writing the manifest is swallowed.                  *)
ExitCodeIgnoresManifest(p, saved) == IF p.raised \/ p.forced THEN "failed" ELSE "ok"

(* What the caller sees: an exception that was raised, one raised because  *)
(* the manifest could not be written, or the failure main returns.         *)
ExitCode(p, saved) == IF p.raised \/ p.forced \/ ~saved THEN "failed" ELSE "ok"

Saved(p) == [run |-> p.run, status |-> Status(p), outputs |-> p.outputs]

Finalize(d) ==
  /\ At(d, "leaving")
  /\ \/ /\ manifest' = [manifest EXCEPT ![d] = Saved(proc[d])]
        /\ Put(d, [proc[d] EXCEPT !.at = "exiting"])
        /\ UNCHANGED ended
     \/ /\ \E m \in {manifest[d], Torn(proc[d].run)} :
             manifest' = [manifest EXCEPT ![d] = m]
        /\ End(d, ExitCode(proc[d], FALSE), TRUE)
  /\ UNCHANGED <<files, runs>>

Exit(d) ==
  /\ At(d, "exiting")
  /\ End(d, ExitCode(proc[d], TRUE), FALSE)
  /\ UNCHANGED <<files, manifest, runs>>

(* A kill, which may come in the middle of a write.                        *)
Kill(d) ==
  /\ ~At(d, "none")
  /\ End(d, "killed", TRUE)
  /\ UNCHANGED files \/ (InBody(d) /\ Step(d).do = "write" /\ WriteBytes(d, FALSE))
  /\ \/ UNCHANGED manifest
     \/ At(d, "leaving") /\ manifest' = [manifest EXCEPT ![d] = Torn(proc[d].run)]
  /\ UNCHANGED runs

ProcessStep(d) ==
  \/ NoDirectory(d) \/ Enter(d) \/ WriteFile(d) \/ AddOutput(d) \/ MarkFailed(d)
  \/ StepRaises(d) \/ LeaveBody(d) \/ Finalize(d) \/ Exit(d)

RunNext == \E d \in Dirs : Launch(d) \/ ProcessStep(d) \/ Kill(d)

RunSpec == RunInit /\ [][RunNext]_runVars

(***************************************************************************)
(* Properties.                                                             *)
(***************************************************************************)

Newest(d) == IF At(d, "none") THEN ended[d].run ELSE proc[d].run

Holds(d, output) == files[d][output.file] = output.digest

(* As long as no later run was started in the directory, a manifest that   *)
(* can be read, passed or failed, describes files of its own run that are  *)
(* whole and still have the digests it gives, and a passed one names every *)
(* kind of output the script has: also when the run was killed on its way  *)
(* out or another step of it failed (add_output, __exit__, _finalize).     *)
ManifestMatchesFiles ==
  \A d \in Dirs :
    manifest[d].status \in {"passed", "failed"} /\ manifest[d].run = Newest(d) =>
      /\ \A o \in manifest[d].outputs :
           Holds(d, o) /\ o.digest = Bytes(manifest[d].run, TRUE)
      /\ manifest[d].status = "passed" =>
           {o.kind : o \in manifest[d].outputs} = KindsOf(d)

(* The exit code and the manifest never disagree: a run that exits with    *)
(* success left a passed manifest of its own, never an earlier run's; one  *)
(* that exits with failure left its own failed manifest unless it could    *)
(* not write one, and in that case no passed manifest of its own.          *)
ExitMatchesManifest ==
  \A d \in Dirs :
    LET own == manifest[d].run = ended[d].run
    IN At(d, "none") =>
         /\ ended[d].code = "ok" => own /\ manifest[d].status = "passed"
         /\ ended[d].code = "failed" =>
              IF ended[d].lost THEN own => manifest[d].status = "torn"
              ELSE own /\ manifest[d].status = "failed"
=============================================================================
