---------------------------- MODULE CheckProfile ----------------------------
(***************************************************************************)
(* The verification profiles (src/tools/check.py).                         *)
(*                                                                         *)
(* A check of a profile removes the profile's output directory, checks     *)
(* what the profile needs, runs its commands one after the other, and      *)
(* saves a result.  After each experiment of the fast profile it requires  *)
(* the exit code and the run manifest the experiment left; the llama       *)
(* profile runs the llama check, which is also run by hand.  A check can   *)
(* be killed at any point, and the files of an interrupted check are what  *)
(* the next one starts from.                                               *)
(*                                                                         *)
(* The profiles have directories of their own, so that a behaviour is the  *)
(* checks of one profile, or the llama checks run by hand.  io stands for  *)
(* liburing too, which has the same commands.  One check at a time uses    *)
(* the directory, and a check that is killed takes the process it waits    *)
(* for along (both are in the foreground process group).                   *)
(***************************************************************************)
EXTENDS RunManifest

CONSTANTS MaxChecks,       \* bound: how many checks are started
          MaxLlamaChecks   \* bound: how many llama checks are started

(* The commands of a profile in their order.                               *)
NextStage ==
  [fast |-> [prerequisites |-> "pytest", pytest |-> "smoke", smoke |-> "ablation",
             ablation |-> "passed"],
   llama |-> [prerequisites |-> "llama", llama |-> "pytest", pytest |-> "passed"],
   io |-> [prerequisites |-> "make", make |-> "backend", backend |-> "pytest",
           pytest |-> "passed"]]

ASSUME StepsAssumption == Dirs = {"smoke", "ablation"}

VARIABLES profile,     \* the profile that is checked, or "none"
          stage,       \* "idle", "prerequisites" or the command being run
          result,      \* check_result.json, and the check that wrote it
          checks,      \* how many checks were started
          first,       \* history: the first run or llama check this check can start
          answer,      \* history: how the last check ended
          llamaChecks, llamaStage, llamaRaised, returncode, registered, present,
          trace, llamaOutputs, llamaAnswer, excused   \* of LlamaCheck

Llama == INSTANCE LlamaCheck WITH
  MaxChecks <- MaxLlamaChecks, checks <- llamaChecks, stage <- llamaStage,
  raised <- llamaRaised, outputs <- llamaOutputs, answer <- llamaAnswer

llamaRunVars == <<llamaChecks, llamaStage, llamaRaised, returncode, registered, present,
                  llamaAnswer, excused>>
llamaVars == <<llamaRunVars, trace, llamaOutputs>>

vars == <<runVars, llamaVars, profile, stage, result, checks, first, answer>>

NoResult == [check |-> 0, status |-> "none"]

Init ==
  /\ RunInit
  /\ Llama!Init
  /\ profile \in DOMAIN NextStage \cup {"none"}
  /\ stage = "idle"
  /\ result = NoResult
  /\ checks = 0
  /\ first = 0
  /\ answer = [check |-> 0, code |-> "none", saved |-> FALSE]

(***************************************************************************)
(* _finish: the result is saved over what is there, or saving fails before *)
(* or after the old file was truncated, which turns any status into a      *)
(* failure.  A kill may come before the check has exited.                  *)
(***************************************************************************)
Ends(check, code, saved) ==
  /\ stage' = "idle"
  /\ answer' = [check |-> check, code |-> code, saved |-> saved]

(* Fault: a save that failed does not change the answer.                   *)
FinishIgnoresSaveError(check, status, old) ==
  /\ result' \in {old, [check |-> check, status |-> status]}
  /\ Ends(check, status, TRUE)

Finish(check, status, old) ==
  LET saved == [check |-> check, status |-> status]
      torn == [check |-> check, status |-> "torn"]
  IN \/ result' = saved /\ Ends(check, status, TRUE)
     \/ result' \in {old, torn} /\ Ends(check, "failed", FALSE)
     \/ result' \in {saved, torn} /\ Ends(check, "killed", FALSE)

Fail == Finish(checks, "failed", result)

Succeed ==
  LET next == NextStage[profile][stage]
  IN IF next = "passed" THEN Finish(checks, "passed", result)
     ELSE stage' = next /\ UNCHANGED <<result, answer>>

Same == UNCHANGED <<runVars, llamaVars, profile, checks, first>>

(***************************************************************************)
(* build_profile_commands: rmtree and mkdir.  A removal cut short, by an   *)
(* error or a kill, leaves any part of the tree: its entries go one by one *)
(* in no particular order.                                                 *)
(***************************************************************************)
StartCheck ==
  /\ profile # "none" /\ stage = "idle" /\ checks < MaxChecks
  /\ checks' = checks + 1
  /\ first' = IF profile = "llama" THEN llamaChecks + 1 ELSE runs + 1
  /\ UNCHANGED <<profile, proc, runs, ended, llamaRunVars>>

(* Fault: the result of the check before stays.                            *)
RemovedExperiments ==
  /\ files' = [d \in Dirs |-> [f \in FilesOf(d) |-> NoFile]]
  /\ manifest' = [d \in Dirs |-> NoManifest]
  /\ trace' = Llama!NoEvents
  /\ llamaOutputs' = [f \in Llama!Outputs |-> Llama!NoOutput]
  /\ UNCHANGED result

Removed ==
  /\ files' = [d \in Dirs |-> [f \in FilesOf(d) |-> NoFile]]
  /\ manifest' = [d \in Dirs |-> NoManifest]
  /\ trace' = Llama!NoEvents
  /\ llamaOutputs' = [f \in Llama!Outputs |-> Llama!NoOutput]
  /\ result' = NoResult

Begin ==
  /\ StartCheck
  /\ Removed
  /\ stage' = "prerequisites"
  /\ UNCHANGED answer

PartlyRemoved ==
  \E gone \in SUBSET {e \in Dirs \X UNION {FilesOf(d) : d \in Dirs} :
                      e[2] \in FilesOf(e[1]) /\ files[e[1]][e[2]] # NoFile},
     lost \in SUBSET {d \in Dirs : manifest[d] # NoManifest},
     dropped \in SUBSET {f \in Llama!Outputs : llamaOutputs[f] # Llama!NoOutput} :
    /\ files' = [d \in Dirs |-> [f \in FilesOf(d) |->
                   IF <<d, f>> \in gone THEN NoFile ELSE files[d][f]]]
    /\ manifest' = [d \in Dirs |-> IF d \in lost THEN NoManifest ELSE manifest[d]]
    /\ llamaOutputs' = [f \in Llama!Outputs |->
                          IF f \in dropped THEN Llama!NoOutput ELSE llamaOutputs[f]]
    /\ trace' \in {trace, Llama!NoEvents}

RemovalStops ==
  /\ StartCheck
  /\ PartlyRemoved
  /\ \E old \in {result, NoResult} :
       \/ Finish(checks + 1, "failed", old)
       \/ result' = old /\ Ends(checks + 1, "killed", FALSE)

(* The platform and the tools of a profile, or the repository's contract.  *)
CheckPrerequisites ==
  /\ stage = "prerequisites"
  /\ \/ Succeed
     \/ Fail
     \/ profile # "fast" /\ Finish(checks, "unavailable", result)
  /\ Same

(* Its exit code, the backend it reports, its JUnit report or a skipped    *)
(* test may fail the check.                                                *)
RunCommand ==
  /\ stage \in {"pytest", "make", "backend"}
  /\ Succeed \/ Fail
  /\ Same

Waiting(d) == stage = d /\ ended[d].run < first

StartExperiment(d) ==
  /\ Waiting(d) /\ Launch(d)
  /\ UNCHANGED <<llamaVars, profile, stage, result, checks, first, answer>>

CannotStart(d) ==
  /\ Waiting(d) /\ At(d, "none")
  /\ Fail
  /\ Same

Experiment(d) ==
  /\ Waiting(d) /\ (ProcessStep(d) \/ Kill(d))
  /\ UNCHANGED <<llamaVars, profile, stage, result, checks, first, answer>>

(* require_passed_manifest: it reads the manifest only, not the files.     *)
RequirePassed(d) ==
  /\ manifest[d].status = "passed"
  /\ {"trace", "metrics", "summary"} \subseteq {o.kind : o \in manifest[d].outputs}

(* Fault: the exit code is not looked at.                                  *)
AcceptsManifestOnly(d) == RequirePassed(d)

Accepts(d) == ended[d].code = "ok" /\ RequirePassed(d)

(* Fault: an experiment is judged once its manifest is there, not once it  *)
(* has exited.                                                             *)
JudgeExperimentOnManifest(d) ==
  /\ stage = d /\ At(d, "none") /\ ended[d].run >= first
  /\ manifest[d].run >= first
  /\ IF Accepts(d) THEN Succeed ELSE Fail
  /\ Same

JudgeExperiment(d) ==
  /\ stage = d /\ At(d, "none") /\ ended[d].run >= first
  /\ IF Accepts(d) THEN Succeed ELSE Fail
  /\ Same

(* The llama check, as a command of the profile or started by hand.        *)
StartLlama ==
  /\ profile = "none" \/ (stage = "llama" /\ llamaChecks < first)
  /\ Llama!StartCheck
  /\ UNCHANGED <<runVars, profile, stage, result, checks, first, answer>>

CannotStartLlama ==
  /\ stage = "llama" /\ llamaChecks < first
  /\ Fail
  /\ Same

LlamaStep ==
  /\ Llama!Progress \/ Llama!Interrupt \/ Llama!Kill
  /\ UNCHANGED <<runVars, profile, stage, result, checks, first, answer>>

JudgeLlama ==
  /\ stage = "llama" /\ llamaStage = "idle" /\ llamaChecks >= first
  /\ IF llamaAnswer.code = "ok" THEN Succeed ELSE Fail
  /\ Same

KillCheck ==
  /\ stage # "idle"
  /\ IF \E d \in Dirs : ~At(d, "none") THEN \E d \in Dirs : Kill(d)
     ELSE UNCHANGED runVars
  /\ IF llamaStage # "idle" THEN Llama!Kill ELSE UNCHANGED llamaVars
  /\ Ends(checks, "killed", FALSE)
  /\ UNCHANGED <<profile, result, checks, first>>

Next ==
  \/ Begin
  \/ RemovalStops
  \/ CheckPrerequisites
  \/ RunCommand
  \/ \E d \in Dirs :
       StartExperiment(d) \/ CannotStart(d) \/ Experiment(d) \/ JudgeExperiment(d)
  \/ StartLlama \/ CannotStartLlama \/ LlamaStep \/ JudgeLlama
  \/ KillCheck

Spec == Init /\ [][Next]_vars

(* A check that runs goes on: it is one process, and the commands it waits *)
(* for, without a timeout, are taken to end.  Nothing makes a check start  *)
(* or kills one.                                                           *)
Continue ==
  \/ CheckPrerequisites
  \/ RunCommand
  \/ \E d \in Dirs :
       \/ StartExperiment(d) \/ CannotStart(d) \/ JudgeExperiment(d)
       \/ /\ Waiting(d) /\ ProcessStep(d)
          /\ UNCHANGED <<llamaVars, profile, stage, result, checks, first, answer>>
  \/ profile # "none" /\ StartLlama
  \/ CannotStartLlama
  \/ Llama!Progress /\ UNCHANGED <<runVars, profile, stage, result, checks, first, answer>>
  \/ JudgeLlama

FairSpec == Spec /\ WF_vars(Continue)

(***************************************************************************)
(* Properties.                                                             *)
(***************************************************************************)

(* A passed result of the newest check rests on the files beside it: both  *)
(* experiments were started by this very check and exited with success,    *)
(* and their manifests are passed, complete and true of the files on disk, *)
(* although the check reads no digest again (require_passed_manifest) and  *)
(* earlier checks may have left files of any age; and the llama check's    *)
(* files beside it are of one check, of this profile check, which answered *)
(* ok and wrote all of them.                                               *)
PassedResultIsBacked ==
  stage = "idle" /\ result = [check |-> checks, status |-> "passed"] =>
    /\ profile = "fast" =>
         \A d \in Dirs :
           /\ ended[d].code = "ok" /\ manifest[d].run = ended[d].run
           /\ manifest[d].run >= first
           /\ RequirePassed(d)
           /\ \A o \in manifest[d].outputs : Holds(d, o) /\ o.digest.whole
    /\ profile = "llama" =>
         /\ llamaAnswer = [check |-> first, code |-> "ok"]
         /\ trace.events = {first}
         /\ \A f \in Llama!Outputs : llamaOutputs[f] = [check |-> first, whole |-> TRUE]

(* The exit code is the status of the result beside it, which is this      *)
(* check's, whenever it reports success or that the profile is not         *)
(* available here; a failure is in the result unless that was not saved.   *)
AnswerMatchesResult ==
  stage = "idle" =>
    /\ answer.saved => result = [check |-> checks, status |-> answer.code]
    /\ answer.code \in {"passed", "unavailable"} => answer.saved

(* An old passed result is read as the newest check's only if that check   *)
(* was cut short while it removed its directory, before it ran anything,   *)
(* and then its exit code says so.                                         *)
StaleResultExplained ==
  stage = "idle" /\ result.status = "passed" /\ result.check < checks =>
    /\ answer.check = checks /\ answer.code \in {"failed", "killed"}
    /\ IF profile = "llama" THEN llamaChecks < first ELSE runs < first

(* Every check that is started answers, whatever fails in it and whatever  *)
(* its commands did or could not leave on disk: it is never left waiting   *)
(* for a manifest that was not written.                                    *)
ChecksAnswer == \A n \in 1 .. MaxChecks : checks = n ~> answer.check = n

(* The promises of the llama check hold beside the profile that runs it    *)
(* and removes its files, and is killed with it.                           *)
CheckoutLeftClean == Llama!CheckoutLeftClean
SummaryIsEarned == Llama!SummaryIsEarned
=============================================================================
