----------------------------- MODULE LlamaCheck -----------------------------
(***************************************************************************)
(* The llama profile's check (tools/llama_check.py) and the eviction smoke *)
(* it ends with (integrations/llama_cpp/evict_smoke.py).  A check adds a   *)
(* git worktree of the pinned revision to the user's checkout, patches and *)
(* builds it, runs the built test with the KV trace switched on, judges    *)
(* the trace, and removes the worktree whatever happened.  The output      *)
(* files keep their names from check to check; any step may fail, any      *)
(* write may be torn, and the check may be interrupted or killed at every  *)
(* point, with the processes it waits for (they share its foreground       *)
(* process group).                                                         *)
(***************************************************************************)
EXTENDS Naturals

CONSTANT MaxChecks   \* bound: how many checks are started

Outputs == {"stdout", "stderr", "harness_trace", "summary"}

VARIABLES
  checks,      \* number of the newest check
  stage,       \* what it does next
  raised,      \* an exception is on its way out
  returncode,  \* of the built test: "zero" or "nonzero"
  registered,  \* checks whose worktree is registered in the checkout
  present,     \* checks whose temporary directory exists
  trace,       \* runtime_kv_trace.jsonl: whose events and evictions it holds
  outputs,     \* output file -> the check that wrote it, and if all of it
  answer,      \* history: how the last check ended
  excused      \* history: checks that were killed or whose removal failed

treeVars == <<registered, present>>
fileVars == <<trace, outputs>>
vars == <<checks, stage, raised, returncode, treeVars, fileVars, answer, excused>>

NoEvents == [events |-> {}, evictions |-> {}, torn |-> FALSE]
NoOutput == [check |-> 0, whole |-> FALSE]

Init ==
  /\ checks = 0 /\ stage = "idle" /\ raised = FALSE /\ returncode = "zero"
  /\ registered = {} /\ present = {}
  /\ trace = NoEvents
  /\ outputs = [f \in Outputs |-> NoOutput]
  /\ answer = [check |-> 0, code |-> "none"]
  /\ excused = {}

Go(next) == stage' = next /\ UNCHANGED raised

Raise(next) == stage' = next /\ raised' = TRUE

Ends(code) == stage' = "idle" /\ raised' = FALSE /\ answer' = [check |-> checks, code |-> code]

Same == UNCHANGED <<checks, answer, excused>>

StartCheck ==
  /\ stage = "idle" /\ checks < MaxChecks
  /\ checks' = checks + 1
  /\ Go("prepare")
  /\ UNCHANGED <<returncode, treeVars, fileVars, answer, excused>>

(* The output directory, probe_llama_cpp, the pinned revision, cmake, the  *)
(* temporary directory: nothing to undo when one of them raises.           *)
Prepare ==
  /\ stage = "prepare"
  /\ \/ Go("add") /\ present' = present \cup {checks} /\ UNCHANGED answer
     \/ Ends("failed") /\ UNCHANGED present
  /\ UNCHANGED <<checks, returncode, registered, fileVars, excused>>

(* git worktree add; when it fails git takes back both the worktree and    *)
(* its registration, or neither.                                           *)
AddWorktree ==
  /\ stage = "add"
  /\ \/ Go("apply") /\ registered' = registered \cup {checks}
     \/ Raise("cleanup") /\ UNCHANGED registered
     \/ Raise("remove") /\ registered' = registered \cup {checks}
  /\ UNCHANGED <<returncode, present, fileVars>> /\ Same

NextCommand == [apply |-> "configure", configure |-> "build", build |-> "truncate"]

(* git apply, cmake, cmake --build.                                        *)
BuildCommand ==
  /\ stage \in DOMAIN NextCommand
  /\ Go(NextCommand[stage]) \/ Raise("remove")
  /\ UNCHANGED <<returncode, treeVars, fileVars>> /\ Same

(***************************************************************************)
(* run_evict_smoke.                                                        *)
(***************************************************************************)
TruncateTrace ==
  /\ stage = "truncate"
  /\ \/ Go("execute") /\ trace' = NoEvents
     \/ Raise("remove") /\ trace' \in {trace, NoEvents}
  /\ UNCHANGED <<returncode, treeVars, outputs>> /\ Same

(* What the built test may append to the trace, evictions or not, all of   *)
(* its last line or not.                                                   *)
Appends ==
  {[events |-> trace.events \cup e, evictions |-> trace.evictions \cup v,
    torn |-> trace.torn \/ t] :
     e \in SUBSET {checks}, v \in SUBSET {checks}, t \in BOOLEAN}

TraceAppended ==
  trace' \in {a \in Appends :
                /\ a.evictions \subseteq a.events
                /\ a.torn => trace.torn \/ checks \in a.events}

(* It exits with a code or cannot be started; a crash, or a write that     *)
(* fails without a word, may tear a line.                                  *)
Execute ==
  /\ stage = "execute"
  /\ \/ TraceAppended /\ Go("stdout") /\ returncode' \in {"zero", "nonzero"}
     \/ Raise("remove") /\ UNCHANGED <<trace, returncode>>
  /\ UNCHANGED <<treeVars, outputs>> /\ Same

WriteOutput(f, whole) == outputs' = [outputs EXCEPT ![f] = [check |-> checks, whole |-> whole]]

NextOutput ==
  [stdout |-> "stderr", stderr |-> "judge", harness_trace |-> "summary", summary |-> "remove"]

SaveOutput ==
  /\ stage \in Outputs
  /\ \/ WriteOutput(stage, TRUE) /\ Go(NextOutput[stage])
     \/ (UNCHANGED outputs \/ WriteOutput(stage, FALSE)) /\ Raise("remove")
  /\ UNCHANGED <<returncode, trace, treeVars>> /\ Same

(* Fault: the return code of the built test is not looked at.              *)
JudgeTraceOnly ==
  /\ stage = "judge"
  /\ IF ~trace.torn /\ trace.evictions # {}
     THEN Go("harness_trace") ELSE Raise("remove")
  /\ UNCHANGED <<returncode, treeVars, fileVars>> /\ Same

(* The return code, the trace's lines, and that an eviction is among them. *)
Judge ==
  /\ stage = "judge"
  /\ IF returncode = "zero" /\ ~trace.torn /\ trace.evictions # {}
     THEN Go("harness_trace") ELSE Raise("remove")
  /\ UNCHANGED <<returncode, treeVars, fileVars>> /\ Same

(***************************************************************************)
(* The finally block and the end of the temporary directory.               *)
(***************************************************************************)
(* Fault: the worktree is removed only if nothing was raised.              *)
RemoveWorktreeAfterSuccess ==
  /\ stage = "remove"
  /\ \/ registered' = (IF raised THEN registered ELSE registered \ {checks})
        /\ UNCHANGED excused
     \/ excused' = excused \cup {checks} /\ UNCHANGED registered
  /\ Go("cleanup")
  /\ UNCHANGED <<checks, returncode, present, fileVars, answer>>

(* git worktree remove --force: the code it exits with is not looked at,   *)
(* but a git that cannot be started raises.                                *)
RemoveWorktree ==
  /\ stage = "remove"
  /\ \/ registered' = registered \ {checks} /\ Go("cleanup") /\ UNCHANGED excused
     \/ /\ Go("cleanup") \/ Raise("cleanup")
        /\ excused' = excused \cup {checks} /\ UNCHANGED registered
  /\ UNCHANGED <<checks, returncode, present, fileVars, answer>>

Cleanup ==
  /\ stage = "cleanup"
  /\ \/ /\ present' = present \ {checks}
        /\ Ends(IF raised THEN "failed" ELSE "ok")
        /\ UNCHANGED excused
     \/ Ends("failed") /\ excused' = excused \cup {checks} /\ UNCHANGED present
  /\ UNCHANGED <<checks, returncode, registered, fileVars>>

(* An interrupt (Ctrl-C) is an exception wherever the check is, and ends   *)
(* the command it waits for.  It cuts a step short, which is one of the    *)
(* failures above, or comes when the step has done its work: the built     *)
(* test has appended to the trace, an output is whole, the judgement is    *)
(* made.  Only one that hits the removal itself leaves the worktree.       *)
Interrupt ==
  /\ \/ /\ stage \in {"execute", "judge"} \cup Outputs
        /\ Raise("remove")
        /\ IF stage = "execute" THEN TraceAppended ELSE UNCHANGED trace
        /\ IF stage \in Outputs THEN WriteOutput(stage, TRUE) ELSE UNCHANGED outputs
        /\ UNCHANGED <<registered, excused>>
     \/ /\ stage = "remove"
        /\ Raise("cleanup")
        /\ registered' \in {registered, registered \ {checks}}
        /\ excused' = excused \cup {checks}
        /\ UNCHANGED fileVars
  /\ UNCHANGED <<checks, returncode, present, answer>>

(* A kill, which may tear the file being written; a git that is killed     *)
(* leaves any part of its work.                                            *)
Kill ==
  /\ stage # "idle"
  /\ Ends("killed")
  /\ excused' = excused \cup {checks}
  /\ outputs' \in {outputs} \cup
       (IF stage \in Outputs
        THEN {[outputs EXCEPT ![stage] = [check |-> checks, whole |-> FALSE]]} ELSE {})
  /\ UNCHANGED trace \/ (stage = "execute" /\ TraceAppended)
  /\ registered' \in
       {registered} \cup (CASE stage = "add" -> {registered \cup {checks}}
                            [] stage = "remove" -> {registered \ {checks}}
                            [] OTHER -> {})
  /\ UNCHANGED <<checks, returncode, present>>

Progress ==
  \/ Prepare \/ AddWorktree \/ BuildCommand
  \/ TruncateTrace \/ Execute \/ SaveOutput \/ Judge
  \/ RemoveWorktree \/ Cleanup

Next == StartCheck \/ Progress \/ Interrupt \/ Kill

Spec == Init /\ [][Next]_vars

-----------------------------------------------------------------------------
(* The user's checkout is left as it was found: when no check runs, every  *)
(* worktree still registered in it, and every temporary directory, is of a *)
(* check that was killed or whose removal failed; a check that fails at    *)
(* any other point takes its worktree back (llama_check.py:116-142).       *)
CheckoutLeftClean ==
  stage = "idle" => (registered \cup present) \subseteq excused

(* What a check leaves can be trusted: a whole summary written by the      *)
(* newest check means that this check's test exited with zero and that the *)
(* trace, unless it was removed since, and the evictions in it are its own *)
(* alone (evict_smoke.py:53-140).                                          *)
SummaryIsEarned ==
  outputs["summary"] = [check |-> checks, whole |-> TRUE] =>
    /\ returncode = "zero"
    /\ trace \in {NoEvents, [events |-> {checks}, evictions |-> {checks}, torn |-> FALSE]}
=============================================================================
