------------------------------ MODULE NodeDrain ------------------------------
(****************************************************************************)
(* The drain of one machine, with hooks, errors and options that change.    *)
(*                                                                          *)
(* The planner and the machinedrain controller talk through annotations of  *)
(* the plan secret whose values are the drain options: the planner asks for *)
(* a drain with some options and delivers the plan when drain-done has the  *)
(* same value; once the plan is applied it asks for the uncordon, and the   *)
(* controller then removes everything.  Pre- and post-drain hooks belong to *)
(* others, who answer an annotation by one of their own.                    *)
(*                                                                          *)
(* Rollout has many machines and one set of options without hooks; here is  *)
(* one machine, alone in its tier, of a cluster with others.  All plans     *)
(* differ in their restart stamps.                                          *)
(****************************************************************************)
EXTENDS Naturals

CONSTANTS
  Plans,         \* what the machine may be asked to run
  Options,       \* drain options
  Enabled,       \* those with which pods are evicted
  Hooks,         \* annotations by which hooks answer
  Copied,        \* those of them whose prefix is one that the planner copies
  PreHooks, PostHooks,  \* options -> the hooks in them
  FirstPlan, FirstOptions,
  MaxEdits,      \* bound: how often the specification is edited
  MaxFaults      \* bound: how often something goes wrong

None == "none"
Failed == "failed"       \* an error message
Free == "free"           \* a plan delivered without a drain
Hasty == "hasty"         \* one delivered while the uncordon is under way

ASSUME DrainAssumption ==
  /\ FirstPlan \in Plans /\ FirstOptions \in Options
  /\ Enabled \subseteq Options /\ Copied \subseteq Hooks
  /\ PreHooks \in [Options -> SUBSET Hooks]
  /\ PostHooks \in [Options -> SUBSET Hooks]
  /\ Options \cap {None, Failed, Free, Hasty} = {}
  /\ MaxEdits \in Nat /\ MaxFaults \in Nat

\* drain-options, drain-done, uncordon, pre-drain, post-drain, drain-error
Keys == {"drain", "done", "uncordon", "pre", "post", "error"}

VARIABLES
  asked,     \* the plan and the drain options of the specification
  plan,      \* the plan in the secret
  applied,   \* the plan that has been applied
  ann,       \* key -> the value of the annotation, or None
  answer,    \* hook -> the value of its annotation, or None
  node,      \* "serving", "cordoned" or "drained"
  pc, view,  \* planner: "idle" or "act", and what it has read
  at,        \* controller: "idle" or what it does next
  cached,    \* controller: the annotations it was called with
  deal,      \* history: the options under which plan was delivered
  edits, faults  \* how many there have been

secretVars  == <<plan, applied, ann, answer>>
plannerVars == <<pc, view, deal>>
drainVars   == <<at, cached>>
boundVars   == <<edits, faults>>
vars == <<asked, secretVars, node, plannerVars, drainVars, boundVars>>

NoAnnotations == [k \in Keys |-> None]
Now == [ann |-> ann, answer |-> answer]

Init ==
  /\ asked = [plan |-> FirstPlan, options |-> FirstOptions]
  /\ plan = FirstPlan /\ applied = FirstPlan
  /\ ann = NoAnnotations /\ answer = [h \in Hooks |-> None]
  /\ node = "serving" /\ pc = "idle" /\ view = <<>>
  /\ at = "idle" /\ cached = Now
  /\ deal = Free /\ edits = 0 /\ faults = 0

Fault == faults < MaxFaults /\ faults' = faults + 1

-----------------------------------------------------------------------------
(* The planner: reconcile, drain and undrain.                               *)

Read ==
  /\ pc = "idle" /\ pc' = "act"
  /\ view' = [goal |-> asked.plan, options |-> asked.options, plan |-> plan,
              applied |-> applied, ann |-> ann, answer |-> answer]
  /\ UNCHANGED <<asked, secretVars, node, deal, drainVars, boundVars>>

RoundEnds ==
  /\ pc = "act" /\ pc' = "idle" /\ view' = <<>>
  /\ UNCHANGED <<asked, applied, node, drainVars, edits>>

\* The annotations that were read are laid over those that are there, those
\* of others only if their names begin like the planner's own.
Overlay ==
  [k \in Keys |-> IF view.ann[k] # None THEN view.ann[k] ELSE ann[k]]
AnswersOverlaid ==
  answer' = [h \in Hooks |-> IF h \in Copied /\ view.answer[h] # None
                             THEN view.answer[h] ELSE answer[h]]

InSync == view.plan = view.applied
InDrain == \E k \in {"pre", "post", "drain", "uncordon"} : view.ann[k] # None
Change == view.plan # view.goal
MayDisrupt == InSync \/ InDrain

\* There is something to do for the drain controller.
MustDrain ==
  /\ \/ view.options \in Enabled
     \/ PreHooks[view.options] \cup PostHooks[view.options] # {}
  /\ view.applied # view.goal

RequestDrain ==
  /\ Change /\ MayDisrupt /\ MustDrain /\ view.ann["drain"] # view.options
  /\ RoundEnds /\ ann' = [Overlay EXCEPT !["drain"] = view.options]
  /\ AnswersOverlaid
  /\ UNCHANGED <<plan, deal, faults>>

\* (mutant) A drain with other options will do.
DrainedMutant ==
  view.ann["drain"] = view.options /\ view.ann["error"] = None
  /\ view.ann["done"] # None

Drained ==
  view.ann["drain"] = view.options /\ view.ann["error"] = None
  /\ view.ann["done"] = view.options

Deliver ==
  /\ Change /\ MayDisrupt
  /\ MustDrain => Drained
  /\ RoundEnds /\ plan' = view.goal /\ ann' = Overlay /\ AnswersOverlaid
  /\ deal' = IF view.ann["uncordon"] # None THEN Hasty
             ELSE IF MustDrain THEN view.options ELSE Free
  /\ UNCHANGED faults

\* (mutant) The uncordon does not wait for the plan.
PlanInPlaceMutant == ~Change

PlanInPlace == ~Change /\ InSync

RequestUncordon ==
  /\ PlanInPlace
  /\ view.ann["drain"] \notin {None, view.ann["uncordon"]}
  /\ RoundEnds /\ ann' = [Overlay EXCEPT !["uncordon"] = view.ann["drain"]]
  /\ AnswersOverlaid
  /\ UNCHANGED <<plan, deal, faults>>

\* It waits, or has nothing to do.
Rest ==
  /\ \/ Change /\ ~MayDisrupt
     \/ Change /\ MustDrain /\ view.ann["drain"] = view.options /\ ~Drained
     \/ ~Change /\ ~InSync
     \/ PlanInPlace /\ view.ann["drain"] \in {None, view.ann["uncordon"]}
  /\ RoundEnds /\ UNCHANGED <<plan, ann, answer, deal, faults>>

\* An API call fails or is refused.
Abort == Fault /\ RoundEnds /\ UNCHANGED <<plan, ann, answer, deal>>

PlannerActs ==
  /\ pc = "act"
  /\ RequestDrain \/ Deliver \/ RequestUncordon \/ Rest

-----------------------------------------------------------------------------
(* The machinedrain controller: OnChange.  It decides on the secret it is   *)
(* called with, and writes to the one that is there.                        *)

Answered(hooks, o, answers) == \A h \in hooks : answers[h] = o

Draining(a) == a["drain"] # None /\ a["done"] # a["drain"]
Undraining(a) == ~Draining(a) /\ a["uncordon"] # None

ControllerOnly == UNCHANGED <<asked, plan, applied, plannerVars, edits>>

\* The cache may be behind.
Called ==
  /\ at = "idle"
  /\ \/ cached' = Now /\ UNCHANGED faults
     \/ cached # Now /\ UNCHANGED cached /\ Fault
  /\ \/ Draining(cached'.ann) /\ at' = "cordon"
     \/ Undraining(cached'.ann) /\ at' = "undrain"
     \/ ~Draining(cached'.ann) /\ ~Undraining(cached'.ann)
        /\ cached'.ann["error"] # None /\ at' = "clear"
  /\ UNCHANGED <<ann, answer, node>> /\ ControllerOnly

\* The options that the controller works on.
Given == cached.ann["drain"]

\* cordon, and what drain finds in the annotations of the pre-drain hooks.
Cordon ==
  /\ at = "cordon"
  /\ node' = IF node = "serving" THEN "cordoned" ELSE node
  /\ at' = IF PreHooks[Given] # {} /\ cached.ann["pre"] # Given THEN "ask-pre"
           ELSE IF ~Answered(PreHooks[Given], Given, cached.answer) THEN "clear"
           ELSE IF Given \in Enabled THEN "evict" ELSE "report"
  /\ UNCHANGED <<ann, answer, cached, faults>> /\ ControllerOnly

\* (mutant) Hooks that have been asked are not asked again.
AskPreHooksMutant ==
  /\ at = "ask-pre" /\ at' = "idle"
  /\ ann' = [ann EXCEPT !["pre"] = IF @ = None THEN Given ELSE @]
  /\ UNCHANGED <<answer, node, cached, faults>> /\ ControllerOnly

AskPreHooks ==
  /\ at = "ask-pre" /\ at' = "idle"
  /\ ann' = [ann EXCEPT !["pre"] = Given]
  /\ UNCHANGED <<answer, node, cached, faults>> /\ ControllerOnly

\* performDrain
Evict ==
  /\ at = "evict" /\ at' = "report"
  /\ node' = "drained"
  /\ UNCHANGED <<ann, answer, cached, faults>> /\ ControllerOnly

ReportDrain ==
  /\ at = "report" /\ at' = "idle"
  /\ ann' = IF Answered(PreHooks[Given], Given, answer)
            THEN [ann EXCEPT !["done"] = Given] ELSE ann
  /\ UNCHANGED <<answer, node, cached, faults>> /\ ControllerOnly

\* unDrain
Undrain ==
  /\ at = "undrain"
  /\ at' = IF PostHooks[Given] # {} /\ cached.ann["post"] # Given
           THEN "ask-post"
           ELSE IF ~Answered(PostHooks[Given], Given, cached.answer) THEN "clear"
           ELSE "uncordon"
  /\ UNCHANGED <<ann, answer, node, cached, faults>> /\ ControllerOnly

AskPostHooks ==
  /\ at = "ask-post" /\ at' = "idle"
  /\ ann' = [ann EXCEPT !["post"] = Given]
  /\ UNCHANGED <<answer, node, cached, faults>> /\ ControllerOnly

Uncordon ==
  /\ at = "uncordon" /\ at' = "clean"
  /\ node' = "serving"
  /\ UNCHANGED <<ann, answer, cached, faults>> /\ ControllerOnly

\* (mutant) The request to uncordon is left.
CleanedMutant ==
  [k \in Keys |-> IF k \in {"error", "uncordon"} THEN ann[k] ELSE None]

Cleaned == [NoAnnotations EXCEPT !["error"] = ann["error"]]

CleanAnnotations ==
  /\ at = "clean" /\ at' = "idle"
  /\ IF Answered(PostHooks[Given], Given, answer)
     THEN /\ ann' = Cleaned
          /\ answer' = [h \in Hooks |->
               IF h \in PreHooks[Given] \cup PostHooks[Given] THEN None
               ELSE answer[h]]
     ELSE UNCHANGED <<ann, answer>>
  /\ UNCHANGED <<node, cached, faults>> /\ ControllerOnly

\* A call that has written nothing removes the error of an earlier one, unless
\* the secret has changed since.
ClearError ==
  /\ at = "clear" /\ at' = "idle"
  /\ ann' = IF cached = Now THEN [ann EXCEPT !["error"] = None] ELSE ann
  /\ UNCHANGED <<answer, node, cached, faults>> /\ ControllerOnly

\* The API of the downstream cluster does not answer, or pods cannot be evicted.
DrainFails ==
  /\ at \in {"cordon", "evict", "uncordon"} /\ at' = "idle"
  /\ Fault
  /\ ann' = IF cached = Now THEN [ann EXCEPT !["error"] = Failed] ELSE ann
  /\ UNCHANGED <<answer, node, cached>> /\ ControllerOnly

Drains ==
  \/ Called \/ Cordon \/ AskPreHooks \/ Evict \/ ReportDrain \/ Undrain
  \/ AskPostHooks \/ Uncordon \/ CleanAnnotations \/ ClearError

-----------------------------------------------------------------------------
(* Users, the owners of the hooks and the system-agent.                     *)

Edit ==
  /\ edits < MaxEdits /\ edits' = edits + 1
  /\ asked' \in [plan : Plans, options : Options] \ {asked}
  /\ UNCHANGED <<secretVars, node, plannerVars, drainVars, faults>>

\* The options that a hook is to answer.
Waits(h, o) ==
  \/ o = ann["pre"] /\ o # None /\ h \in PreHooks[o]
  \/ o = ann["post"] /\ o # None /\ h \in PostHooks[o]

Answer(h) ==
  /\ \E o \in Options : Waits(h, o) /\ answer[h] # o
                        /\ answer' = [answer EXCEPT ![h] = o]
  /\ UNCHANGED <<asked, plan, applied, ann, node, plannerVars, drainVars>>
  /\ UNCHANGED boundVars

Apply ==
  /\ applied # plan /\ applied' = plan
  /\ UNCHANGED <<asked, plan, ann, answer, node, plannerVars, drainVars>>
  /\ UNCHANGED boundVars

Next ==
  \/ Read \/ PlannerActs \/ Abort
  \/ Drains \/ DrainFails \/ Apply \/ Edit
  \/ \E h \in Hooks : Answer(h)

Spec == Init /\ [][Next]_vars

\* The controllers are called again until there is nothing to do, the agent
\* polls, and hooks are answered.
Fairness ==
  /\ WF_vars(Read \/ PlannerActs) /\ WF_vars(Drains) /\ WF_vars(Apply)
  /\ \A h \in Hooks : WF_vars(Answer(h))

FairSpec == Spec /\ Fairness

-----------------------------------------------------------------------------
(* Properties.                                                              *)

\* Every variable has its type; and nothing that asks for an uncordon or that
\* answers for a drain is in the secret without the request for the drain,
\* whose options unDrain needs.
TypeOK ==
  /\ asked \in [plan : Plans, options : Options]
  /\ plan \in Plans /\ applied \in Plans
  /\ ann \in [Keys -> Options \cup {None, Failed}]
  /\ answer \in [Hooks -> Options \cup {None}]
  /\ node \in {"serving", "cordoned", "drained"}
  /\ pc \in {"idle", "act"} /\ deal \in Options \cup {Free, Hasty}
  /\ ann["uncordon"] # None => ann["drain"] # None
  /\ edits \in 0..MaxEdits /\ faults \in 0..MaxFaults

\* A plan that was delivered for a drain is applied on a node that is cordoned
\* and, if the options say so, empty; whatever options and plans were asked
\* for since.
DrainedFirst ==
  [][applied' # applied /\ deal \in Options =>
       node # "serving" /\ (deal \in Enabled => node = "drained")]_vars

\* The node goes back into service, and the post-drain hooks are asked, only
\* after the plan has been applied; unless the plan was delivered while the
\* uncordon for the one before was under way.
UpdatedFirst ==
  [][\/ node # "serving" /\ node' = "serving"
     \/ ann'["post"] \notin {None, ann["post"]}
     => plan = applied \/ deal = Hasty]_vars

\* Once the specification is left alone the machine runs the plan that is
\* asked for, in service and out of the drain process.
Finishes ==
  <>[](/\ applied = asked.plan /\ node = "serving"
       /\ \A k \in Keys \ {"done"} : ann[k] = None)

=============================================================================
