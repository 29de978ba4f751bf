--------------------------- MODULE NodeDrain_proofs ---------------------------
(****************************************************************************)
(* Proofs about NodeDrain, for any plans, options and hooks.                *)
(****************************************************************************)
EXTENDS NodeDrain, TLAPS

-----------------------------------------------------------------------------
(* The inductive invariant.                                                 *)

Values == Options \cup {None}
Annotations == [Keys -> Values \cup {Failed}]

\* Only "error" holds a message, and an uncordon is asked for with the drain.
WellFormed(a) ==
  /\ a \in Annotations
  /\ \A k \in Keys \ {"error"} : a[k] # Failed
  /\ a["error"] \in {None, Failed}
  /\ a["uncordon"] # None => a["drain"] # None

Views == [goal : Plans, options : Options, plan : Plans, applied : Plans,
          ann : Annotations, answer : [Hooks -> Values]]
DrainSteps == {"cordon", "ask-pre", "evict", "report"}
UndrainSteps == {"undrain", "ask-post", "uncordon", "clean"}

Typed ==
  /\ asked \in [plan : Plans, options : Options]
  /\ plan \in Plans /\ applied \in Plans
  /\ WellFormed(ann) /\ answer \in [Hooks -> Values]
  /\ node \in {"serving", "cordoned", "drained"}
  /\ pc \in {"idle", "act"}
  /\ pc = "act" => view \in Views /\ WellFormed(view.ann)
  /\ at \in {"idle", "clear"} \cup DrainSteps \cup UndrainSteps
  /\ cached \in [ann : Annotations, answer : [Hooks -> Values]]
  /\ WellFormed(cached.ann)
  /\ deal \in Options \cup {Free, Hasty}
  /\ edits \in 0..MaxEdits /\ faults \in 0..MaxFaults

\* The node is as a drain with options o leaves it.
DrainedFor(o) == node # "serving" /\ (o \in Enabled => node = "drained")

InPlace == plan = applied \/ deal = Hasty

\* The controller need not ask the post-drain hooks of its options.
PostAsked == PostHooks[Given] = {} \/ cached.ann["post"] = Given

\* What the plan secret tells of the node and of the plan.
SecretTells ==
  /\ ann["uncordon"] # None => InPlace
  /\ ann["post"] # None => ann["uncordon"] # None
  /\ ann["done"] \in Options /\ ann["uncordon"] = None =>
       DrainedFor(ann["done"])
  /\ plan # applied /\ deal \in Options =>
       ~Undraining(cached.ann) /\ DrainedFor(deal)

\* A secret that is so old that the clean-up after an uncordon is not in it can
\* make the controller do no more than that uncordon again.
ControllerKnows ==
  /\ at \in DrainSteps => Draining(cached.ann)
  /\ at = "evict" => node # "serving"
  /\ at = "report" => DrainedFor(Given)
  /\ at \in UndrainSteps => Undraining(cached.ann)
  /\ at = "ask-post" => ~PostAsked
  /\ at \in {"uncordon", "clean"} => PostAsked
  /\ at = "clean" => node = "serving"
  /\ Undraining(cached.ann) /\ ann["uncordon"] = None =>
       ann["done"] = None /\ node = "serving" /\ PostAsked

\* What a round has read of the secret, and still relies on when it writes.
RoundKnows ==
  pc = "act" =>
    /\ view.plan = plan
    /\ view.applied = plan => applied = plan
    /\ view.ann["uncordon"] # None => InPlace
    /\ view.ann["post"] # None => view.ann["uncordon"] # None
    /\ view.ann["uncordon"] = None =>
         /\ ann["uncordon"] = None
         /\ view.ann["done"] \in Options =>
              ~Undraining(cached.ann) /\ DrainedFor(view.ann["done"])

IInv == Typed /\ SecretTells /\ ControllerKnows /\ RoundKnows

-----------------------------------------------------------------------------
(* Helpers.                                                                 *)

LEMMA NoAnnotationsWellFormed == WellFormed(NoAnnotations)
  BY DEF WellFormed, NoAnnotations, Annotations, Values, Keys, None, Failed

\* Whatever the controller works on are drain options.
LEMMA GivenIsOptions ==
  ASSUME Typed, ControllerKnows, at \in DrainSteps \cup UndrainSteps
  PROVE  Given \in Options /\ Given # None
<1>1. cached.ann["drain"] # None
  BY DEF Typed, ControllerKnows, WellFormed, Draining, Undraining
<1>2. cached.ann["drain"] \in Values
  BY DEF Typed, WellFormed, Annotations, Keys
<1>3. QED BY <1>1, <1>2 DEF Given, Values

\* A write to one key keeps the secret well formed.
LEMMA OneKeyWritten ==
  ASSUME NEW a, WellFormed(a), NEW k \in {"done", "pre", "post"},
         NEW o \in Values, o # Failed
  PROVE  WellFormed([a EXCEPT ![k] = o])
  BY DEF WellFormed, Annotations, Values, Keys

\* What a round lays over the secret is well formed, and it brings back the
\* request for an uncordon only if it was read.
LEMMA OverlayKnown ==
  ASSUME IInv, pc = "act"
  PROVE  /\ WellFormed(Overlay)
         /\ \A k \in Keys : Overlay[k] = IF view.ann[k] # None THEN view.ann[k]
                                         ELSE ann[k]
         /\ view.ann["uncordon"] = None =>
              Overlay["uncordon"] = None /\ Overlay["post"] = None
<1> USE DEF IInv
<1>1. view.ann \in Annotations /\ ann \in Annotations
  BY DEF Typed, WellFormed
<1>2. /\ Overlay \in Annotations
      /\ \A k \in Keys : Overlay[k] = IF view.ann[k] # None THEN view.ann[k]
                                      ELSE ann[k]
  BY <1>1 DEF Overlay, Annotations
<1>3. view.ann["uncordon"] = None =>
        Overlay["uncordon"] = None /\ Overlay["post"] = None
  BY <1>2 DEF RoundKnows, SecretTells, Keys
<1>4. WellFormed(Overlay)
  BY <1>2, <1>3 DEF Typed, WellFormed, Keys
<1>5. QED BY <1>2, <1>3, <1>4

-----------------------------------------------------------------------------
(* The invariant holds.                                                     *)

LEMMA IInvInit == Init => IInv
<1> SUFFICES ASSUME Init PROVE IInv
  OBVIOUS
<1> USE DrainAssumption DEF Init
<1>1. WellFormed(ann) /\ ann = NoAnnotations /\ cached = Now
  BY NoAnnotationsWellFormed
<1>2. answer \in [Hooks -> Values]
  BY DEF Values
<1>3. Typed
  <2>1. cached \in [ann : Annotations, answer : [Hooks -> Values]]
    BY <1>1, <1>2 DEF Now, WellFormed
  <2>2. WellFormed(cached.ann)
    BY <1>1 DEF Now
  <2>3. QED BY <1>1, <1>2, <2>1, <2>2 DEF Typed
<1>4. ann["uncordon"] = None /\ ann["post"] = None /\ ann["done"] = None
  BY <1>1 DEF NoAnnotations, Keys
<1>5. SecretTells
  BY <1>4 DEF SecretTells, None
<1>6. ControllerKnows
  BY <1>1, <1>4 DEF ControllerKnows, Undraining, Now, DrainSteps, UndrainSteps
<1>7. RoundKnows
  BY DEF RoundKnows
<1>8. QED BY <1>3, <1>5, <1>6, <1>7 DEF IInv

\* A write of the planner: w is what it makes of the overlay.
LEMMA WriteKeeps ==
  ASSUME IInv, pc = "act", RoundEnds, NEW w, WellFormed(w), ann' = w,
         answer' \in [Hooks -> Values], faults' \in 0..MaxFaults,
         plan' \in Plans, deal' \in Options \cup {Free, Hasty},
         w["uncordon"] # None => InPlace',
         w["post"] # None => w["uncordon"] # None,
         w["uncordon"] = None => /\ w["done"] = Overlay["done"]
                                 /\ view.ann["uncordon"] = None,
         plan' # applied /\ deal' \in Options =>
           ~Undraining(cached.ann) /\ DrainedFor(deal')
  PROVE  IInv'
<1> USE DEF IInv
<1>1. /\ pc' = "idle" /\ asked' = asked /\ applied' = applied
      /\ node' = node /\ at' = at /\ cached' = cached /\ edits' = edits
  BY DEF RoundEnds, drainVars
<1>2. Typed'
  BY <1>1 DEF Typed, WellFormed
<1>3. ann'["uncordon"] = None =>
        /\ view.ann["uncordon"] = None /\ ann["uncordon"] = None
        /\ ann'["done"] = IF view.ann["done"] # None THEN view.ann["done"]
                          ELSE ann["done"]
  BY OverlayKnown DEF RoundKnows, Keys
<1>4. view.ann["done"] \in Values /\ ann["done"] \in Values
  BY DEF Typed, WellFormed, Annotations, Keys
<1>5. SecretTells'
  <2>1. ann'["done"] \in Options /\ ann'["uncordon"] = None =>
          DrainedFor(ann'["done"])
    BY <1>3, <1>4 DEF RoundKnows, SecretTells, Values
  <2>2. QED BY <1>1, <2>1 DEF SecretTells, InPlace, DrainedFor, Undraining, Draining
<1>6. ControllerKnows'
  <2>1. Undraining(cached.ann) /\ ann'["uncordon"] = None => ann'["done"] = None
    BY <1>3, <1>4 DEF RoundKnows, ControllerKnows, Values
  <2>2. QED
    BY <1>1, <1>3, <2>1
       DEF ControllerKnows, DrainedFor, Undraining, Draining, PostAsked, Given
<1>7. RoundKnows'
  BY <1>1 DEF RoundKnows
<1>8. QED BY <1>2, <1>5, <1>6, <1>7

\* Answers that come back are answers.
LEMMA AnswersTyped ==
  ASSUME Typed, pc = "act", AnswersOverlaid
  PROVE  answer' \in [Hooks -> Values]
<1>1. view.answer \in [Hooks -> Values] /\ answer \in [Hooks -> Values]
  BY DEF Typed, Views
<1>2. QED BY <1>1 DEF AnswersOverlaid

\* One step for each thing that a round may do.
LEMMA PlannerKeeps ==
  ASSUME IInv, PlannerActs \/ (pc = "act" /\ Abort)
  PROVE  IInv'
<1> USE DEF IInv
<1> DEFINE o == view.ann
<1>1. pc = "act" /\ RoundEnds /\ view \in Views /\ WellFormed(o)
  BY DEF PlannerActs, RequestDrain, Deliver, RequestUncordon, Rest, Abort, Typed
<1>2. /\ plan \in Plans /\ deal \in Options \cup {Free, Hasty}
      /\ faults \in 0..MaxFaults
  BY DEF Typed
<1>3. /\ view.plan = plan /\ (view.applied = plan => applied = plan)
      /\ o["uncordon"] # None => InPlace
  BY <1>1 DEF RoundKnows
<1>4. /\ WellFormed(Overlay)
      /\ \A k \in Keys : Overlay[k] = IF o[k] # None THEN o[k] ELSE ann[k]
      /\ o["uncordon"] = None => Overlay["uncordon"] = None
                                 /\ Overlay["post"] = None
  BY <1>1, OverlayKnown
<1>5. plan # applied /\ deal \in Options =>
        ~Undraining(cached.ann) /\ DrainedFor(deal)
  BY DEF SecretTells
<1>6. CASE RequestDrain
  <2> DEFINE w == [Overlay EXCEPT !["drain"] = view.options]
  <2>1. view.options \in Options
    BY <1>1 DEF Views
  <2>2. WellFormed(w)
    BY <1>4, <2>1, DrainAssumption DEF WellFormed, Annotations, Values, Keys
  <2>3. \A k \in Keys \ {"drain"} : w[k] = Overlay[k]
    BY <1>4 DEF WellFormed, Annotations
  <2>4. /\ ann' = w /\ plan' = plan /\ deal' = deal /\ faults' = faults
        /\ answer' \in [Hooks -> Values]
    BY <1>1, <1>6, AnswersTyped DEF RequestDrain
  <2>5. applied' = applied
    BY <1>1 DEF RoundEnds
  <2>6. w["uncordon"] # None => o["uncordon"] # None
    BY <1>4, <2>3 DEF Keys
  <2>7. w["post"] # None => w["uncordon"] # None
    BY <1>4, <2>3 DEF Keys
  <2>8. w["uncordon"] = None => w["done"] = Overlay["done"] /\ o["uncordon"] = None
    BY <1>4, <2>3 DEF Keys
  <2> HIDE DEF w
  <2>9. QED
    BY <1>1, <1>2, <1>3, <1>5, <2>2, <2>4, <2>5, <2>6, <2>7, <2>8, WriteKeeps
       DEF InPlace
<1>7. CASE Deliver
  <2>1. view.goal \in Plans /\ view.options \in Options
    BY <1>1 DEF Views
  <2>2. /\ ann' = Overlay /\ plan' = view.goal /\ faults' = faults
        /\ deal' = IF o["uncordon"] # None THEN Hasty
                   ELSE IF MustDrain THEN view.options ELSE Free
        /\ MustDrain => o["done"] = view.options
        /\ answer' \in [Hooks -> Values]
    BY <1>1, <1>7, AnswersTyped DEF Deliver, Drained
  <2>3. deal' \in Options =>
          o["uncordon"] = None /\ o["done"] = deal' /\ o["done"] \in Options
    BY <2>1, <2>2, DrainAssumption
  <2>4. deal' \in Options => ~Undraining(cached.ann) /\ DrainedFor(deal')
    BY <1>1, <2>3 DEF RoundKnows
  <2>5. Overlay["uncordon"] # None => o["uncordon"] # None
    BY <1>4
  <2>6. Overlay["post"] # None => Overlay["uncordon"] # None
    BY <1>4 DEF Keys
  <2>7. Overlay["uncordon"] = None => o["uncordon"] = None
    BY <1>4 DEF Keys
  <2>8. deal' \in Options \cup {Free, Hasty}
    BY <2>1, <2>2
  <2>9. QED
    BY <1>1, <1>2, <1>4, <2>1, <2>2, <2>4, <2>5, <2>6, <2>7, <2>8, WriteKeeps
       DEF InPlace
<1>8. CASE RequestUncordon
  <2> DEFINE w == [Overlay EXCEPT !["uncordon"] = o["drain"]]
  <2>1. plan = applied /\ o["drain"] # None
    BY <1>3, <1>8 DEF RequestUncordon, PlanInPlace, InSync
  <2>2. o["drain"] \in Values /\ o["drain"] # Failed
    BY <1>1 DEF WellFormed, Annotations, Keys
  <2>3. WellFormed(w)
    BY <1>4, <2>1, <2>2 DEF WellFormed, Annotations, Values, Keys
  <2>4. w["uncordon"] # None
    BY <1>4, <2>1 DEF WellFormed, Annotations, Keys
  <2>5. /\ ann' = w /\ plan' = plan /\ deal' = deal /\ faults' = faults
        /\ answer' \in [Hooks -> Values]
    BY <1>1, <1>8, AnswersTyped DEF RequestUncordon
  <2>6. applied' = applied
    BY <1>1 DEF RoundEnds
  <2> HIDE DEF w
  <2>7. QED
    BY <1>1, <1>2, <2>1, <2>3, <2>4, <2>5, <2>6, WriteKeeps DEF InPlace
<1>9. CASE Rest \/ Abort
  <2>1. /\ ann' = ann /\ plan' = plan /\ deal' = deal /\ answer' = answer
        /\ faults' = faults \/ (faults < MaxFaults /\ faults' = faults + 1)
    BY <1>9 DEF Rest, Abort, Fault
  <2>2. /\ pc' = "idle" /\ asked' = asked /\ applied' = applied
        /\ node' = node /\ at' = at /\ cached' = cached /\ edits' = edits
    BY <1>1 DEF RoundEnds, drainVars
  <2>3. faults' \in 0..MaxFaults
    BY <1>2, <2>1, DrainAssumption
  <2>4. Typed' /\ RoundKnows'
    BY <2>1, <2>2, <2>3 DEF Typed, RoundKnows, WellFormed
  <2>5. SecretTells' /\ ControllerKnows'
    BY <2>1, <2>2
       DEF SecretTells, ControllerKnows, InPlace, DrainedFor, Undraining,
           Draining, PostAsked, Given
  <2>6. QED BY <2>4, <2>5
<1>10. QED BY <1>6, <1>7, <1>8, <1>9 DEF PlannerActs

LEMMA ReadKeeps == ASSUME IInv, Read PROVE IInv'
<1> USE DEF IInv
<1>1. /\ pc' = "act" /\ view' \in Views /\ view'.ann = ann
      /\ view'.plan = plan /\ view'.applied = applied
  BY DEF Read, Views, Typed, WellFormed
<1>2. /\ asked' = asked /\ plan' = plan /\ applied' = applied /\ ann' = ann
      /\ answer' = answer /\ node' = node /\ deal' = deal /\ at' = at
      /\ cached' = cached /\ edits' = edits /\ faults' = faults
  BY DEF Read, secretVars, drainVars, boundVars
<1>3. Typed'
  BY <1>1, <1>2 DEF Typed, WellFormed
<1>4. SecretTells' /\ ControllerKnows'
  BY <1>2 DEF SecretTells, ControllerKnows, InPlace, DrainedFor, Undraining,
              Draining, PostAsked, Given
<1>5. ann["done"] \in Options /\ ann["uncordon"] = None => ~Undraining(cached.ann)
  BY DrainAssumption DEF ControllerKnows
<1>6. RoundKnows'
  <2>1. InPlace' <=> InPlace
    BY <1>2 DEF InPlace
  <2>2. Undraining(cached.ann)' <=> Undraining(cached.ann)
    BY <1>2 DEF Undraining, Draining
  <2>3. DrainedFor(ann["done"])' <=> DrainedFor(ann["done"])
    BY <1>2 DEF DrainedFor
  <2>4. QED
    BY <1>1, <1>2, <1>5, <2>1, <2>2, <2>3 DEF RoundKnows, SecretTells, DrainedFor
<1>7. QED BY <1>3, <1>4, <1>6

\* A step of the controller that leaves the cached secret alone, whatever it
\* writes: it puts a node back into service to undrain it only, and reports a
\* drain only when that is done.
LEMMA ControllerWrites ==
  ASSUME IInv, ControllerOnly, cached' = cached, WellFormed(ann'),
         answer' \in [Hooks -> Values], faults' \in 0..MaxFaults,
         node' \in {"serving", "cordoned", "drained"},
         at' \in {"idle", "clear"} \cup DrainSteps \cup UndrainSteps,
         ann'["uncordon"] \in {None, ann["uncordon"]},
         ann'["post"] # None => ann'["uncordon"] # None,
         Undraining(cached.ann) \/ node' = node \/ node' = "drained"
           \/ node = "serving",
         \/ /\ ann'["done"] = ann["done"]
            /\ ann'["uncordon"] = ann["uncordon"]
         \/ /\ node' # "serving"
            /\ ann'["done"] \in Enabled => node' = "drained"
         \/ ann'["done"] = None,
         ControllerKnows'
  PROVE  IInv'
<1> USE DEF IInv
<1>1. /\ asked' = asked /\ plan' = plan /\ applied' = applied /\ pc' = pc
      /\ view' = view /\ deal' = deal /\ edits' = edits
  BY DEF ControllerOnly, plannerVars
<1>2. Undraining(cached'.ann) <=> Undraining(cached.ann)
  OBVIOUS
<1>3. InPlace' <=> InPlace
  BY <1>1 DEF InPlace
<1>4. Typed'
  BY <1>1 DEF Typed, WellFormed
<1>5. None \notin Options
  BY DrainAssumption
<1>6. ASSUME NEW o, DrainedFor(o), ~Undraining(cached.ann)
      PROVE  node' # "serving" /\ (o \in Enabled => node' = "drained")
  BY <1>6 DEF DrainedFor
<1>7. SecretTells'
  <2>1. ann'["done"] \in Options /\ ann'["uncordon"] = None =>
          node' # "serving" /\ (ann'["done"] \in Enabled => node' = "drained")
    <3> SUFFICES ASSUME ann'["done"] \in Options, ann'["uncordon"] = None
                 PROVE  /\ node' # "serving"
                        /\ ann'["done"] \in Enabled => node' = "drained"
      OBVIOUS
    <3>1. CASE ann'["done"] = ann["done"] /\ ann'["uncordon"] = ann["uncordon"]
      <4>1. DrainedFor(ann["done"])
        BY <3>1 DEF SecretTells
      <4>2. ~Undraining(cached.ann)
        BY <1>5, <3>1 DEF ControllerKnows
      <4>3. QED BY <1>6, <3>1, <4>1, <4>2
    <3>2. QED BY <1>5, <3>1
  <2>2. plan # applied /\ deal \in Options =>
          /\ ~Undraining(cached.ann) /\ node' # "serving"
          /\ deal \in Enabled => node' = "drained"
    BY <1>6 DEF SecretTells
  <2>3. ann'["uncordon"] # None => InPlace
    BY DEF SecretTells
  <2>4. QED BY <1>1, <1>2, <1>3, <2>1, <2>2, <2>3 DEF SecretTells, DrainedFor
<1>8. RoundKnows'
  <2>1. pc = "act" /\ view.ann["uncordon"] = None
          /\ view.ann["done"] \in Options =>
          /\ ~Undraining(cached.ann) /\ node' # "serving"
          /\ view.ann["done"] \in Enabled => node' = "drained"
    BY <1>6 DEF RoundKnows
  <2>2. QED BY <1>1, <1>2, <1>3, <2>1 DEF RoundKnows, DrainedFor
<1>9. QED BY <1>4, <1>7, <1>8

\* The controller is called with the secret as it is, or with one that it had
\* before.
LEMMA CalledKeeps == ASSUME IInv, Called PROVE IInv'
<1> USE DEF IInv
<1>1. /\ asked' = asked /\ plan' = plan /\ applied' = applied /\ pc' = pc
      /\ view' = view /\ deal' = deal /\ edits' = edits
      /\ ann' = ann /\ answer' = answer /\ node' = node
  BY DEF Called, ControllerOnly, plannerVars
<1>2. cached' = Now \/ cached' = cached
  BY DEF Called
<1>3. faults' \in 0..MaxFaults
  BY DrainAssumption DEF Called, Fault, Typed
<1>4. /\ cached' \in [ann : Annotations, answer : [Hooks -> Values]]
      /\ WellFormed(cached'.ann)
  BY <1>2 DEF Typed, Now, WellFormed
<1>5. /\ at' \in {"cordon", "undrain", "clear"}
      /\ at' = "cordon" => Draining(cached'.ann)
      /\ at' = "undrain" => Undraining(cached'.ann)
  BY DEF Called
<1>6. Typed'
  BY <1>1, <1>3, <1>4, <1>5 DEF Typed, WellFormed, DrainSteps, UndrainSteps
<1>7. ann["uncordon"] = None => (Undraining(cached'.ann) => cached' = cached)
  BY <1>2 DEF Undraining, Now
<1>8. SecretTells'
  <2>1. plan # applied /\ deal \in Options => ann["uncordon"] = None
    BY DrainAssumption DEF SecretTells, InPlace
  <2>2. plan # applied /\ deal \in Options =>
          ~Undraining(cached'.ann) /\ DrainedFor(deal)
    BY <1>7, <2>1 DEF SecretTells
  <2>3. InPlace' <=> InPlace
    BY <1>1 DEF InPlace
  <2>4. QED BY <1>1, <2>2, <2>3 DEF SecretTells, DrainedFor
<1>9. ControllerKnows'
  BY <1>1, <1>5, <1>7
     DEF ControllerKnows, PostAsked, Given, DrainSteps, UndrainSteps
<1>10. RoundKnows'
  <2>1. pc = "act" /\ view.ann["uncordon"] = None => ann["uncordon"] = None
    BY DEF RoundKnows
  <2>2. InPlace' <=> InPlace
    BY <1>1 DEF InPlace
  <2>3. QED BY <1>1, <1>7, <2>1, <2>2 DEF RoundKnows, DrainedFor
<1>11. QED BY <1>6, <1>8, <1>9, <1>10

\* What the steps of a call have in common.
LEMMA StepOfCall ==
  ASSUME IInv, Drains \/ DrainFails, ~Called
  PROVE  /\ ControllerOnly /\ cached' = cached
         /\ faults' \in 0..MaxFaults /\ at # "idle"
         /\ at \in DrainSteps => Draining(cached.ann)
                                   /\ ~Undraining(cached.ann)
         /\ at \in UndrainSteps => Undraining(cached.ann)
         /\ at \in DrainSteps \cup UndrainSteps =>
              Given \in Options /\ Given # None /\ Given # Failed
         /\ WellFormed(ann) /\ answer \in [Hooks -> Values]
         /\ node \in {"serving", "cordoned", "drained"}
<1> USE DEF IInv
<1>1. ControllerOnly /\ cached' = cached /\ at # "idle"
        /\ (faults' = faults \/ (faults < MaxFaults /\ faults' = faults + 1))
  <2>1. CASE Cordon \/ AskPreHooks \/ Evict \/ ReportDrain
    BY <2>1 DEF Cordon, AskPreHooks, Evict, ReportDrain
  <2>2. CASE Undrain \/ AskPostHooks \/ Uncordon \/ CleanAnnotations
    BY <2>2 DEF Undrain, AskPostHooks, Uncordon, CleanAnnotations
  <2>3. CASE ClearError \/ DrainFails
    BY <2>3 DEF ClearError, DrainFails, Fault
  <2>4. QED BY <2>1, <2>2, <2>3 DEF Drains
<1>2. faults' \in 0..MaxFaults
  BY <1>1, DrainAssumption DEF Typed
<1>3. Draining(cached.ann) => ~Undraining(cached.ann)
  BY DEF Undraining
<1>4. at \in DrainSteps \cup UndrainSteps =>
        Given \in Options /\ Given # None /\ Given # Failed
  BY GivenIsOptions, DrainAssumption
<1>5. QED BY <1>1, <1>2, <1>3, <1>4 DEF ControllerKnows, Typed

LEMMA DrainKeeps ==
  ASSUME IInv, Cordon \/ AskPreHooks \/ Evict \/ ReportDrain
  PROVE  IInv'
<1> USE DEF IInv
<1>1. /\ at \in DrainSteps /\ ~Called /\ Drains
  BY DEF Cordon, AskPreHooks, Evict, ReportDrain, Called, Drains, DrainSteps
<1>2. /\ ControllerOnly /\ cached' = cached /\ faults' \in 0..MaxFaults
      /\ Draining(cached.ann) /\ ~Undraining(cached.ann)
      /\ Given \in Options /\ Given # None /\ Given # Failed
      /\ WellFormed(ann) /\ answer \in [Hooks -> Values]
      /\ node \in {"serving", "cordoned", "drained"}
  BY <1>1, StepOfCall
<1>3. CASE Cordon
  <2>1. /\ ann' = ann /\ answer' = answer
        /\ node' \in {"cordoned", "drained"}
        /\ node' = node \/ node = "serving"
        /\ at' \in {"clear"} \cup DrainSteps
        /\ at' = "report" => Given \notin Enabled
    BY <1>2, <1>3 DEF Cordon, DrainSteps
  <2>2. ControllerKnows'
    BY <1>2, <2>1
       DEF ControllerKnows, DrainedFor, Draining, Undraining, Given, DrainSteps,
           UndrainSteps
  <2>3. ann["post"] # None => ann["uncordon"] # None
    BY DEF SecretTells
  <2>4. QED BY <1>2, <2>1, <2>2, <2>3, ControllerWrites
<1>4. CASE AskPreHooks
  <2>1. /\ ann' = [ann EXCEPT !["pre"] = Given] /\ answer' = answer
        /\ node' = node /\ at' = "idle"
    BY <1>4 DEF AskPreHooks
  <2>2. WellFormed(ann')
    BY <1>2, <2>1, OneKeyWritten DEF Values
  <2>3. \A k \in Keys \ {"pre"} : ann'[k] = ann[k]
    BY <1>2, <2>1 DEF WellFormed, Annotations
  <2>4. ControllerKnows'
    BY <1>2, <2>1
       DEF ControllerKnows, Draining, Undraining, DrainSteps, UndrainSteps
  <2>5. ann["post"] # None => ann["uncordon"] # None
    BY DEF SecretTells
  <2>6. QED BY <1>2, <2>1, <2>2, <2>3, <2>4, <2>5, ControllerWrites DEF Keys
<1>5. CASE Evict
  <2>1. /\ ann' = ann /\ answer' = answer /\ node' = "drained"
        /\ at' = "report"
    BY <1>5 DEF Evict
  <2>2. ControllerKnows'
    BY <1>2, <2>1
       DEF ControllerKnows, DrainedFor, Draining, Undraining, Given, DrainSteps,
           UndrainSteps
  <2>3. ann["post"] # None => ann["uncordon"] # None
    BY DEF SecretTells
  <2>4. QED BY <1>2, <2>1, <2>2, <2>3, ControllerWrites DEF DrainSteps
<1>6. CASE ReportDrain
  <2>1. /\ ann' = [ann EXCEPT !["done"] = Given] \/ ann' = ann
        /\ answer' = answer /\ node' = node /\ at' = "idle"
    BY <1>6 DEF ReportDrain
  <2>2. WellFormed(ann')
    BY <1>2, <2>1, OneKeyWritten DEF Values
  <2>3. /\ \A k \in Keys \ {"done"} : ann'[k] = ann[k]
        /\ ann'["done"] \in {Given, ann["done"]}
    BY <1>2, <2>1 DEF WellFormed, Annotations, Keys
  <2>4. DrainedFor(Given)
    BY <1>6 DEF ReportDrain, ControllerKnows
  <2>5. ControllerKnows'
    BY <1>2, <2>1
       DEF ControllerKnows, Draining, Undraining, DrainSteps, UndrainSteps
  <2>6. ann["post"] # None => ann["uncordon"] # None
    BY DEF SecretTells
  <2>7. QED
    BY <1>2, <2>1, <2>2, <2>3, <2>4, <2>5, <2>6, ControllerWrites
       DEF Keys, DrainedFor
<1>7. QED BY <1>3, <1>4, <1>5, <1>6

LEMMA UndrainKeeps ==
  ASSUME IInv, Undrain \/ AskPostHooks \/ Uncordon \/ CleanAnnotations
  PROVE  IInv'
<1> USE DEF IInv
<1>1. /\ at \in UndrainSteps /\ ~Called /\ Drains
  BY DEF Undrain, AskPostHooks, Uncordon, CleanAnnotations, Called, Drains,
         UndrainSteps
<1>2. /\ ControllerOnly /\ cached' = cached /\ faults' \in 0..MaxFaults
      /\ Undraining(cached.ann)
      /\ Given \in Options /\ Given # None /\ Given # Failed
      /\ WellFormed(ann) /\ answer \in [Hooks -> Values]
      /\ node \in {"serving", "cordoned", "drained"}
  BY <1>1, StepOfCall
<1>3. ann["post"] # None => ann["uncordon"] # None
  BY DEF SecretTells
<1>4. CASE Undrain
  <2>1. /\ ann' = ann /\ answer' = answer /\ node' = node
        /\ at' \in {"ask-post", "clear", "uncordon"}
        /\ at' = "ask-post" => ~PostAsked
        /\ at' = "uncordon" => PostAsked
    BY <1>4 DEF Undrain, PostAsked
  <2>2. ControllerKnows'
    BY <1>2, <2>1
       DEF ControllerKnows, Draining, Undraining, Given, PostAsked, DrainSteps,
           UndrainSteps
  <2>3. QED BY <1>2, <1>3, <2>1, <2>2, ControllerWrites DEF UndrainSteps
<1>5. CASE AskPostHooks
  <2>1. /\ ann' = [ann EXCEPT !["post"] = Given] /\ answer' = answer
        /\ node' = node /\ at' = "idle"
    BY <1>5 DEF AskPostHooks
  <2>2. ann["uncordon"] # None
    BY <1>2, <1>5 DEF AskPostHooks, ControllerKnows
  <2>3. WellFormed(ann')
    BY <1>2, <2>1, OneKeyWritten DEF Values
  <2>4. \A k \in Keys \ {"post"} : ann'[k] = ann[k]
    BY <1>2, <2>1 DEF WellFormed, Annotations
  <2>5. ann'["uncordon"] # None
    BY <2>2, <2>4 DEF Keys
  <2>6. ControllerKnows'
    BY <1>2, <2>1, <2>5
       DEF ControllerKnows, Draining, Undraining, DrainSteps, UndrainSteps
  <2>7. QED BY <1>2, <2>1, <2>3, <2>4, <2>5, <2>6, ControllerWrites DEF Keys
<1>6. CASE Uncordon
  <2>1. /\ ann' = ann /\ answer' = answer /\ node' = "serving"
        /\ at' = "clean"
    BY <1>6 DEF Uncordon
  <2>2. PostAsked
    BY <1>6 DEF Uncordon, ControllerKnows
  <2>3. ControllerKnows'
    BY <1>2, <2>1, <2>2
       DEF ControllerKnows, Draining, Undraining, Given, PostAsked, DrainSteps,
           UndrainSteps
  <2>4. QED BY <1>2, <1>3, <2>1, <2>3, ControllerWrites DEF UndrainSteps
<1>7. CASE CleanAnnotations
  <2>1. /\ node' = node /\ at' = "idle" /\ node = "serving" /\ PostAsked
        /\ \/ ann' = ann /\ answer' = answer
           \/ /\ ann' = Cleaned
              /\ answer' = [h \in Hooks |->
                   IF h \in PreHooks[Given] \cup PostHooks[Given] THEN None
                   ELSE answer[h]]
    BY <1>7 DEF CleanAnnotations, ControllerKnows
  <2>2. answer' \in [Hooks -> Values]
    BY <1>2, <2>1 DEF Values
  <2>3. /\ Cleaned["error"] = ann["error"] /\ Cleaned \in [Keys -> {None, ann["error"]}]
        /\ \A k \in Keys \ {"error"} : Cleaned[k] = None
    BY DEF Cleaned, NoAnnotations, Keys
  <2>4. /\ "error" \in Keys /\ "done" \in Keys /\ "uncordon" \in Keys
        /\ "post" \in Keys
    BY DEF Keys
  <2>5. ann' = Cleaned => ann'["done"] = None /\ ann'["uncordon"] = None
                          /\ ann'["post"] = None
    BY <2>3, <2>4
  <2>6. WellFormed(Cleaned)
    <3>1. ann["error"] \in {None, Failed}
      BY <1>2 DEF WellFormed
    <3>2. Cleaned \in Annotations
      BY <2>3, <3>1 DEF Annotations, Values
    <3>3. Failed # None
      BY DEF Failed, None
    <3>4. QED BY <2>3, <2>4, <3>1, <3>2, <3>3 DEF WellFormed
  <2>7. WellFormed(ann')
    BY <1>2, <2>1, <2>6
  <2>8. ControllerKnows'
    BY <1>2, <2>1, <2>5
       DEF ControllerKnows, Draining, Undraining, Given, PostAsked, DrainSteps,
           UndrainSteps
  <2>9. QED
    BY <1>2, <1>3, <2>1, <2>2, <2>5, <2>7, <2>8, ControllerWrites
       DEF CleanAnnotations
<1>8. QED BY <1>4, <1>5, <1>6, <1>7

\* The end of a call that wrote nothing or failed.
LEMMA ErrorKeeps == ASSUME IInv, ClearError \/ DrainFails PROVE IInv'
<1> USE DEF IInv
<1>1. /\ ~Called /\ (Drains \/ DrainFails)
  BY DEF ClearError, DrainFails, Called, Drains
<1>2. /\ ControllerOnly /\ cached' = cached /\ faults' \in 0..MaxFaults
      /\ WellFormed(ann) /\ answer \in [Hooks -> Values]
      /\ node \in {"serving", "cordoned", "drained"}
  BY <1>1, StepOfCall
<1>3. PICK e \in {None, Failed} :
        ann' = [ann EXCEPT !["error"] = e] \/ ann' = ann
  BY DEF ClearError, DrainFails
<1>4. at' = "idle" /\ answer' = answer /\ node' = node
  BY DEF ClearError, DrainFails
<1>5. /\ \A k \in Keys \ {"error"} : ann'[k] = ann[k]
      /\ WellFormed(ann')
  <2>1. CASE ann' = ann BY <1>2, <2>1
  <2>2. CASE ann' = [ann EXCEPT !["error"] = e]
    <3>1. ann' \in Annotations
      BY <1>2, <2>2 DEF WellFormed, Annotations, Values
    <3>2. /\ \A k \in Keys \ {"error"} : ann'[k] = ann[k]
          /\ ann'["error"] = e
      BY <1>2, <2>2 DEF WellFormed, Annotations, Keys
    <3>3. QED BY <1>2, <3>1, <3>2 DEF WellFormed, Keys
  <2>3. QED BY <1>3, <2>1, <2>2
<1>6. /\ ann'["done"] = ann["done"] /\ ann'["uncordon"] = ann["uncordon"]
      /\ ann'["post"] = ann["post"]
  BY <1>5 DEF Keys
<1>7. ControllerKnows'
  BY <1>2, <1>4, <1>6
     DEF ControllerKnows, Draining, Undraining, Given, PostAsked, DrainSteps,
         UndrainSteps
<1>8. ann["post"] # None => ann["uncordon"] # None
  BY DEF SecretTells
<1>9. QED BY <1>2, <1>4, <1>5, <1>6, <1>7, <1>8, ControllerWrites

LEMMA EnvironmentKeeps ==
  ASSUME IInv, Edit \/ Apply \/ \E h \in Hooks : Answer(h)
  PROVE  IInv'
<1> USE DEF IInv
<1>1. /\ plan' = plan /\ ann' = ann /\ node' = node /\ pc' = pc
      /\ view' = view /\ deal' = deal /\ at' = at /\ cached' = cached
      /\ faults' = faults /\ applied' \in {applied, plan}
  BY DEF Edit, Apply, Answer, secretVars, plannerVars, drainVars, boundVars
<1>2. /\ asked' \in [plan : Plans, options : Options]
      /\ answer' \in [Hooks -> Values] /\ edits' \in 0..MaxEdits
  <2>1. CASE Edit
    BY <2>1, DrainAssumption DEF Edit, secretVars, Typed
  <2>2. CASE Apply
    BY <2>2 DEF Apply, boundVars, Typed
  <2>3. ASSUME NEW h \in Hooks, Answer(h)
        PROVE  /\ asked' = asked /\ edits' = edits
               /\ answer' \in [Hooks -> Values]
    <3>1. PICK o \in Options : answer' = [answer EXCEPT ![h] = o]
      BY <2>3 DEF Answer
    <3>2. asked' = asked /\ edits' = edits
      BY <2>3 DEF Answer, boundVars
    <3>3. QED BY <3>1, <3>2 DEF Typed, Values
  <2>4. QED BY <2>1, <2>2, <2>3 DEF Typed
<1>3. Typed'
  BY <1>1, <1>2 DEF Typed, WellFormed
<1>4. SecretTells' /\ ControllerKnows'
  BY <1>1 DEF SecretTells, ControllerKnows, InPlace, DrainedFor, Undraining,
              Draining, PostAsked, Given
<1>5. RoundKnows'
  BY <1>1 DEF RoundKnows, InPlace, DrainedFor, Undraining, Draining
<1>6. QED BY <1>3, <1>4, <1>5

LEMMA IInvStep == IInv /\ [Next]_vars => IInv'
<1> SUFFICES ASSUME IInv, [Next]_vars PROVE IInv'
  OBVIOUS
<1>1. CASE UNCHANGED vars
  <2>1. /\ asked' = asked /\ plan' = plan /\ applied' = applied /\ ann' = ann
        /\ answer' = answer /\ node' = node /\ pc' = pc /\ view' = view
        /\ deal' = deal /\ at' = at /\ cached' = cached /\ edits' = edits
        /\ faults' = faults
    BY <1>1 DEF vars, secretVars, plannerVars, drainVars, boundVars
  <2>2. QED
    BY <2>1 DEF IInv, Typed, WellFormed, SecretTells, ControllerKnows,
                RoundKnows, InPlace, DrainedFor, Undraining, Draining,
                PostAsked, Given
<1>2. Abort => pc = "act"
  BY DEF Abort, RoundEnds
<1>3. CASE Read BY <1>3, ReadKeeps
<1>4. CASE PlannerActs \/ Abort BY <1>2, <1>4, PlannerKeeps
<1>5. CASE Drains \/ DrainFails
  BY <1>5, CalledKeeps, DrainKeeps, UndrainKeeps, ErrorKeeps DEF Drains
<1>6. CASE Apply \/ Edit \/ \E h \in Hooks : Answer(h)
  BY <1>6, EnvironmentKeeps
<1>7. QED BY <1>1, <1>3, <1>4, <1>5, <1>6 DEF Next

LEMMA Invariance == Spec => []IInv
  BY IInvInit, IInvStep, PTL DEF Spec

-----------------------------------------------------------------------------
(* The properties.                                                          *)

\* Every variable has its type, and an uncordon is asked for together with the
\* drain whose options unDrain needs (TypeOK).
THEOREM TypeCorrect == Spec => []TypeOK
<1>1. IInv => TypeOK
  BY DEF IInv, Typed, WellFormed, TypeOK, Annotations, Values
<1>2. QED BY <1>1, Invariance, PTL

\* A plan that was delivered for a drain is applied on a node that is cordoned
\* and, if the options say so, empty (DrainedFirst): between the report of the
\* drain and the end of the system-agent's work no other call of the drain
\* controller, with no secret that it may still hold, undoes the drain.
THEOREM AppliedOnDrained == Spec => DrainedFirst
<1>1. IInv /\ [Next]_vars =>
        [applied' # applied /\ deal \in Options =>
           node # "serving" /\ (deal \in Enabled => node = "drained")]_vars
  <2> SUFFICES ASSUME IInv, [Next]_vars, applied' # applied, deal \in Options
               PROVE  node # "serving" /\ (deal \in Enabled => node = "drained")
    OBVIOUS
  <2>1. Apply
    <3>1. ~UNCHANGED vars
      BY DEF vars, secretVars
    <3>2. ~Read /\ ~Abort /\ ~PlannerActs /\ ~Edit
      BY DEF Read, Abort, PlannerActs, RequestDrain, Deliver, RequestUncordon,
             Rest, RoundEnds, Edit, secretVars
    <3>3. ~Drains /\ ~DrainFails
      BY DEF Drains, DrainFails, Called, Cordon, AskPreHooks, Evict,
             ReportDrain, Undrain, AskPostHooks, Uncordon, CleanAnnotations,
             ClearError, ControllerOnly
    <3>4. \A h \in Hooks : ~Answer(h)
      BY DEF Answer
    <3>5. QED BY <3>1, <3>2, <3>3, <3>4 DEF Next
  <2>2. QED BY <2>1 DEF Apply, IInv, SecretTells, DrainedFor
<1>2. QED BY <1>1, Invariance, PTL DEF Spec, DrainedFirst

\* The node goes back into service, and the post-drain hooks are asked, only
\* when the plan in the secret is applied or was delivered over an uncordon
\* (UpdatedFirst).  A call that still works on a secret from before the
\* clean-up can only uncordon a node that is in service; a round that lays old
\* annotations over the secret brings a request to the post-drain hooks back
\* only with the request to uncordon.
THEOREM ServingOnUpdated == Spec => UpdatedFirst
<1>1. IInv /\ [Next]_vars =>
        [\/ node # "serving" /\ node' = "serving"
         \/ ann'["post"] \notin {None, ann["post"]}
         => plan = applied \/ deal = Hasty]_vars
  <2> SUFFICES ASSUME IInv, [Next]_vars,
                      \/ node # "serving" /\ node' = "serving"
                      \/ ann'["post"] \notin {None, ann["post"]}
               PROVE  InPlace
    BY DEF InPlace
  <2>1. CASE Uncordon
    <3>1. ann' = ann /\ at = "uncordon" /\ node # "serving"
      BY <2>1 DEF Uncordon
    <3>2. Undraining(cached.ann)
      BY <3>1 DEF IInv, ControllerKnows, UndrainSteps
    <3>3. ann["uncordon"] # None
      BY <3>1, <3>2 DEF IInv, ControllerKnows
    <3>4. QED BY <3>3 DEF IInv, SecretTells
  <2>2. CASE AskPostHooks
    <3>1. Undraining(cached.ann) /\ ~PostAsked
      BY <2>2 DEF AskPostHooks, IInv, ControllerKnows, UndrainSteps
    <3>2. ann["uncordon"] # None
      BY <3>1 DEF IInv, ControllerKnows
    <3>3. QED BY <3>2 DEF IInv, SecretTells
  <2>3. CASE PlannerActs \/ Abort
    <3>1. pc = "act" /\ node' = node
      BY <2>3 DEF PlannerActs, RequestDrain, Deliver, RequestUncordon, Rest,
                  Abort, RoundEnds
    <3>2. Overlay \in Annotations /\ "post" \in Keys
      BY <3>1, OverlayKnown DEF WellFormed, Keys
    <3>3. ann'["post"] \in {Overlay["post"], ann["post"]}
      BY <2>3, <3>2 DEF PlannerActs, RequestDrain, Deliver, RequestUncordon,
                        Rest, Abort, Annotations
    <3>4. view.ann["post"] # None
      BY <3>1, <3>2, <3>3, OverlayKnown
    <3>5. QED BY <3>1, <3>4 DEF IInv, RoundKnows, InPlace
  <2>4. CASE UNCHANGED vars
    BY <2>4 DEF vars, secretVars
  <2>5. CASE Read \/ Edit \/ Apply \/ \E h \in Hooks : Answer(h)
    BY <2>5 DEF Read, Edit, Apply, Answer, secretVars
  <2>6. CASE Called \/ Cordon \/ Evict \/ Undrain
    BY <2>6 DEF Called, Cordon, Evict, Undrain
  <2>7. CASE AskPreHooks \/ ReportDrain \/ ClearError \/ DrainFails
    <3>1. ann \in Annotations
      BY DEF IInv, Typed, WellFormed
    <3>2. node' = node /\ ann'["post"] = ann["post"]
      BY <2>7, <3>1 DEF AskPreHooks, ReportDrain, ClearError, DrainFails,
                        Annotations, Keys
    <3>3. QED BY <3>2
  <2>8. CASE CleanAnnotations
    BY <2>8 DEF CleanAnnotations, Cleaned, NoAnnotations, Keys
  <2>9. QED
    BY <2>1, <2>2, <2>3, <2>4, <2>5, <2>6, <2>7, <2>8 DEF Next, Drains
<1>2. QED BY <1>1, Invariance, PTL DEF Spec, UpdatedFirst

=============================================================================
