------------------------------- MODULE Request -------------------------------
(****************************************************************************)
(* What an operation asked for by a generation promises: the generation is  *)
(* answered only while it is the one that is asked for, and only after      *)
(* everybody concerned has done the work that it asks for.                  *)
(****************************************************************************)
EXTENDS Naturals

CONSTANTS Scope,         \* who has to do something
          Generations    \* what can be asked for

VARIABLES asked,     \* the generation that is asked for, 0 if none is
          worked,    \* <<member of Scope, generation>> that has been done
          answered   \* the generation of which the status tells it is done

vars == <<asked, worked, answered>>

Init == asked = 0 /\ worked = {} /\ answered = 0

Ask == \E g \in Generations \cup {0} :
         asked' = g /\ UNCHANGED <<worked, answered>>

Work == \E m \in Scope, g \in Generations :
          worked' = worked \cup {<<m, g>>} /\ UNCHANGED <<asked, answered>>

Answer ==
  /\ asked # 0 /\ Scope \X {asked} \subseteq worked
  /\ answered' = asked /\ UNCHANGED <<asked, worked>>

Forget == answered' = 0 /\ UNCHANGED <<asked, worked>>

Next == Ask \/ Work \/ Answer \/ Forget

Spec == Init /\ [][Next]_vars

=============================================================================
