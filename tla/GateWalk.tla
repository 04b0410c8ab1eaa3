------------------------------ MODULE GateWalk ------------------------------
(***************************************************************************)
(* The closed walk both gates run: registered steps judge one subject in   *)
(* order, and every required step must be among them.                      *)
(***************************************************************************)
LOCAL INSTANCE Naturals

Pass == [as |-> "pass", reason |-> "none"]
Hold(reason) == [as |-> "hold", reason |-> reason]
Fault(reason) == [as |-> "fault", reason |-> reason]

FaultIf(refused, reason) == IF refused THEN Fault(reason) ELSE Pass

\* walk: of the verdicts of the steps the first fault decides, else the first
\* hold.  A required step that nothing registered refuses on its own.
Walk(steps, required, verdicts) ==
    LET judged(as) == {k \in DOMAIN verdicts : verdicts[k].as = as}
        first(as) == CHOOSE k \in judged(as) : \A j \in judged(as) : k <= j
    IN  IF ~(required \subseteq {steps[k] : k \in DOMAIN steps})
           THEN Fault("required_unregistered")
        ELSE IF judged("fault") # {} THEN verdicts[first("fault")]
        ELSE IF judged("hold") # {} THEN verdicts[first("hold")]
        ELSE Pass

=============================================================================
