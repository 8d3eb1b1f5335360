--------------------------- MODULE TenantRegistry ---------------------------
(***************************************************************************)
(* What the management service promises its callers: a set of tenants that *)
(* InitializeTenant and CleanupTenant change one tenant at a time.  A call *)
(* takes effect at one instant between its start and its answer, at most   *)
(* once; a call answered OK has taken effect; a call that failed may have  *)
(* taken effect or not.                                                    *)
(***************************************************************************)
CONSTANTS Tenants, Calls

VARIABLES
    tenants,   \* the registered tenants
    phase,     \* how far each call is
    op         \* what each call asks for

vars == <<tenants, phase, op>>

Ops == [action : {"initialize", "cleanup"}, tenant : Tenants]
NoOp == [action |-> "none"]

Effect(o, S) == IF o.action = "initialize" THEN S \cup {o.tenant} ELSE S \ {o.tenant}

Init ==
    /\ tenants \in SUBSET Tenants
    /\ phase = [c \in Calls |-> "idle"]
    /\ op = [c \in Calls |-> NoOp]

Begin(c) ==
    /\ phase[c] = "idle"
    /\ phase' = [phase EXCEPT ![c] = "open"]
    /\ \E o \in Ops : op' = [op EXCEPT ![c] = o]
    /\ UNCHANGED tenants

Refuse(c) ==
    /\ phase[c] = "idle"
    /\ phase' = [phase EXCEPT ![c] = "failed"]
    /\ UNCHANGED <<tenants, op>>

Apply(c) ==
    /\ phase[c] = "open"
    /\ phase' = [phase EXCEPT ![c] = "applied"]
    /\ tenants' = Effect(op[c], tenants)
    /\ UNCHANGED op

Succeed(c) ==
    /\ phase[c] = "applied"
    /\ phase' = [phase EXCEPT ![c] = "ok"]
    /\ UNCHANGED <<tenants, op>>

\* Calls fail, several at once when the process that serves them stops.
Fail(C) ==
    /\ \A c \in C : phase[c] \in {"open", "applied"}
    /\ phase' = [c \in Calls |-> IF c \in C THEN "failed" ELSE phase[c]]
    /\ UNCHANGED <<tenants, op>>

Finish(c) ==
    /\ phase[c] \in {"ok", "failed"}
    /\ phase' = [phase EXCEPT ![c] = "idle"]
    /\ op' = [op EXCEPT ![c] = NoOp]
    /\ UNCHANGED tenants

Next ==
    \/ \E c \in Calls : Begin(c) \/ Refuse(c) \/ Apply(c) \/ Succeed(c) \/ Finish(c)
    \/ \E C \in SUBSET Calls : Fail(C)

Spec == Init /\ [][Next]_vars
=============================================================================
