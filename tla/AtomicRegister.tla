---------------------------- MODULE AtomicRegister ----------------------------
(***************************************************************************)
(* A register that threads set and that tells of its changes: a call takes *)
(* effect at one moment between its start and its end, and tells of it if  *)
(* and only if it made a difference.                                       *)
(***************************************************************************)
EXTENDS Sequences

CONSTANTS Threads, Values, First

VARIABLES
    value,
    phase,      \* thread -> of its call: not begun, begun, or in effect
    target,     \* thread -> the value its call sets
    changed,    \* thread -> did its call make a difference?
    told        \* the announcements

registerVars == <<value, phase, target, changed, told>>

RegisterInit ==
    /\ value = First
    /\ phase = [t \in Threads |-> "idle"]
    /\ target = [t \in Threads |-> First]
    /\ changed = [t \in Threads |-> FALSE]
    /\ told = <<>>

Begin(t, v) ==
    /\ phase[t] = "idle"
    /\ phase' = [phase EXCEPT ![t] = "begun"]
    /\ target' = [target EXCEPT ![t] = v]
    /\ UNCHANGED <<value, changed, told>>

TakeEffect(t) ==
    /\ phase[t] = "begun"
    /\ value' = target[t]
    /\ changed' = [changed EXCEPT ![t] = value # target[t]]
    /\ phase' = [phase EXCEPT ![t] = "effective"]
    /\ UNCHANGED <<target, told>>

End(t) ==
    /\ phase[t] = "effective"
    /\ told' = IF changed[t] THEN Append(told, target[t]) ELSE told
    /\ phase' = [phase EXCEPT ![t] = "idle"]
    /\ changed' = [changed EXCEPT ![t] = FALSE]
    /\ UNCHANGED <<value, target>>

RegisterNext ==
    \E t \in Threads : (\E v \in Values : Begin(t, v)) \/ TakeEffect(t) \/ End(t)

RegisterSpec == RegisterInit /\ [][RegisterNext]_registerVars
=============================================================================
