----------------------------- MODULE AtomicSetter -----------------------------
(***************************************************************************)
(* The setters of Frame and CameraMetrics, which all have one form: load;  *)
(* return if the value is there already; compare and exchange until it     *)
(* succeeds or another thread is found to have set the value; and, in      *)
(* CameraMetrics, emit a signal.  Frame::setHasBeenProcessed is called by  *)
(* a camera's processor, to lower the flag, and by the detectors, to raise *)
(* it; FramePipeline takes its calls to be atomic.                         *)
(*                                                                         *)
(* The exchange is the weak one, which may fail for no reason.             *)
(***************************************************************************)
EXTENDS Sequences, Naturals

CONSTANTS
    Threads, Values, First,
    MaxTold         \* announcements (bound of the model)

ASSUME SetterAssumption == First \in Values

VARIABLES
    value,          \* the atomic
    call,           \* thread -> where its call is
    newValue,       \* thread -> the argument of its call
    current,        \* thread -> the local variable current
    told            \* signals emitted

setterVars == <<value, call, newValue, current, told>>

SetterInit ==
    /\ value = First
    /\ call = [t \in Threads |-> "idle"]
    /\ newValue = [t \in Threads |-> First]
    /\ current = [t \in Threads |-> First]
    /\ told = <<>>

CallSetter(t, v) ==
    /\ call[t] = "idle" /\ Len(told) < MaxTold
    /\ call' = [call EXCEPT ![t] = "load"]
    /\ newValue' = [newValue EXCEPT ![t] = v]
    /\ UNCHANGED <<value, current, told>>

Load(t) ==
    /\ call[t] = "load"
    /\ current' = [current EXCEPT ![t] = value]
    /\ call' = [call EXCEPT ![t] = IF value = newValue[t] THEN "return" ELSE "exchange"]
    /\ UNCHANGED <<value, newValue, told>>

Exchange(t) ==
    /\ call[t] = "exchange" /\ value = current[t]
    /\ value' = newValue[t]
    /\ call' = [call EXCEPT ![t] = "emit"]
    /\ UNCHANGED <<newValue, current, told>>

\* Slip: the loop goes on without looking at what it has reloaded.
ExchangeFailsBlindly(t) ==
    /\ call[t] = "exchange"
    /\ current' = [current EXCEPT ![t] = value]
    /\ UNCHANGED <<value, call, newValue, told>>

\* Another thread was faster, or a spurious failure: current is loaded again.
ExchangeFails(t) ==
    /\ call[t] = "exchange"
    /\ current' = [current EXCEPT ![t] = value]
    /\ call' = [call EXCEPT ![t] = IF value = newValue[t] THEN "return" ELSE "exchange"]
    /\ UNCHANGED <<value, newValue, told>>

EmitChanged(t) ==
    /\ call[t] = "emit"
    /\ told' = Append(told, newValue[t])
    /\ call' = [call EXCEPT ![t] = "idle"]
    /\ UNCHANGED <<value, newValue, current>>

Return(t) ==
    /\ call[t] = "return"
    /\ call' = [call EXCEPT ![t] = "idle"]
    /\ UNCHANGED <<value, newValue, current, told>>

SetterNext ==
    \E t \in Threads :
        \/ \E v \in Values : CallSetter(t, v)
        \/ Load(t) \/ Exchange(t) \/ ExchangeFails(t) \/ EmitChanged(t) \/ Return(t)

SetterSpec == SetterInit /\ [][SetterNext]_setterVars
------------------------------------------------------------------------------
(* Properties.                                                             *)

SetterTypeOK ==
    /\ value \in Values /\ told \in Seq(Values)
    /\ call \in [Threads -> {"idle", "load", "exchange", "emit", "return"}]
    /\ newValue \in [Threads -> Values] /\ current \in [Threads -> Values]

\* A call is in effect when its exchange has succeeded, or when it has found the value
\* there; it has made a difference in the first case.
PhaseOf(a) ==
    IF a = "idle" THEN "idle"
    ELSE IF a \in {"emit", "return"} THEN "effective" ELSE "begun"

Register == INSTANCE AtomicRegister
    WITH phase <- [t \in Threads |-> PhaseOf(call[t])],
         target <- newValue,
         changed <- [t \in Threads |-> call[t] = "emit"]

\* Whoever else sets the value meanwhile, a call acts as if it were atomic, and a signal
\* is emitted once for every change, by the call that made it.
SetsAtomically == Register!RegisterSpec
=============================================================================
