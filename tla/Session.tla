------------------------------- MODULE Session -------------------------------
(***************************************************************************)
(* A connection with any client, bounded so that TLC can explore it: the   *)
(* client takes its commands from a finite set and only so many steps.     *)
(***************************************************************************)
EXTENDS Connection

CONSTANTS
  Requests,         \* commands the client issues
  RetryLimits,      \* how many retries it allows a call
  InitialDevice,    \* states of the device when the connection opens
  MaxCalls          \* bound: steps of the client in a behaviour

ASSUME SessionAssumption ==
  /\ Requests \subseteq ClientCommands
  /\ RetryLimits \subseteq Nat
  /\ InitialDevice \subseteq DeviceType
  /\ MaxCalls \in Nat

VARIABLE calls      \* steps of the client so far

vars == << connVars, calls >>

Init == ConnInit /\ dev \in InitialDevice /\ calls = 0

Client ==
  /\ calls < MaxCalls
  /\ calls' = calls + 1
  /\ \/ \E cmd \in Requests, n \in RetryLimits : Call(cmd, n) \/ RebootAndCall(cmd, n)
     \/ Abandon

(* The session is over when the client has issued its last call. *)
Close ==
  /\ call.status # "running"
  /\ calls = MaxCalls
  /\ toDev = << >> /\ dev.mode # "rebooting"
  /\ UNCHANGED vars

Next == Client \/ ((Host \/ Environment) /\ UNCHANGED calls) \/ Close

Spec == Init /\ [][Next]_vars /\ WF_vars(Progress /\ UNCHANGED calls)

(* Every call ends: the retries run out even when nothing answers. *)
CallsEnd == (call.status = "running") ~> (call.status # "running")
==============================================================================
