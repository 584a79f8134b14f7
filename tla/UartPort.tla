------------------------------- MODULE UartPort -------------------------------
(***************************************************************************)
(* What UartBridge::read and UartBridge::write promise to the threads that *)
(* share one UART session (isml_diag/include/diag/core/UartBridge.h): the  *)
(* calls are served one at a time, and an answer of the device reaches the *)
(* call that asked for it.                                                 *)
(***************************************************************************)
CONSTANTS
  Callers,  \* threads that share the session
  Ops,      \* what a call asks for
  None      \* no operation, no value

VARIABLES
  phase,    \* phase[c]: where caller c is
  asked,    \* asked[c]: what its call asks for
  reply     \* reply[c]: what its last call returned

portVars == <<phase, asked, reply>>

NoReply == [kind |-> "None", value |-> None]

PortInit ==
  /\ phase = [c \in Callers |-> "idle"]
  /\ asked = [c \in Callers |-> None]
  /\ reply = [c \in Callers |-> NoReply]

Ask(c) ==
  /\ phase[c] = "idle"
  /\ phase' = [phase EXCEPT ![c] = "asked"]
  /\ \E o \in Ops : asked' = [asked EXCEPT ![c] = o]
  /\ reply' = [reply EXCEPT ![c] = NoReply]

\* A misaligned address is refused at once.
Refuse(c) ==
  /\ phase[c] = "idle"
  /\ reply' = [reply EXCEPT ![c] = [kind |-> "Invalid", value |-> None]]
  /\ UNCHANGED <<phase, asked>>

Serve(c) ==
  /\ phase[c] = "asked"
  /\ \A d \in Callers : phase[d] # "served"
  /\ phase' = [phase EXCEPT ![c] = "served"]
  /\ UNCHANGED <<asked, reply>>

\* The device answered this very call, or the transport gave up.
Answers(c) ==
  [kind : {"Ok", "Firmware"}, value : {asked[c]}]
    \cup [kind : {"Timeout", "Transport"}, value : {None}]

Answer(c) ==
  /\ phase[c] = "served"
  /\ phase' = [phase EXCEPT ![c] = "idle"]
  /\ \E a \in Answers(c) : reply' = [reply EXCEPT ![c] = a]
  /\ UNCHANGED asked

PortNext == \E c \in Callers : Ask(c) \/ Refuse(c) \/ Serve(c) \/ Answer(c)

PortSafety == PortInit /\ [][PortNext]_portVars

\* A call that is being served returns.
PortSpec == PortSafety /\ \A c \in Callers : WF_portVars(Answer(c))
=============================================================================
