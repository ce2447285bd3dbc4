---------------------------- MODULE MCVoiceCalls ----------------------------
(* Small instances of VoiceCalls: A may open two connections (two tabs),   *)
(* A and B are the parties of every DM, C only joins group channels.       *)
EXTENDS VoiceCalls

CONSTANTS A, B, C, a1, a2, b1, c1

OwnerDef == [k \in Conn |-> CASE k = b1 -> B [] k = c1 -> C [] OTHER -> A]
PartyDef == [d \in DM |-> {A, B}]
=============================================================================
