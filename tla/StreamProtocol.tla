---------------------------- MODULE StreamProtocol ----------------------------
(***************************************************************************)
(* What a stream transport promises to its asyncio.Protocol once the       *)
(* connection exists: data_received any number of times, then              *)
(* eof_received at most once, then connection_lost, once and last.  It is  *)
(* the state machine that the protocols of the test suite assert           *)
(* (tests/tcp/__init__.py), from the state CONNECTED on.                   *)
(***************************************************************************)
EXTENDS Naturals

VARIABLES state,    \* of the protocol
          received, \* calls of data_received
          eofs,     \* calls of eof_received
          lost      \* calls of connection_lost

Init == state = "CONNECTED" /\ received = 0 /\ eofs = 0 /\ lost = 0

DataReceived ==
  /\ state = "CONNECTED" /\ received' = received + 1
  /\ UNCHANGED <<state, eofs, lost>>

EofReceived ==
  /\ state = "CONNECTED" /\ state' = "EOF" /\ eofs' = eofs + 1
  /\ UNCHANGED <<received, lost>>

ConnectionLost ==
  /\ state \in {"CONNECTED", "EOF"} /\ state' = "CLOSED" /\ lost' = lost + 1
  /\ UNCHANGED <<received, eofs>>

Next == DataReceived \/ EofReceived \/ ConnectionLost

Spec == Init /\ [][Next]_<<state, received, eofs, lost>>
=============================================================================
