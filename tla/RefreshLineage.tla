---------------------------- MODULE RefreshLineage ----------------------------
(***************************************************************************)
(* What rotation promises about refresh tokens, without requests, locks,   *)
(* caches or failures: every device starts one line of tokens, a token is  *)
(* exchanged for one other token and only once, and whoever presents it is *)
(* told that same token, however often and however many ask.               *)
(***************************************************************************)
CONSTANTS Devices, Tokens, NoDevice, NoToken

VARIABLES
  device,  \* the device a token belongs to, NoDevice before it exists
  heir,    \* the token it was exchanged for, NoToken before that
  told     \* the tokens clients presenting it have been told

lineage == <<device, heir, told>>

Init ==
  /\ device = [t \in Tokens |-> NoDevice]
  /\ heir   = [t \in Tokens |-> NoToken]
  /\ told   = [t \in Tokens |-> {}]

\* A code exchange starts the line of a device that has none.
Start(d, n) ==
  /\ \A t \in Tokens : device[t] # d
  /\ device[n] = NoDevice
  /\ device' = [device EXCEPT ![n] = d]
  /\ UNCHANGED <<heir, told>>

\* The newest token of a line gets its one heir.
Exchange(t, n) ==
  /\ device[t] # NoDevice
  /\ heir[t] = NoToken
  /\ device[n] = NoDevice
  /\ device' = [device EXCEPT ![n] = device[t]]
  /\ heir' = [heir EXCEPT ![t] = n]
  /\ UNCHANGED told

Tell(t) ==
  /\ heir[t] # NoToken
  /\ told' = [told EXCEPT ![t] = @ \cup {heir[t]}]
  /\ UNCHANGED <<device, heir>>

Next ==
  \/ \E d \in Devices, n \in Tokens : Start(d, n)
  \/ \E t, n \in Tokens : Exchange(t, n)
  \/ \E t \in Tokens : Tell(t)

Spec == Init /\ [][Next]_lineage
=============================================================================
