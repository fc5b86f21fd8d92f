------------------------------ MODULE Lifecycle ------------------------------
(***************************************************************************)
(* What the server promises about a verification, without requests, locks  *)
(* or transactions: it is created pending, it is settled at most once, the *)
(* event that reports its settling is logged in that very step, and it is  *)
(* verified only by an SMS that verifies nothing else.                     *)
(***************************************************************************)
EXTENDS Sequences

CONSTANTS Verifications, Sms, None

VARIABLES
    status,     \* of each verification; "none" before it is created
    log,        \* the events of each verification
    proof       \* the SMS that verified it

vars == <<status, log, proof>>

Init ==
    /\ status = [v \in Verifications |-> "none"]
    /\ log = [v \in Verifications |-> <<>>]
    /\ proof = [v \in Verifications |-> None]

Create(v) ==
    /\ status[v] = "none"
    /\ status' = [status EXCEPT ![v] = "pending"]
    /\ UNCHANGED <<log, proof>>

Settle(v, outcome) ==
    /\ status[v] = "pending"
    /\ status' = [status EXCEPT ![v] = outcome]
    /\ log' = [log EXCEPT ![v] = Append(@, outcome)]

Verify(v) ==
    /\ Settle(v, "verified")
    /\ \E m \in Sms : /\ \A w \in Verifications : proof[w] # m
                      /\ proof' = [proof EXCEPT ![v] = m]

Drop(v) ==
    /\ \E outcome \in {"expired", "cancelled"} : Settle(v, outcome)
    /\ UNCHANGED proof

Next == \E v \in Verifications : Create(v) \/ Verify(v) \/ Drop(v)

Spec == Init /\ [][Next]_vars

=============================================================================
