------------------------------ MODULE ApiServer ------------------------------
(***************************************************************************)
(* The API process with the contract calls it serves: requests are let in  *)
(* while it listens, by the rate limiter; a drain waits for the handlers   *)
(* that are at work, and an exit ends them.                                *)
(***************************************************************************)
EXTENDS ContractCalls, ServerLifecycle

vars == <<callsVars, serverVars>>

Init == CallsInit /\ ServerInit

Arrive == Admits /\ Requests /\ UNCHANGED serverVars

(* The limiter's store rejects, and with it the request: 500. *)
TurnAway ==
    /\ TurnsAway
    /\ \E s \in Submits :
        submit[s].at = "new" /\ submit' = Answered(s, "500")
    /\ UNCHANGED <<ledgerVars, call, stats, serverVars>>

Serve == server \in {"listening", "draining"} /\ Handlers /\ UNCHANGED serverVars

Outside == (Network /\ UNCHANGED serverVars) \/ (Connection /\ UNCHANGED callsVars)

Stop == Exit(InFlight) /\ CallsLost

Control == (Start \/ SigTerm \/ Restart) /\ UNCHANGED callsVars

Next == Arrive \/ TurnAway \/ Serve \/ Outside \/ Stop \/ Control

(* Every call of a handler comes back unless something fails.  Nothing is  *)
(* assumed of the network, the clients, Redis or the supervisor.           *)
Fairness ==
    /\ \A c \in Calls : WF_vars(PrepareStep(c) /\ UNCHANGED serverVars)
    /\ \A s \in Submits : WF_vars(SubmitStep(s) /\ UNCHANGED serverVars)

Spec == Init /\ [][Next]_vars /\ Fairness

-----------------------------------------------------------------------------
(* Properties.                                                             *)

(* Every variable has its type. *)
TypeOK == CallsTypeOK /\ ServerTypeOK
=============================================================================
