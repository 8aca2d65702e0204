---------------------------- MODULE ContractCalls ----------------------------
(***************************************************************************)
(* Contract calls that clients sign themselves: the server prepares an     *)
(* unsigned transaction (src/lib/txBuilder.ts and the prepare routes of    *)
(* tx.ts, quality.ts and commissions.ts), the client signs it, and POST    *)
(* /tx/submit sends it and polls for its result.  Every await of a handler *)
(* is a step; the network, other software that uses the same account, and  *)
(* time act in between.  The server keeps nothing of a call but the        *)
(* curators' statistics (src/services/curator-stats.ts).                   *)
(***************************************************************************)
EXTENDS Naturals, FiniteSets, Sequences

CONSTANTS
    Calls,        \* bound: the prepare requests
    Wanted,       \* the kinds of call each of them may ask for
    Submits,      \* bound: the POST /tx/submit requests
    Accounts,     \* source accounts
    Unconfigured, \* the kinds of call whose contract id is not configured
    MaxAttempts,  \* maxAttempts
    MaxSequence   \* bound: an account's sequence number stops here

VARIABLES
    sequence,  \* ledger: the sequence number of each account
    network,   \* what the network has of each prepared transaction
    late,      \* the transactions whose time bound has passed
    call,      \* each prepare request and the transaction it answered with
    submit,    \* each submission
    stats      \* attestationCount of each curator

ledgerVars == <<sequence, network, late>>
callsVars == <<sequence, network, late, call, submit, stats>>

-----------------------------------------------------------------------------
(* The checks of each prepare route in their order.  "account" is          *)
(* getAccount, "registered" and "simulate" build and simulate a            *)
(* transaction, "balance" asks Horizon and "upload" IPFS.                  *)

Checks == [
    register_dataset |-> <<"config", "account", "simulate">>,
    issue_license    |-> <<"config", "account", "simulate">>,
    post_commission  |-> <<"balance", "config", "upload", "account", "simulate">>,
    attest_quality   |-> <<"config", "account", "registered", "upload", "simulate">>]

Kinds == DOMAIN Checks

ASSUME CallsAssumption ==
    /\ Wanted \in [Calls -> SUBSET Kinds]
    /\ MaxAttempts \in Nat \ {0}
    /\ MaxSequence \in Nat

NoCall == [at |-> "new", kind |-> "none", account |-> "none", check |-> 0,
           read |-> 0, source |-> 0]

NoSubmit == [at |-> "new", call |-> "none", bump |-> FALSE, sent |-> "none",
             attempt |-> 0, answer |-> "none"]

CallsInit ==
    /\ sequence = [a \in Accounts |-> 0]
    /\ network = [c \in Calls |-> "unknown"]
    /\ late = {}
    /\ call = [c \in Calls |-> NoCall]
    /\ submit = [s \in Submits |-> NoSubmit]
    /\ stats = [a \in Accounts |-> 0]

-----------------------------------------------------------------------------
(* Preparing a call.                                                       *)

AskPrepare(c, kind, a) ==
    /\ call[c].at = "new" /\ kind \in Wanted[c]
    /\ call' = [call EXCEPT ![c] =
            [NoCall EXCEPT !.at = "checking", !.kind = kind, !.account = a, !.check = 1]]
    /\ UNCHANGED <<ledgerVars, submit, stats>>

CheckOf(c) == Checks[call[c].kind][call[c].check]

At(c, check) == call[c].at = "checking" /\ CheckOf(c) = check

(* Balance, contract id and upload: nothing of them is kept. *)
CheckPasses(c) ==
    /\ \E check \in {"balance", "config", "upload"} : At(c, check)
    /\ CheckOf(c) = "config" => call[c].kind \notin Unconfigured
    /\ call' = [call EXCEPT ![c].check = @ + 1]
    /\ UNCHANGED <<ledgerVars, submit, stats>>

(* Refused, or the service behind the check does not answer; the statuses  *)
(* (404, 409, 422, 500, 503) are not told apart.                           *)
CheckFails(c) ==
    /\ call[c].at = "checking"
    /\ CheckOf(c) = "config" => call[c].kind \in Unconfigured
    /\ call' = [call EXCEPT ![c] = [NoCall EXCEPT !.at = "refused"]]
    /\ UNCHANGED <<ledgerVars, submit, stats>>

ReadAccount(c) ==
    /\ At(c, "account")
    /\ LET read == sequence[call[c].account]
       IN  call' = [call EXCEPT ![c].check = @ + 1, ![c].read = read, ![c].source = read]
    /\ UNCHANGED <<ledgerVars, submit, stats>>

(* Faulty variant: the number the account has now is used again. *)
BuildSame(source) == source

(* TransactionBuilder.build() increments the source account it was given   *)
(* and puts the new number into the transaction.                           *)
Build(source) == source + 1

(* is_curator, simulated in a transaction built on the same account object. *)
CheckRegistered(c) ==
    /\ At(c, "registered")
    /\ call' = [call EXCEPT ![c].check = @ + 1, ![c].source = Build(@)]
    /\ UNCHANGED <<ledgerVars, submit, stats>>

RecordAttestation(c) ==
    stats' = [stats EXCEPT ![call[c].account] =
                IF call[c].kind = "attest_quality" THEN @ + 1 ELSE @]

(* The simulation passes: 200 with the assembled transaction.              *)
Prepare(c) ==
    /\ At(c, "simulate")
    /\ call' = [call EXCEPT ![c].at = "prepared", ![c].source = Build(@)]
    /\ RecordAttestation(c)
    /\ UNCHANGED <<ledgerVars, submit>>

PrepareStep(c) ==
    \/ CheckPasses(c) \/ CheckFails(c) \/ ReadAccount(c) \/ CheckRegistered(c) \/ Prepare(c)

-----------------------------------------------------------------------------
(* Submitting a signed transaction: any number of times, as it is or in a  *)
(* fee bump that the server builds.                                        *)

PostSubmit(s, c, bump) ==
    /\ submit[s].at = "new" /\ call[c].at = "prepared"
    /\ submit' = [submit EXCEPT ![s] =
            [NoSubmit EXCEPT !.at = "send", !.call = c, !.bump = bump]]
    /\ UNCHANGED <<ledgerVars, call, stats>>

Answered(s, answer) ==
    [submit EXCEPT ![s] = [NoSubmit EXCEPT !.at = "answered", !.call = submit[s].call,
                                           !.answer = answer]]

Sending(s) == submit[s].at = "send"
Tx(s) == submit[s].call

(* The network takes the next transaction of an account in time, and one   *)
(* at a time.                                                              *)
IsNext(c) == call[c].source = sequence[call[c].account] + 1
Valid(c) == IsNext(c) /\ c \notin late
Busy(a) == \E c \in Calls : call[c].account = a /\ network[c] = "queued"

Sent(s, status) == [submit EXCEPT ![s].at = "poll", ![s].sent = status]

SendPending(s) ==
    /\ Sending(s) /\ ~submit[s].bump
    /\ Valid(Tx(s)) /\ ~Busy(call[Tx(s)].account)
    /\ network' = [network EXCEPT ![Tx(s)] = "queued"]
    /\ submit' = Sent(s, "PENDING")
    /\ UNCHANGED <<sequence, late, call, stats>>

(* The same transaction is queued, or the network takes none for now.      *)
(* Neither is "ERROR": the server goes on to poll.                         *)
SendElsewhere(s) ==
    /\ Sending(s) /\ ~submit[s].bump
    /\ submit' = Sent(s, IF network[Tx(s)] = "queued" THEN "DUPLICATE" ELSE "TRY_AGAIN_LATER")
    /\ UNCHANGED <<ledgerVars, call, stats>>

Refused(s) ==
    submit[s].bump \/ (~Valid(Tx(s)) /\ ~Busy(call[Tx(s)].account))

(* Faulty variant: the status of sendTransaction is not looked at. *)
SendRejectedUnseen(s) ==
    /\ Sending(s) /\ Refused(s)
    /\ submit' = Sent(s, "ERROR")
    /\ UNCHANGED <<ledgerVars, call, stats>>

(* "ERROR": 422.  A fee bump has no signature of its fee source. *)
SendRejected(s) ==
    /\ Sending(s) /\ Refused(s)
    /\ submit' = Answered(s, "422")
    /\ UNCHANGED <<ledgerVars, call, stats>>

(* The request or its reply is lost: 500, whatever the network did. *)
SendFails(s) ==
    /\ Sending(s)
    /\ submit' = Answered(s, "500")
    /\ \/ UNCHANGED network
       \/ /\ ~submit[s].bump /\ Valid(Tx(s)) /\ ~Busy(call[Tx(s)].account)
          /\ network' = [network EXCEPT ![Tx(s)] = "queued"]
    /\ UNCHANGED <<sequence, late, call, stats>>

Polling(s) == submit[s].at = "poll" /\ submit[s].attempt < MaxAttempts

(* Faulty variant: a transaction that was taken counts as done. *)
IsKnown(c) == network[c] # "unknown"

IsTerminal(c) == network[c] \in {"SUCCESS", "FAILED"}

PollFinds(s) ==
    /\ Polling(s) /\ IsTerminal(Tx(s))
    /\ submit' = Answered(s, network[Tx(s)])
    /\ UNCHANGED <<ledgerVars, call, stats>>

(* Faulty variant: the attempt is not counted. *)
SameAttempt(attempt) == attempt

NextAttempt(attempt) == attempt + 1

(* NOT_FOUND, then a second's sleep. *)
PollMisses(s) ==
    /\ Polling(s) /\ ~IsTerminal(Tx(s))
    /\ submit' = [submit EXCEPT ![s].attempt = NextAttempt(@)]
    /\ UNCHANGED <<ledgerVars, call, stats>>

PollFails(s) ==
    /\ Polling(s)
    /\ submit' = Answered(s, "500")
    /\ UNCHANGED <<ledgerVars, call, stats>>

GiveUp(s) ==
    /\ submit[s].at = "poll" /\ submit[s].attempt = MaxAttempts
    /\ submit' = [Answered(s, "PENDING") EXCEPT ![s].sent = submit[s].sent]
    /\ UNCHANGED <<ledgerVars, call, stats>>

SubmitStep(s) ==
    \/ SendPending(s) \/ SendElsewhere(s) \/ SendRejected(s)
    \/ PollFinds(s) \/ PollMisses(s) \/ GiveUp(s)

SubmitFails(s) == SendFails(s) \/ PollFails(s)

-----------------------------------------------------------------------------
(* The end of the process: what it was doing is lost, and the statistics   *)
(* with it.  A prepared transaction is in the client's hands.              *)

CallsLost ==
    /\ call' = [c \in Calls |->
            IF call[c].at = "checking" THEN [NoCall EXCEPT !.at = "lost"] ELSE call[c]]
    /\ submit' = [s \in Submits |->
            IF submit[s].at \in {"send", "poll"} THEN [NoSubmit EXCEPT !.at = "lost"]
            ELSE submit[s]]
    /\ stats' = [a \in Accounts |-> 0]
    /\ UNCHANGED ledgerVars

InFlight ==
    \/ \E c \in Calls : call[c].at = "checking"
    \/ \E s \in Submits : submit[s].at \in {"send", "poll"}

-----------------------------------------------------------------------------
(* The network and time.                                                   *)

(* A queued transaction gets into a ledger, and does what it should or not. *)
Include(c) ==
    /\ network[c] = "queued" /\ Valid(c)
    /\ sequence[call[c].account] < MaxSequence
    /\ sequence' = [sequence EXCEPT ![call[c].account] = @ + 1]
    /\ \E result \in {"SUCCESS", "FAILED"} : network' = [network EXCEPT ![c] = result]
    /\ UNCHANGED <<late, call, submit, stats>>

(* It is outbid, becomes invalid or is forgotten. *)
Drop(c) ==
    /\ network[c] = "queued"
    /\ network' = [network EXCEPT ![c] = "unknown"]
    /\ UNCHANGED <<sequence, late, call, submit, stats>>

OtherTransaction(a) ==
    /\ sequence[a] < MaxSequence
    /\ sequence' = [sequence EXCEPT ![a] = @ + 1]
    /\ UNCHANGED <<network, late, call, submit, stats>>

(* setTimeout: 30 seconds, or 60. *)
Expire(c) ==
    /\ call[c].at = "prepared" /\ c \notin late
    /\ late' = late \cup {c}
    /\ UNCHANGED <<sequence, network, call, submit, stats>>

Network ==
    \/ \E c \in Calls : Include(c) \/ Drop(c) \/ Expire(c)
    \/ \E a \in Accounts : OtherTransaction(a)

Requests ==
    \/ \E c \in Calls, kind \in Kinds, a \in Accounts : AskPrepare(c, kind, a)
    \/ \E s \in Submits, c \in Calls, bump \in BOOLEAN : PostSubmit(s, c, bump)

Handlers ==
    \/ \E c \in Calls : PrepareStep(c)
    \/ \E s \in Submits : SubmitStep(s) \/ SubmitFails(s)

-----------------------------------------------------------------------------
(* Properties.                                                             *)

PrepareRequest ==
    [at : {"new", "checking", "prepared", "refused", "lost"},
     kind : Kinds \cup {"none"}, account : Accounts \cup {"none"}, check : 0 .. 5,
     read : 0 .. MaxSequence, source : 0 .. MaxSequence + 2]

Submission ==
    [at : {"new", "send", "poll", "answered", "lost"}, call : Calls \cup {"none"},
     bump : BOOLEAN, sent : {"none", "PENDING", "DUPLICATE", "TRY_AGAIN_LATER", "ERROR"},
     attempt : 0 .. MaxAttempts,
     answer : {"none", "SUCCESS", "FAILED", "PENDING", "422", "500"}]

CallsTypeOK ==
    /\ sequence \in [Accounts -> 0 .. MaxSequence]
    /\ network \in [Calls -> {"unknown", "queued", "SUCCESS", "FAILED"}]
    /\ late \subseteq Calls
    /\ call \in [Calls -> PrepareRequest]
    /\ submit \in [Submits -> Submission]
    /\ stats \in [Accounts -> Nat]

(***************************************************************************)
(* A result that POST /tx/submit answers is so: SUCCESS and FAILED are the *)
(* ledger's result for that transaction, whoever else submitted it, and    *)
(* PENDING is never said of one the network refused (submitSignedXdr).     *)
(* Nothing is said of the rest: a second submission of a transaction that  *)
(* has succeeded may get 422, PENDING follows TRY_AGAIN_LATER as well, and *)
(* 500 leaves it open what the network did.                                *)
(***************************************************************************)
AnswersAreTrue ==
    \A s \in Submits : submit[s].at = "answered" =>
        /\ submit[s].answer \notin {"422", "500", "PENDING"} =>
                submit[s].answer = network[Tx(s)] /\ IsTerminal(Tx(s))
        /\ submit[s].answer = "PENDING" => submit[s].sent # "ERROR"

(* A submission, as it was prepared and in time, is refused though the     *)
(* account has done nothing else since it was read.                        *)
RefusedFresh(s, kinds) ==
    /\ SendRejected(s) /\ ~submit[s].bump
    /\ call[Tx(s)].kind \in kinds /\ Tx(s) \notin late
    /\ sequence[call[Tx(s)].account] = call[Tx(s)].read

(***************************************************************************)
(* A prepared call that is submitted in time, and as it was prepared, is   *)
(* not refused while its account has done nothing else: a call that cannot *)
(* work is found before it is signed (prepareContractCallXdr).             *)
(***************************************************************************)
FreshCallsAreAccepted ==
    [][\A s \in Submits : ~RefusedFresh(s, Kinds \ {"attest_quality"})]_callsVars

(* The same of attestations (POST /quality/attest/prepare). *)
FreshAttestationsAreAccepted ==
    [][\A s \in Submits : ~RefusedFresh(s, {"attest_quality"})]_callsVars

(***************************************************************************)
(* Every request is answered in the end, though the network may never take *)
(* a transaction, or the process ends first (the 15 attempts).             *)
(***************************************************************************)
EveryRequestEnds ==
    /\ \A c \in Calls : call[c].at = "checking" ~> call[c].at # "checking"
    /\ \A s \in Submits : submit[s].at = "send" ~> submit[s].at \in {"answered", "lost"}
=============================================================================
