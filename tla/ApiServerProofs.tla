--------------------------- MODULE ApiServerProofs ---------------------------
(***************************************************************************)
(* Theorems about the API process and the contract calls it serves, for    *)
(* any number of requests, submissions and accounts and for every bound.   *)
(***************************************************************************)
EXTENDS ApiServer, TLAPS

-----------------------------------------------------------------------------
(* The table of checks.                                                    *)

AccountAt ==
    [register_dataset |-> 2, issue_license |-> 2, post_commission |-> 4, attest_quality |-> 2]

LastCheck(k) == Len(Checks[k])

LEMMA KindsAre ==
    Kinds = {"register_dataset", "issue_license", "post_commission", "attest_quality"}
BY DEF Kinds, Checks

(* Where each prepare route reads the account, and that it simulates last. *)
LEMMA CheckTable ==
    ASSUME NEW k \in Kinds
    PROVE  /\ LastCheck(k) \in 3 .. 5
           /\ AccountAt[k] \in 1 .. LastCheck(k) - 1
           /\ k = "attest_quality" => LastCheck(k) = 5 /\ AccountAt[k] = 2
           /\ \A i \in 1 .. LastCheck(k) :
                /\ Checks[k][i] = "account" <=> i = AccountAt[k]
                /\ Checks[k][i] = "registered" <=> k = "attest_quality" /\ i = 3
                /\ Checks[k][i] = "simulate" <=> i = LastCheck(k)
<1>1. CASE k = "register_dataset"
  BY <1>1 DEF Checks, AccountAt, LastCheck
<1>2. CASE k = "issue_license"
  BY <1>2 DEF Checks, AccountAt, LastCheck
<1>3. CASE k = "post_commission"
  BY <1>3 DEF Checks, AccountAt, LastCheck
<1>4. CASE k = "attest_quality"
  BY <1>4 DEF Checks, AccountAt, LastCheck
<1> QED BY <1>1, <1>2, <1>3, <1>4, KindsAre

-----------------------------------------------------------------------------
(* The inductive invariants.                                               *)

(* What a prepare request holds, by the checks that are behind it. *)
Numbered(r) ==
    LET attests == r.kind = "attest_quality"
    IN  /\ r.kind \in Kinds /\ r.account \in Accounts
        /\ r.at = "checking" =>
            /\ r.check \in 1 .. LastCheck(r.kind)
            /\ r.check > AccountAt[r.kind] =>
                    r.source = r.read + IF attests /\ r.check > 3 THEN 1 ELSE 0
        /\ r.at = "prepared" => r.source = r.read + IF attests THEN 2 ELSE 1

CallsInv ==
    \A c \in Calls : call[c].at \in {"checking", "prepared"} => Numbered(call[c])

(* A submission is of a transaction that was prepared. *)
SubmitsInv ==
    \A s \in Submits : submit[s].at \in {"send", "poll", "answered"} =>
        /\ submit[s].at # "answered" \/ submit[s].answer # "500" =>
            Tx(s) \in Calls /\ call[Tx(s)].at = "prepared"
        /\ submit[s].sent # "ERROR"

(* The network has what was prepared, and has done with what is used up. *)
NetworkInv ==
    \A c \in Calls : network[c] # "unknown" =>
        /\ call[c].at = "prepared"
        /\ IsTerminal(c) => call[c].source <= sequence[call[c].account]

-----------------------------------------------------------------------------
(* The steps.                                                              *)

(* The records that a prepare request can be. *)
Whole(r) ==
    /\ r \in PrepareRequest
    /\ r.at \in {"checking", "prepared"} => Numbered(r)

(* Requests stay requests when their fields are set. *)
LEMMA NoCallIsRequest == NoCall \in PrepareRequest
BY CallsAssumption DEF PrepareRequest, NoCall

LEMMA NewRequest ==
    ASSUME NEW r \in PrepareRequest, NEW kind \in Kinds, NEW a \in Accounts
    PROVE  [r EXCEPT !.at = "checking", !.kind = kind, !.account = a, !.check = 1]
                \in PrepareRequest
<1>1. [r EXCEPT !.at = "checking", !.kind = kind] \in PrepareRequest
  BY CallsAssumption DEF PrepareRequest
<1>2. ASSUME NEW q \in PrepareRequest PROVE [q EXCEPT !.account = a] \in PrepareRequest
  BY CallsAssumption DEF PrepareRequest
<1>3. ASSUME NEW q \in PrepareRequest PROVE [q EXCEPT !.check = 1] \in PrepareRequest
  BY CallsAssumption DEF PrepareRequest
<1> QED BY <1>1, <1>2, <1>3

LEMMA NextCheck ==
    ASSUME NEW r \in PrepareRequest, NEW check \in 0 .. 5
    PROVE  [r EXCEPT !.check = check] \in PrepareRequest
BY CallsAssumption DEF PrepareRequest

LEMMA SetNumbers ==
    ASSUME NEW r \in PrepareRequest, NEW check \in 0 .. 5, NEW read \in 0 .. MaxSequence,
           NEW source \in 0 .. MaxSequence + 2
    PROVE  /\ [r EXCEPT !.check = check, !.source = source] \in PrepareRequest
           /\ [r EXCEPT !.check = check, !.read = read, !.source = source] \in PrepareRequest
BY CallsAssumption DEF PrepareRequest

LEMMA SetStage ==
    ASSUME NEW r \in PrepareRequest, NEW at \in {"prepared", "refused", "lost"},
           NEW source \in 0 .. MaxSequence + 2
    PROVE  [r EXCEPT !.at = at, !.source = source] \in PrepareRequest
BY CallsAssumption DEF PrepareRequest

LEMMA EndRequest ==
    ASSUME NEW r \in PrepareRequest, NEW at \in {"refused", "lost"}
    PROVE  [r EXCEPT !.at = at] \in PrepareRequest
BY CallsAssumption DEF PrepareRequest

LEMMA AskedIsWhole ==
    ASSUME CallsTypeOK, NEW c \in Calls, NEW kind \in Kinds, NEW a \in Accounts,
           AskPrepare(c, kind, a)
    PROVE  \E r : Whole(r) /\ call' = [call EXCEPT ![c] = r]
<1> DEFINE r == [NoCall EXCEPT !.at = "checking", !.kind = kind, !.account = a, !.check = 1]
<1>1. call' = [call EXCEPT ![c] = r]
  BY DEF AskPrepare
<1>2. /\ r.at = "checking" /\ r.kind = kind /\ r.account = a /\ r.check = 1
      /\ r.read = 0 /\ r.source = 0
  BY DEF NoCall
<1>3. r \in PrepareRequest
  BY NoCallIsRequest, NewRequest
<1> HIDE DEF r
<1>4. Whole(r)
  BY <1>2, <1>3, CheckTable DEF Whole, Numbered
<1> QED BY <1>1, <1>4

(* Each check leaves a whole record, and reads the account in its turn. *)
LEMMA CheckedIsWhole ==
    ASSUME CallsTypeOK, CallsInv, NEW c \in Calls, PrepareStep(c)
    PROVE  \E r : Whole(r) /\ call' = [call EXCEPT ![c] = r]
<1> DEFINE k == call[c].kind
           i == call[c].check
<1>a. call[c] \in PrepareRequest /\ call \in [Calls -> PrepareRequest]
      /\ sequence \in [Accounts -> 0 .. MaxSequence] /\ MaxSequence \in Nat
  BY CallsAssumption DEF CallsTypeOK
<1>b. ASSUME call[c].at = "checking"
      PROVE  /\ Numbered(call[c]) /\ k \in Kinds /\ call[c].account \in Accounts
             /\ i \in 1 .. LastCheck(k) /\ LastCheck(k) \in 3 .. 5
             /\ AccountAt[k] \in 1 .. LastCheck(k) - 1
  BY <1>a, <1>b, CheckTable DEF CallsInv, Numbered, PrepareRequest
<1>c. k = call[c].kind /\ i = call[c].check
  OBVIOUS
<1> HIDE DEF k, i
<1>1. CASE CheckPasses(c)
  <2> DEFINE r == [call[c] EXCEPT !.check = i + 1]
  <2>1. call' = [call EXCEPT ![c] = r] /\ call[c].at = "checking"
        /\ Checks[k][i] \in {"balance", "config", "upload"}
    BY <1>1, <1>c DEF CheckPasses, At, CheckOf
  <2>2. i < LastCheck(k) /\ i # AccountAt[k] /\ (k = "attest_quality" => i # 3)
    BY <1>b, <2>1, CheckTable
  <2>3. r \in PrepareRequest
    <3>1. i + 1 \in 0 .. 5
      BY <1>b, <2>1, <2>2
    <3> QED BY <1>a, <3>1, NextCheck
  <2>4. /\ r.at = "checking" /\ r.kind = k /\ r.account = call[c].account /\ r.check = i + 1
        /\ r.read = call[c].read /\ r.source = call[c].source
    BY <1>a, <1>b, <1>c, <2>1 DEF PrepareRequest
  <2> HIDE DEF r
  <2>5. i + 1 > AccountAt[k] =>
            call[c].source = call[c].read + IF k = "attest_quality" /\ i + 1 > 3 THEN 1 ELSE 0
    BY <1>b, <1>c, <2>1, <2>2 DEF Numbered
  <2>6. Numbered(r)
    BY <1>b, <2>1, <2>2, <2>4, <2>5 DEF Numbered
  <2> QED BY <2>1, <2>3, <2>4, <2>6 DEF Whole
<1>2. CASE CheckFails(c)
  <2> DEFINE r == [NoCall EXCEPT !.at = "refused"]
  <2>1. call' = [call EXCEPT ![c] = r]
    BY <1>2 DEF CheckFails
  <2>2. r \in PrepareRequest
    BY NoCallIsRequest, EndRequest
  <2>3. r.at = "refused"
    BY DEF NoCall
  <2>4. Whole(r)
    BY <2>2, <2>3 DEF Whole
  <2> QED BY <2>1, <2>4
<1>3. CASE ReadAccount(c)
  <2> DEFINE read == sequence[call[c].account]
             r == [call[c] EXCEPT !.check = i + 1, !.read = read, !.source = read]
  <2>1. call[c].at = "checking" /\ Checks[k][i] = "account"
    BY <1>3, <1>c DEF ReadAccount, At, CheckOf
  <2>2. i = AccountAt[k] /\ i < LastCheck(k) /\ (k = "attest_quality" => i = 2)
        /\ read \in 0 .. MaxSequence
    BY <1>a, <1>b, <2>1, CheckTable
  <2>3. call' = [call EXCEPT ![c] = r]
    BY <1>3, <1>a, <1>c DEF ReadAccount
  <2>4. r \in PrepareRequest
    <3>1. i + 1 \in 0 .. 5
      BY <1>b, <2>1, <2>2
    <3>2. read \in 0 .. MaxSequence + 2
      BY <1>a, <2>2
    <3> QED BY <1>a, <2>2, <3>1, <3>2, SetNumbers
  <2>5. /\ r.at = "checking" /\ r.kind = k /\ r.account = call[c].account /\ r.check = i + 1
        /\ r.read = read /\ r.source = read
    BY <1>a, <1>b, <1>c, <2>1 DEF PrepareRequest
  <2> HIDE DEF r, read
  <2>6. Numbered(r)
    BY <1>b, <2>1, <2>2, <2>5 DEF Numbered
  <2> QED BY <2>3, <2>4, <2>5, <2>6 DEF Whole
<1>4. CASE CheckRegistered(c)
  <2> DEFINE r == [call[c] EXCEPT !.check = i + 1, !.source = call[c].source + 1]
  <2>1. call[c].at = "checking" /\ Checks[k][i] = "registered"
    BY <1>4, <1>c DEF CheckRegistered, At, CheckOf
  <2>2. k = "attest_quality" /\ i = 3 /\ LastCheck(k) = 5 /\ AccountAt[k] = 2
    BY <1>b, <2>1, CheckTable
  <2>3. call' = [call EXCEPT ![c] = r]
    BY <1>4, <1>a, <1>c DEF CheckRegistered, Build
  <2>4. call[c].source = call[c].read /\ call[c].read \in 0 .. MaxSequence
    BY <1>a, <1>b, <1>c, <2>1, <2>2 DEF Numbered, PrepareRequest
  <2>5. r \in PrepareRequest
    <3>1. call[c].source + 1 \in 0 .. MaxSequence + 2 /\ i + 1 \in 0 .. 5
      BY <1>a, <2>2, <2>4
    <3> QED BY <1>a, <2>4, <3>1, SetNumbers
  <2>6. /\ r.at = "checking" /\ r.kind = k /\ r.account = call[c].account /\ r.check = i + 1
        /\ r.read = call[c].read /\ r.source = call[c].source + 1
    BY <1>a, <1>b, <1>c, <2>1 DEF PrepareRequest
  <2> HIDE DEF r
  <2>7. Numbered(r)
    BY <1>b, <2>1, <2>2, <2>4, <2>6 DEF Numbered
  <2> QED BY <2>3, <2>5, <2>6, <2>7 DEF Whole
<1>5. CASE Prepare(c)
  <2> DEFINE r == [call[c] EXCEPT !.at = "prepared", !.source = call[c].source + 1]
  <2>1. call[c].at = "checking" /\ Checks[k][i] = "simulate"
    BY <1>5, <1>c DEF Prepare, At, CheckOf
  <2>2. i = LastCheck(k) /\ i > AccountAt[k] /\ (k = "attest_quality" => i = 5)
    <3>1. i = LastCheck(k)
      BY <1>b, <2>1, CheckTable
    <3>2. k = "attest_quality" => LastCheck(k) = 5
      BY <1>b, <2>1, CheckTable
    <3> QED BY <1>b, <2>1, <3>1, <3>2
  <2>3. call' = [call EXCEPT ![c] = r]
    BY <1>5, <1>a, <1>c DEF Prepare, Build
  <2>4. /\ call[c].source = call[c].read + IF k = "attest_quality" THEN 1 ELSE 0
        /\ call[c].read \in 0 .. MaxSequence
    BY <1>a, <1>b, <1>c, <2>1, <2>2 DEF Numbered, PrepareRequest
  <2>5. r \in PrepareRequest
    <3>1. call[c].source + 1 \in 0 .. MaxSequence + 2
      BY <1>a, <2>4
    <3> QED BY <1>a, <3>1, SetStage
  <2>6. /\ r.at = "prepared" /\ r.kind = k /\ r.account = call[c].account
        /\ r.read = call[c].read /\ r.source = call[c].source + 1
    BY <1>a, <1>b, <1>c, <2>1 DEF PrepareRequest
  <2> HIDE DEF r
  <2>7. Numbered(r)
    BY <1>b, <2>1, <2>4, <2>6 DEF Numbered
  <2> QED BY <2>3, <2>5, <2>6, <2>7 DEF Whole
<1> QED BY <1>1, <1>2, <1>3, <1>4, <1>5 DEF PrepareStep

LEMMA WholeStays ==
    ASSUME CallsTypeOK, CallsInv, NEW c \in Calls, NEW r, Whole(r), call' = [call EXCEPT ![c] = r]
    PROVE  call' \in [Calls -> PrepareRequest] /\ CallsInv'
<1>1. call' \in [Calls -> PrepareRequest]
  BY DEF CallsTypeOK, Whole
<1>2. ASSUME NEW d \in Calls PROVE Whole(call'[d])
  <2>1. CASE d = c
    BY <2>1 DEF CallsTypeOK
  <2>2. CASE d # c
    BY <2>2 DEF CallsTypeOK, CallsInv, Whole
  <2> QED BY <2>1, <2>2
<1> QED BY <1>1, <1>2 DEF Whole, CallsInv

(* Every step of a submission leaves a submission. *)
LEMMA NoSubmitIsSubmission == NoSubmit \in Submission
BY CallsAssumption DEF Submission, NoSubmit

LEMMA SentIsSubmission ==
    ASSUME NEW r \in Submission, NEW sent \in {"PENDING", "DUPLICATE", "TRY_AGAIN_LATER", "ERROR"}
    PROVE  [r EXCEPT !.at = "poll", !.sent = sent] \in Submission
BY CallsAssumption DEF Submission

LEMMA AnsweredIsSubmission ==
    ASSUME NEW of \in Calls \cup {"none"},
           NEW answer \in {"SUCCESS", "FAILED", "PENDING", "422", "500"},
           NEW sent \in {"none", "PENDING", "DUPLICATE", "TRY_AGAIN_LATER", "ERROR"}
    PROVE  /\ [NoSubmit EXCEPT !.at = "answered", !.call = of, !.answer = answer] \in Submission
           /\ [[NoSubmit EXCEPT !.at = "answered", !.call = of, !.answer = answer]
                    EXCEPT !.sent = sent] \in Submission
<1>1. ASSUME NEW r \in Submission
      PROVE  [r EXCEPT !.at = "answered", !.call = of, !.answer = answer] \in Submission
  BY CallsAssumption DEF Submission
<1>2. ASSUME NEW r \in Submission PROVE [r EXCEPT !.sent = sent] \in Submission
  BY CallsAssumption DEF Submission
<1> QED BY <1>1, <1>2, NoSubmitIsSubmission

LEMMA AttemptedIsSubmission ==
    ASSUME NEW r \in Submission, NEW attempt \in 0 .. MaxAttempts
    PROVE  [r EXCEPT !.attempt = attempt] \in Submission
BY CallsAssumption DEF Submission

LEMMA PostedIsSubmission ==
    ASSUME NEW c \in Calls, NEW bump \in BOOLEAN
    PROVE  [NoSubmit EXCEPT !.at = "send", !.call = c, !.bump = bump] \in Submission
<1>1. ASSUME NEW r \in Submission
      PROVE  [r EXCEPT !.at = "send", !.call = c, !.bump = bump] \in Submission
  BY CallsAssumption DEF Submission
<1> QED BY <1>1, NoSubmitIsSubmission

(* No request skips a check, and none loses its numbers. *)
LEMMA CallsStep ==
    ASSUME CallsTypeOK, CallsInv, [Next]_vars
    PROVE  CallsInv'
<1>0. CASE UNCHANGED callsVars
  BY <1>0 DEF callsVars, ledgerVars, CallsInv, Numbered, CallsTypeOK, PrepareRequest
<1>1. ASSUME NEW c \in Calls, NEW kind \in Kinds, NEW a \in Accounts,
             AskPrepare(c, kind, a)
      PROVE  CallsInv'
  <2>1. PICK r : Whole(r) /\ call' = [call EXCEPT ![c] = r]
    BY <1>1, AskedIsWhole DEF PrepareStep
  <2> QED BY <2>1, WholeStays
<1>2. ASSUME NEW s \in Submits, NEW c \in Calls, NEW bump \in BOOLEAN,
             PostSubmit(s, c, bump)
      PROVE  CallsInv'
  BY <1>2 DEF PostSubmit, CallsInv, ledgerVars
<1>3. ASSUME NEW c \in Calls, CheckPasses(c) PROVE CallsInv'
  <2>1. PICK r : Whole(r) /\ call' = [call EXCEPT ![c] = r]
    BY <1>3, CheckedIsWhole DEF PrepareStep
  <2> QED BY <2>1, WholeStays
<1>4. ASSUME NEW c \in Calls, CheckFails(c) PROVE CallsInv'
  <2>1. PICK r : Whole(r) /\ call' = [call EXCEPT ![c] = r]
    BY <1>4, CheckedIsWhole DEF PrepareStep
  <2> QED BY <2>1, WholeStays
<1>5. ASSUME NEW c \in Calls, ReadAccount(c) PROVE CallsInv'
  <2>1. PICK r : Whole(r) /\ call' = [call EXCEPT ![c] = r]
    BY <1>5, CheckedIsWhole DEF PrepareStep
  <2> QED BY <2>1, WholeStays
<1>6. ASSUME NEW c \in Calls, CheckRegistered(c) PROVE CallsInv'
  <2>1. PICK r : Whole(r) /\ call' = [call EXCEPT ![c] = r]
    BY <1>6, CheckedIsWhole DEF PrepareStep
  <2> QED BY <2>1, WholeStays
<1>7. ASSUME NEW c \in Calls, Prepare(c) PROVE CallsInv'
  <2>1. PICK r : Whole(r) /\ call' = [call EXCEPT ![c] = r]
    BY <1>7, CheckedIsWhole DEF PrepareStep
  <2> QED BY <2>1, WholeStays
<1>8. ASSUME NEW s \in Submits, SendPending(s) PROVE CallsInv'
  BY <1>8 DEF SendPending, CallsInv, ledgerVars
<1>9. ASSUME NEW s \in Submits, SendElsewhere(s) PROVE CallsInv'
  BY <1>9 DEF SendElsewhere, CallsInv, ledgerVars
<1>10. ASSUME NEW s \in Submits, SendRejected(s) PROVE CallsInv'
  BY <1>10 DEF SendRejected, CallsInv, ledgerVars
<1>11. ASSUME NEW s \in Submits, SendFails(s) PROVE CallsInv'
  BY <1>11 DEF SendFails, CallsInv, ledgerVars
<1>12. ASSUME NEW s \in Submits, PollFinds(s) PROVE CallsInv'
  BY <1>12 DEF PollFinds, CallsInv, ledgerVars
<1>13. ASSUME NEW s \in Submits, PollMisses(s) PROVE CallsInv'
  BY <1>13 DEF PollMisses, CallsInv, ledgerVars
<1>14. ASSUME NEW s \in Submits, PollFails(s) PROVE CallsInv'
  BY <1>14 DEF PollFails, CallsInv, ledgerVars
<1>15. ASSUME NEW s \in Submits, GiveUp(s) PROVE CallsInv'
  BY <1>15 DEF GiveUp, CallsInv, ledgerVars
<1>16. ASSUME NEW c \in Calls, Include(c) PROVE CallsInv'
  BY <1>16 DEF Include, CallsInv, ledgerVars
<1>17. ASSUME NEW c \in Calls, Drop(c) PROVE CallsInv'
  BY <1>17 DEF Drop, CallsInv, ledgerVars
<1>18. ASSUME NEW c \in Calls, Expire(c) PROVE CallsInv'
  BY <1>18 DEF Expire, CallsInv, ledgerVars
<1>19. ASSUME NEW a \in Accounts, OtherTransaction(a) PROVE CallsInv'
  BY <1>19 DEF OtherTransaction, CallsInv, ledgerVars
<1>20. ASSUME TurnAway PROVE CallsInv'
  BY <1>20 DEF TurnAway, CallsInv, ledgerVars
<1>21. ASSUME CallsLost PROVE CallsInv'
  <2>1. ASSUME NEW c \in Calls PROVE Whole(call'[c])
    <3>1. call[c] \in PrepareRequest /\ Whole(call[c])
      BY DEF CallsTypeOK, CallsInv, Whole
    <3>2. CASE call[c].at = "checking"
      <4>1. call'[c] = [NoCall EXCEPT !.at = "lost"]
        BY <1>21, <3>2 DEF CallsLost
      <4> QED BY <4>1, NoCallIsRequest, EndRequest DEF Whole, NoCall
    <3>3. CASE call[c].at # "checking"
      BY <1>21, <3>1, <3>3 DEF CallsLost
    <3> QED BY <3>2, <3>3
  <2> QED BY <2>1 DEF CallsInv, Whole
<1> QED
  BY <1>0, <1>1, <1>2, <1>3, <1>4, <1>5, <1>6, <1>7, <1>8, <1>9, <1>10, <1>11,
     <1>12, <1>13, <1>14, <1>15, <1>16, <1>17, <1>18, <1>19, <1>20, <1>21
  DEF Next, Arrive, Serve, Outside, Stop, Control, Requests, Handlers, Network,
      PrepareStep, SubmitStep, SubmitFails, vars

(* Types of the calls. *)
LEMMA TypeStep ==
    ASSUME CallsTypeOK, CallsInv, [Next]_vars
    PROVE  CallsTypeOK'
<1>0. CASE UNCHANGED callsVars
  BY <1>0 DEF callsVars, ledgerVars, CallsTypeOK
<1>1. ASSUME NEW c \in Calls, NEW kind \in Kinds, NEW a \in Accounts,
             AskPrepare(c, kind, a)
      PROVE  CallsTypeOK'
  <2>1. PICK r : Whole(r) /\ call' = [call EXCEPT ![c] = r]
    BY <1>1, AskedIsWhole DEF PrepareStep
  <2>2. call' \in [Calls -> PrepareRequest]
    BY <2>1, WholeStays
  <2> QED BY <1>1, <2>2 DEF AskPrepare, CallsTypeOK, ledgerVars
<1>2. ASSUME NEW s \in Submits, NEW c \in Calls, NEW bump \in BOOLEAN,
             PostSubmit(s, c, bump)
      PROVE  CallsTypeOK'
  BY <1>2, PostedIsSubmission DEF PostSubmit, CallsTypeOK, ledgerVars
<1>3. ASSUME NEW c \in Calls, CheckPasses(c) PROVE CallsTypeOK'
  <2>1. PICK r : Whole(r) /\ call' = [call EXCEPT ![c] = r]
    BY <1>3, CheckedIsWhole DEF PrepareStep
  <2>2. call' \in [Calls -> PrepareRequest]
    BY <2>1, WholeStays
  <2> QED BY <1>3, <2>2 DEF CheckPasses, CallsTypeOK, ledgerVars
<1>4. ASSUME NEW c \in Calls, CheckFails(c) PROVE CallsTypeOK'
  <2>1. PICK r : Whole(r) /\ call' = [call EXCEPT ![c] = r]
    BY <1>4, CheckedIsWhole DEF PrepareStep
  <2>2. call' \in [Calls -> PrepareRequest]
    BY <2>1, WholeStays
  <2> QED BY <1>4, <2>2 DEF CheckFails, CallsTypeOK, ledgerVars
<1>5. ASSUME NEW c \in Calls, ReadAccount(c) PROVE CallsTypeOK'
  <2>1. PICK r : Whole(r) /\ call' = [call EXCEPT ![c] = r]
    BY <1>5, CheckedIsWhole DEF PrepareStep
  <2>2. call' \in [Calls -> PrepareRequest]
    BY <2>1, WholeStays
  <2> QED BY <1>5, <2>2 DEF ReadAccount, CallsTypeOK, ledgerVars
<1>6. ASSUME NEW c \in Calls, CheckRegistered(c) PROVE CallsTypeOK'
  <2>1. PICK r : Whole(r) /\ call' = [call EXCEPT ![c] = r]
    BY <1>6, CheckedIsWhole DEF PrepareStep
  <2>2. call' \in [Calls -> PrepareRequest]
    BY <2>1, WholeStays
  <2> QED BY <1>6, <2>2 DEF CheckRegistered, CallsTypeOK, ledgerVars
<1>7. ASSUME NEW c \in Calls, Prepare(c) PROVE CallsTypeOK'
  <2>1. PICK r : Whole(r) /\ call' = [call EXCEPT ![c] = r]
    BY <1>7, CheckedIsWhole DEF PrepareStep
  <2>2. call' \in [Calls -> PrepareRequest]
    BY <2>1, WholeStays
  <2>3. stats' \in [Accounts -> Nat]
    <3>1. \A a \in Accounts : stats'[a] = stats[a] \/ stats'[a] = stats[a] + 1
      BY <1>7 DEF Prepare, RecordAttestation, CallsTypeOK
    <3>2. stats' = [a \in Accounts |-> stats'[a]]
      BY <1>7 DEF Prepare, RecordAttestation, CallsTypeOK
    <3>3. \A a \in Accounts : stats'[a] \in Nat
      BY <3>1 DEF CallsTypeOK
    <3> QED BY <3>2, <3>3
  <2> QED BY <1>7, <2>2, <2>3 DEF Prepare, CallsTypeOK, ledgerVars
<1>8. ASSUME NEW s \in Submits, SendPending(s) PROVE CallsTypeOK'
  <2>1. [submit[s] EXCEPT !.at = "poll", !.sent = "PENDING"] \in Submission
    BY SentIsSubmission DEF CallsTypeOK
  <2>2. submit' = [submit EXCEPT ![s] = [submit[s] EXCEPT !.at = "poll", !.sent = "PENDING"]]
    BY <1>8 DEF SendPending, Sent, CallsTypeOK
  <2> QED BY <1>8, <2>1, <2>2 DEF SendPending, CallsTypeOK, ledgerVars
<1>9. ASSUME NEW s \in Submits, SendElsewhere(s) PROVE CallsTypeOK'
  <2>1. PICK sent \in {"DUPLICATE", "TRY_AGAIN_LATER"} :
            submit' = [submit EXCEPT ![s] = [submit[s] EXCEPT !.at = "poll", !.sent = sent]]
    BY <1>9 DEF SendElsewhere, Sent, CallsTypeOK
  <2>2. [submit[s] EXCEPT !.at = "poll", !.sent = sent] \in Submission
    BY SentIsSubmission DEF CallsTypeOK
  <2> QED BY <1>9, <2>1, <2>2 DEF SendElsewhere, CallsTypeOK, ledgerVars
<1>10. ASSUME NEW s \in Submits, SendRejected(s) PROVE CallsTypeOK'
  <2>1. "422" \in {"SUCCESS", "FAILED", "PENDING", "422", "500"}
    BY <1>10 DEF SendRejected, CallsTypeOK, Polling, IsTerminal, Submission
  <2>2. submit' = Answered(s, "422") /\ Tx(s) \in Calls \cup {"none"}
    BY <1>10 DEF SendRejected, CallsTypeOK, Submission, Tx
  <2> QED BY <1>10, <2>1, <2>2, AnsweredIsSubmission
  DEF SendRejected, Answered, Tx, CallsTypeOK, ledgerVars
<1>11. ASSUME NEW s \in Submits, SendFails(s) PROVE CallsTypeOK'
  <2>1. submit' = Answered(s, "500") /\ Tx(s) \in Calls \cup {"none"}
    BY <1>11 DEF SendFails, CallsTypeOK, Submission, Tx
  <2>2. submit' \in [Submits -> Submission]
    BY <2>1, AnsweredIsSubmission DEF Answered, Tx, CallsTypeOK
  <2>3. network' \in [Calls -> {"unknown", "queued", "SUCCESS", "FAILED"}]
    BY <1>11 DEF SendFails, CallsTypeOK
  <2> QED BY <1>11, <2>2, <2>3 DEF SendFails, CallsTypeOK
<1>12. ASSUME NEW s \in Submits, PollFinds(s) PROVE CallsTypeOK'
  <2> DEFINE answer == network[Tx(s)]
  <2>1. answer \in {"SUCCESS", "FAILED"}
    BY <1>12 DEF PollFinds, IsTerminal
  <2>2. submit' = Answered(s, answer) /\ Tx(s) \in Calls \cup {"none"}
    BY <1>12 DEF PollFinds, CallsTypeOK, Submission, Tx
  <2> HIDE DEF answer
  <2>3. submit' \in [Submits -> Submission]
    BY <2>1, <2>2, AnsweredIsSubmission DEF Answered, Tx, CallsTypeOK
  <2> QED BY <1>12, <2>3 DEF PollFinds, CallsTypeOK, ledgerVars
<1>13. ASSUME NEW s \in Submits, PollMisses(s) PROVE CallsTypeOK'
  <2>1. submit[s].attempt + 1 \in 0 .. MaxAttempts
    BY <1>13, CallsAssumption DEF PollMisses, Polling, CallsTypeOK, Submission
  <2>2. [submit[s] EXCEPT !.attempt = submit[s].attempt + 1] \in Submission
    BY <2>1, AttemptedIsSubmission DEF CallsTypeOK
  <2>3. submit' = [submit EXCEPT ![s] = [submit[s] EXCEPT !.attempt = submit[s].attempt + 1]]
    BY <1>13 DEF PollMisses, NextAttempt, CallsTypeOK
  <2> QED BY <1>13, <2>2, <2>3 DEF PollMisses, CallsTypeOK, ledgerVars
<1>14. ASSUME NEW s \in Submits, PollFails(s) PROVE CallsTypeOK'
  <2>1. "500" \in {"SUCCESS", "FAILED", "PENDING", "422", "500"}
    BY <1>14 DEF PollFails, CallsTypeOK, Polling, IsTerminal, Submission
  <2>2. submit' = Answered(s, "500") /\ Tx(s) \in Calls \cup {"none"}
    BY <1>14 DEF PollFails, CallsTypeOK, Submission, Tx
  <2> QED BY <1>14, <2>1, <2>2, AnsweredIsSubmission
  DEF PollFails, Answered, Tx, CallsTypeOK, ledgerVars
<1>15. ASSUME NEW s \in Submits, GiveUp(s) PROVE CallsTypeOK'
  <2> DEFINE r == [[NoSubmit EXCEPT !.at = "answered", !.call = Tx(s), !.answer = "PENDING"]
                        EXCEPT !.sent = submit[s].sent]
  <2>1. Tx(s) \in Calls \cup {"none"} /\ submit[s].sent \in
                {"none", "PENDING", "DUPLICATE", "TRY_AGAIN_LATER", "ERROR"}
    BY DEF CallsTypeOK, Submission, Tx
  <2>2. r \in Submission
    BY <2>1, AnsweredIsSubmission
  <2>3. submit' = [submit EXCEPT ![s] = r]
    BY <1>15 DEF GiveUp, Answered, Tx, CallsTypeOK
  <2> HIDE DEF r
  <2> QED BY <1>15, <2>2, <2>3 DEF GiveUp, CallsTypeOK, ledgerVars
<1>16. ASSUME NEW c \in Calls, Include(c) PROVE CallsTypeOK'
  <2>1. ASSUME NEW a \in Accounts PROVE sequence'[a] \in 0 .. MaxSequence
    BY <1>16, CallsAssumption DEF Include, CallsTypeOK
  <2>2. sequence' \in [Accounts -> 0 .. MaxSequence]
    BY <1>16, <2>1 DEF Include, CallsTypeOK
  <2>3. network' \in [Calls -> {"unknown", "queued", "SUCCESS", "FAILED"}]
    BY <1>16 DEF Include, CallsTypeOK
  <2> QED BY <1>16, <2>2, <2>3 DEF Include, CallsTypeOK
<1>17. ASSUME NEW c \in Calls, Drop(c) PROVE CallsTypeOK'
  BY <1>17 DEF Drop, ledgerVars, CallsTypeOK
<1>18. ASSUME NEW c \in Calls, Expire(c) PROVE CallsTypeOK'
  BY <1>18 DEF Expire, ledgerVars, CallsTypeOK
<1>19. ASSUME NEW a \in Accounts, OtherTransaction(a) PROVE CallsTypeOK'
  BY <1>19, CallsAssumption DEF OtherTransaction, CallsTypeOK
<1>20. ASSUME TurnAway PROVE CallsTypeOK'
  <2>1. PICK s \in Submits : submit' = Answered(s, "500")
    BY <1>20 DEF TurnAway
  <2>2. Tx(s) \in Calls \cup {"none"}
    BY DEF CallsTypeOK, Submission, Tx
  <2> QED BY <1>20, <2>1, <2>2, AnsweredIsSubmission
          DEF TurnAway, Answered, Tx, CallsTypeOK, ledgerVars
<1>21. ASSUME CallsLost PROVE CallsTypeOK'
  <2>1. ASSUME NEW c \in Calls PROVE call'[c] \in PrepareRequest
    BY <1>21, NoCallIsRequest, EndRequest DEF CallsLost, CallsTypeOK
  <2>2. ASSUME NEW s \in Submits PROVE submit'[s] \in Submission
    <3>1. \A r \in Submission : [r EXCEPT !.at = "lost"] \in Submission
      BY CallsAssumption DEF Submission
    <3> QED BY <1>21, <3>1, NoSubmitIsSubmission DEF CallsLost, CallsTypeOK
  <2>3. call' \in [Calls -> PrepareRequest] /\ submit' \in [Submits -> Submission]
    BY <1>21, <2>1, <2>2 DEF CallsLost
  <2> QED BY <1>21, <2>3 DEF CallsLost, CallsTypeOK, ledgerVars
<1> QED
  BY <1>0, <1>1, <1>2, <1>3, <1>4, <1>5, <1>6, <1>7, <1>8, <1>9, <1>10, <1>11,
     <1>12, <1>13, <1>14, <1>15, <1>16, <1>17, <1>18, <1>19, <1>20, <1>21
  DEF Next, Arrive, Serve, Outside, Stop, Control, Requests, Handlers, Network,
      PrepareStep, SubmitStep, SubmitFails, vars

(* What is submitted stays prepared. *)
LEMMA SubmitsStep ==
    ASSUME CallsTypeOK, CallsInv, SubmitsInv, [Next]_vars
    PROVE  SubmitsInv'
<1>0. CASE UNCHANGED callsVars
  BY <1>0 DEF callsVars, ledgerVars, SubmitsInv, CallsTypeOK, PrepareRequest, Submission, Tx
<1>1. ASSUME NEW c \in Calls, NEW kind \in Kinds, NEW a \in Accounts,
             AskPrepare(c, kind, a)
      PROVE  SubmitsInv'
  BY <1>1
  DEF AskPrepare, NoCall, ledgerVars, SubmitsInv, CallsTypeOK, PrepareRequest, Submission, Tx
<1>2. ASSUME NEW s \in Submits, NEW c \in Calls, NEW bump \in BOOLEAN,
             PostSubmit(s, c, bump)
      PROVE  SubmitsInv'
  BY <1>2
  DEF PostSubmit, NoSubmit, ledgerVars, SubmitsInv, CallsTypeOK, PrepareRequest, Submission, Tx
<1>3. ASSUME NEW c \in Calls, CheckPasses(c) PROVE SubmitsInv'
  BY <1>3
  DEF CheckPasses, At, CheckOf, ledgerVars, SubmitsInv, CallsTypeOK, PrepareRequest,
      Submission, Tx
<1>4. ASSUME NEW c \in Calls, CheckFails(c) PROVE SubmitsInv'
  BY <1>4
  DEF CheckFails, NoCall, ledgerVars, SubmitsInv, CallsTypeOK, PrepareRequest, Submission, Tx
<1>5. ASSUME NEW c \in Calls, ReadAccount(c) PROVE SubmitsInv'
  BY <1>5
  DEF ReadAccount, At, CheckOf, ledgerVars, SubmitsInv, CallsTypeOK, PrepareRequest,
      Submission, Tx
<1>6. ASSUME NEW c \in Calls, CheckRegistered(c) PROVE SubmitsInv'
  BY <1>6
  DEF CheckRegistered, At, CheckOf, Build, ledgerVars, SubmitsInv, CallsTypeOK, PrepareRequest,
      Submission, Tx
<1>7. ASSUME NEW c \in Calls, Prepare(c) PROVE SubmitsInv'
  BY <1>7
  DEF Prepare, At, CheckOf, Build, RecordAttestation, ledgerVars, SubmitsInv, CallsTypeOK,
      PrepareRequest, Submission, Tx
<1>8. ASSUME NEW s \in Submits, SendPending(s) PROVE SubmitsInv'
  BY <1>8
  DEF SendPending, Sending, Sent, Tx, Valid, IsNext, ledgerVars, SubmitsInv, CallsTypeOK,
      PrepareRequest, Submission, Tx
<1>9. ASSUME NEW s \in Submits, SendElsewhere(s) PROVE SubmitsInv'
  BY <1>9
  DEF SendElsewhere, Sending, Sent, Tx, ledgerVars, SubmitsInv, CallsTypeOK, PrepareRequest,
      Submission, Tx
<1>10. ASSUME NEW s \in Submits, SendRejected(s) PROVE SubmitsInv'
  BY <1>10
  DEF SendRejected, Sending, Answered, NoSubmit, Tx, ledgerVars, SubmitsInv, CallsTypeOK,
      PrepareRequest, Submission, Tx
<1>11. ASSUME NEW s \in Submits, SendFails(s) PROVE SubmitsInv'
  BY <1>11
  DEF SendFails, Sending, Answered, NoSubmit, Tx, Valid, IsNext, ledgerVars, SubmitsInv,
      CallsTypeOK, PrepareRequest, Submission, Tx
<1>12. ASSUME NEW s \in Submits, PollFinds(s) PROVE SubmitsInv'
  BY <1>12
  DEF PollFinds, Polling, Answered, NoSubmit, Tx, IsTerminal, ledgerVars, SubmitsInv,
      CallsTypeOK, PrepareRequest, Submission, Tx
<1>13. ASSUME NEW s \in Submits, PollMisses(s) PROVE SubmitsInv'
  BY <1>13
  DEF PollMisses, Polling, NextAttempt, Tx, IsTerminal, ledgerVars, SubmitsInv, CallsTypeOK,
      PrepareRequest, Submission, Tx
<1>14. ASSUME NEW s \in Submits, PollFails(s) PROVE SubmitsInv'
  BY <1>14
  DEF PollFails, Polling, Answered, NoSubmit, Tx, ledgerVars, SubmitsInv, CallsTypeOK,
      PrepareRequest, Submission, Tx
<1>15. ASSUME NEW s \in Submits, GiveUp(s) PROVE SubmitsInv'
  BY <1>15
  DEF GiveUp, Answered, NoSubmit, Tx, ledgerVars, SubmitsInv, CallsTypeOK, PrepareRequest,
      Submission, Tx
<1>16. ASSUME NEW c \in Calls, Include(c) PROVE SubmitsInv'
  BY <1>16 DEF Include, SubmitsInv, Tx
<1>17. ASSUME NEW c \in Calls, Drop(c) PROVE SubmitsInv'
  BY <1>17 DEF Drop, SubmitsInv, Tx
<1>18. ASSUME NEW c \in Calls, Expire(c) PROVE SubmitsInv'
  BY <1>18 DEF Expire, SubmitsInv, Tx
<1>19. ASSUME NEW a \in Accounts, OtherTransaction(a) PROVE SubmitsInv'
  BY <1>19 DEF OtherTransaction, SubmitsInv, Tx
<1>20. ASSUME TurnAway PROVE SubmitsInv'
  BY <1>20
  DEF TurnAway, Answered, NoSubmit, Tx, ledgerVars, SubmitsInv, CallsTypeOK, PrepareRequest,
      Submission, Tx
<1>21. ASSUME CallsLost PROVE SubmitsInv'
  BY <1>21
  DEF CallsLost, NoCall, NoSubmit, ledgerVars, SubmitsInv, CallsTypeOK,
      PrepareRequest, Submission, Tx
<1> QED
  BY <1>0, <1>1, <1>2, <1>3, <1>4, <1>5, <1>6, <1>7, <1>8, <1>9, <1>10, <1>11,
     <1>12, <1>13, <1>14, <1>15, <1>16, <1>17, <1>18, <1>19, <1>20, <1>21
  DEF Next, Arrive, Serve, Outside, Stop, Control, Requests, Handlers, Network,
      PrepareStep, SubmitStep, SubmitFails, vars

(* A ledger's result is final: its sequence number is used up. *)
LEMMA NetworkStep ==
    ASSUME CallsTypeOK, CallsInv, SubmitsInv, NetworkInv, [Next]_vars
    PROVE  NetworkInv'
<1> USE CallsAssumption
<1>0. CASE UNCHANGED callsVars
  BY <1>0
  DEF callsVars, ledgerVars, CallsInv, Numbered, SubmitsInv, NetworkInv, IsTerminal,
      CallsTypeOK, PrepareRequest, Submission, Tx
<1>1. ASSUME NEW c \in Calls, NEW kind \in Kinds, NEW a \in Accounts,
             AskPrepare(c, kind, a)
      PROVE  NetworkInv'
  <2>1. network[c] = "unknown"
    BY <1>1 DEF AskPrepare, NoCall, NetworkInv
  <2>2. /\ \A d \in Calls : d # c => call'[d] = call[d]
        /\ UNCHANGED <<network, sequence>>
    BY <1>1 DEF AskPrepare, ledgerVars, CallsTypeOK
  <2> QED BY <2>1, <2>2 DEF NetworkInv, IsTerminal
<1>2. ASSUME NEW s \in Submits, NEW c \in Calls, NEW bump \in BOOLEAN,
             PostSubmit(s, c, bump)
      PROVE  NetworkInv'
  BY <1>2 DEF PostSubmit, NetworkInv, IsTerminal, ledgerVars
<1>3. ASSUME NEW c \in Calls, CheckPasses(c) PROVE NetworkInv'
  <2>1. network[c] = "unknown"
    BY <1>3 DEF CheckPasses, At, NetworkInv
  <2>2. /\ \A d \in Calls : d # c => call'[d] = call[d]
        /\ UNCHANGED <<network, sequence>>
    BY <1>3 DEF CheckPasses, ledgerVars, CallsTypeOK
  <2> QED BY <2>1, <2>2 DEF NetworkInv, IsTerminal
<1>4. ASSUME NEW c \in Calls, CheckFails(c) PROVE NetworkInv'
  <2>1. network[c] = "unknown"
    BY <1>4 DEF CheckFails, NoCall, NetworkInv
  <2>2. /\ \A d \in Calls : d # c => call'[d] = call[d]
        /\ UNCHANGED <<network, sequence>>
    BY <1>4 DEF CheckFails, ledgerVars, CallsTypeOK
  <2> QED BY <2>1, <2>2 DEF NetworkInv, IsTerminal
<1>5. ASSUME NEW c \in Calls, ReadAccount(c) PROVE NetworkInv'
  <2>1. network[c] = "unknown"
    BY <1>5 DEF ReadAccount, At, NetworkInv
  <2>2. /\ \A d \in Calls : d # c => call'[d] = call[d]
        /\ UNCHANGED <<network, sequence>>
    BY <1>5 DEF ReadAccount, ledgerVars, CallsTypeOK
  <2> QED BY <2>1, <2>2 DEF NetworkInv, IsTerminal
<1>6. ASSUME NEW c \in Calls, CheckRegistered(c) PROVE NetworkInv'
  <2>1. network[c] = "unknown"
    BY <1>6 DEF CheckRegistered, At, NetworkInv
  <2>2. /\ \A d \in Calls : d # c => call'[d] = call[d]
        /\ UNCHANGED <<network, sequence>>
    BY <1>6 DEF CheckRegistered, ledgerVars, CallsTypeOK
  <2> QED BY <2>1, <2>2 DEF NetworkInv, IsTerminal
<1>7. ASSUME NEW c \in Calls, Prepare(c) PROVE NetworkInv'
  <2>1. network[c] = "unknown"
    BY <1>7 DEF Prepare, At, NetworkInv
  <2>2. /\ \A d \in Calls : d # c => call'[d] = call[d]
        /\ UNCHANGED <<network, sequence>>
    BY <1>7 DEF Prepare, ledgerVars, CallsTypeOK
  <2> QED BY <2>1, <2>2 DEF NetworkInv, IsTerminal
<1>8. ASSUME NEW s \in Submits, SendPending(s) PROVE NetworkInv'
  BY <1>8
  DEF SendPending, Sending, Sent, Tx, Valid, IsNext, ledgerVars, CallsInv, Numbered,
      SubmitsInv, NetworkInv, IsTerminal, CallsTypeOK, PrepareRequest, Submission, Tx
<1>9. ASSUME NEW s \in Submits, SendElsewhere(s) PROVE NetworkInv'
  BY <1>9 DEF SendElsewhere, NetworkInv, IsTerminal, ledgerVars
<1>10. ASSUME NEW s \in Submits, SendRejected(s) PROVE NetworkInv'
  BY <1>10 DEF SendRejected, NetworkInv, IsTerminal, ledgerVars
<1>11. ASSUME NEW s \in Submits, SendFails(s) PROVE NetworkInv'
  BY <1>11
  DEF SendFails, Sending, Answered, NoSubmit, Tx, Valid, IsNext, ledgerVars, CallsInv,
      Numbered, SubmitsInv, NetworkInv, IsTerminal, CallsTypeOK, PrepareRequest, Submission, Tx
<1>12. ASSUME NEW s \in Submits, PollFinds(s) PROVE NetworkInv'
  BY <1>12 DEF PollFinds, NetworkInv, IsTerminal, ledgerVars
<1>13. ASSUME NEW s \in Submits, PollMisses(s) PROVE NetworkInv'
  BY <1>13 DEF PollMisses, NetworkInv, IsTerminal, ledgerVars
<1>14. ASSUME NEW s \in Submits, PollFails(s) PROVE NetworkInv'
  BY <1>14 DEF PollFails, NetworkInv, IsTerminal, ledgerVars
<1>15. ASSUME NEW s \in Submits, GiveUp(s) PROVE NetworkInv'
  BY <1>15 DEF GiveUp, NetworkInv, IsTerminal, ledgerVars
<1>16. ASSUME NEW c \in Calls, Include(c) PROVE NetworkInv'
  BY <1>16
  DEF Include, Valid, IsNext, ledgerVars, CallsInv, Numbered, SubmitsInv, NetworkInv,
      IsTerminal, CallsTypeOK, PrepareRequest, Submission, Tx
<1>17. ASSUME NEW c \in Calls, Drop(c) PROVE NetworkInv'
  BY <1>17
  DEF Drop, ledgerVars, CallsInv, Numbered, SubmitsInv, NetworkInv, IsTerminal, CallsTypeOK,
      PrepareRequest, Submission, Tx
<1>18. ASSUME NEW c \in Calls, Expire(c) PROVE NetworkInv'
  BY <1>18
  DEF Expire, ledgerVars, CallsInv, Numbered, SubmitsInv, NetworkInv, IsTerminal, CallsTypeOK,
      PrepareRequest, Submission, Tx
<1>19. ASSUME NEW a \in Accounts, OtherTransaction(a) PROVE NetworkInv'
  BY <1>19
  DEF OtherTransaction, ledgerVars, CallsInv, Numbered, SubmitsInv, NetworkInv, IsTerminal,
      CallsTypeOK, PrepareRequest, Submission, Tx
<1>20. ASSUME TurnAway PROVE NetworkInv'
  BY <1>20 DEF TurnAway, NetworkInv, IsTerminal, ledgerVars
<1>21. ASSUME CallsLost PROVE NetworkInv'
  BY <1>21
  DEF CallsLost, NoCall, NoSubmit, ledgerVars, CallsInv, Numbered, SubmitsInv,
      NetworkInv, IsTerminal, CallsTypeOK, PrepareRequest, Submission, Tx
<1> QED
  BY <1>0, <1>1, <1>2, <1>3, <1>4, <1>5, <1>6, <1>7, <1>8, <1>9, <1>10, <1>11,
     <1>12, <1>13, <1>14, <1>15, <1>16, <1>17, <1>18, <1>19, <1>20, <1>21
  DEF Next, Arrive, Serve, Outside, Stop, Control, Requests, Handlers, Network,
      PrepareStep, SubmitStep, SubmitFails, vars

(* What was answered stays true. *)
LEMMA AnswersStep ==
    ASSUME CallsTypeOK, CallsInv, SubmitsInv, NetworkInv, AnswersAreTrue, [Next]_vars
    PROVE  AnswersAreTrue'
<1> USE CallsAssumption
<1>0. CASE UNCHANGED callsVars
  BY <1>0
  DEF callsVars, ledgerVars, CallsInv, Numbered, SubmitsInv, NetworkInv, AnswersAreTrue,
      IsTerminal, CallsTypeOK, PrepareRequest, Submission, Tx
<1>1. ASSUME NEW c \in Calls, NEW kind \in Kinds, NEW a \in Accounts,
             AskPrepare(c, kind, a)
      PROVE  AnswersAreTrue'
  BY <1>1 DEF AskPrepare, AnswersAreTrue, IsTerminal, Tx, ledgerVars
<1>2. ASSUME NEW s \in Submits, NEW c \in Calls, NEW bump \in BOOLEAN,
             PostSubmit(s, c, bump)
      PROVE  AnswersAreTrue'
  BY <1>2
  DEF PostSubmit, NoSubmit, ledgerVars, CallsInv, Numbered, SubmitsInv, NetworkInv,
      AnswersAreTrue, IsTerminal, CallsTypeOK, PrepareRequest, Submission, Tx
<1>3. ASSUME NEW c \in Calls, CheckPasses(c) PROVE AnswersAreTrue'
  BY <1>3 DEF CheckPasses, AnswersAreTrue, IsTerminal, Tx, ledgerVars
<1>4. ASSUME NEW c \in Calls, CheckFails(c) PROVE AnswersAreTrue'
  BY <1>4 DEF CheckFails, AnswersAreTrue, IsTerminal, Tx, ledgerVars
<1>5. ASSUME NEW c \in Calls, ReadAccount(c) PROVE AnswersAreTrue'
  BY <1>5 DEF ReadAccount, AnswersAreTrue, IsTerminal, Tx, ledgerVars
<1>6. ASSUME NEW c \in Calls, CheckRegistered(c) PROVE AnswersAreTrue'
  BY <1>6 DEF CheckRegistered, AnswersAreTrue, IsTerminal, Tx, ledgerVars
<1>7. ASSUME NEW c \in Calls, Prepare(c) PROVE AnswersAreTrue'
  BY <1>7 DEF Prepare, AnswersAreTrue, IsTerminal, Tx, ledgerVars
<1>8. ASSUME NEW s \in Submits, SendPending(s) PROVE AnswersAreTrue'
  BY <1>8
  DEF SendPending, Sending, Sent, Tx, Valid, IsNext, ledgerVars, CallsInv, Numbered,
      SubmitsInv, NetworkInv, AnswersAreTrue, IsTerminal, CallsTypeOK, PrepareRequest,
      Submission, Tx
<1>9. ASSUME NEW s \in Submits, SendElsewhere(s) PROVE AnswersAreTrue'
  BY <1>9
  DEF SendElsewhere, Sending, Sent, Tx, ledgerVars, CallsInv, Numbered, SubmitsInv, NetworkInv,
      AnswersAreTrue, IsTerminal, CallsTypeOK, PrepareRequest, Submission, Tx
<1>10. ASSUME NEW s \in Submits, SendRejected(s) PROVE AnswersAreTrue'
  BY <1>10
  DEF SendRejected, Sending, Answered, NoSubmit, Tx, ledgerVars, CallsInv, Numbered,
      SubmitsInv, NetworkInv, AnswersAreTrue, IsTerminal, CallsTypeOK, PrepareRequest,
      Submission, Tx
<1>11. ASSUME NEW s \in Submits, SendFails(s) PROVE AnswersAreTrue'
  BY <1>11
  DEF SendFails, Sending, Answered, NoSubmit, Tx, Valid, IsNext, ledgerVars, CallsInv,
      Numbered, SubmitsInv, NetworkInv, AnswersAreTrue, IsTerminal, CallsTypeOK,
      PrepareRequest, Submission, Tx
<1>12. ASSUME NEW s \in Submits, PollFinds(s) PROVE AnswersAreTrue'
  BY <1>12
  DEF PollFinds, Polling, Answered, NoSubmit, Tx, IsTerminal, ledgerVars, CallsInv, Numbered,
      SubmitsInv, NetworkInv, AnswersAreTrue, IsTerminal, CallsTypeOK, PrepareRequest,
      Submission, Tx
<1>13. ASSUME NEW s \in Submits, PollMisses(s) PROVE AnswersAreTrue'
  BY <1>13
  DEF PollMisses, Polling, NextAttempt, Tx, IsTerminal, ledgerVars, CallsInv, Numbered,
      SubmitsInv, NetworkInv, AnswersAreTrue, IsTerminal, CallsTypeOK, PrepareRequest,
      Submission, Tx
<1>14. ASSUME NEW s \in Submits, PollFails(s) PROVE AnswersAreTrue'
  BY <1>14
  DEF PollFails, Polling, Answered, NoSubmit, Tx, ledgerVars, CallsInv, Numbered, SubmitsInv,
      NetworkInv, AnswersAreTrue, IsTerminal, CallsTypeOK, PrepareRequest, Submission, Tx
<1>15. ASSUME NEW s \in Submits, GiveUp(s) PROVE AnswersAreTrue'
  BY <1>15
  DEF GiveUp, Answered, NoSubmit, Tx, ledgerVars, CallsInv, Numbered, SubmitsInv, NetworkInv,
      AnswersAreTrue, IsTerminal, CallsTypeOK, PrepareRequest, Submission, Tx
<1>16. ASSUME NEW c \in Calls, Include(c) PROVE AnswersAreTrue'
  BY <1>16
  DEF Include, Valid, IsNext, ledgerVars, CallsInv, Numbered, SubmitsInv, NetworkInv,
      AnswersAreTrue, IsTerminal, CallsTypeOK, PrepareRequest, Submission, Tx
<1>17. ASSUME NEW c \in Calls, Drop(c) PROVE AnswersAreTrue'
  BY <1>17
  DEF Drop, ledgerVars, CallsInv, Numbered, SubmitsInv, NetworkInv, AnswersAreTrue, IsTerminal,
      CallsTypeOK, PrepareRequest, Submission, Tx
<1>18. ASSUME NEW c \in Calls, Expire(c) PROVE AnswersAreTrue'
  BY <1>18 DEF Expire, AnswersAreTrue, IsTerminal, Tx
<1>19. ASSUME NEW a \in Accounts, OtherTransaction(a) PROVE AnswersAreTrue'
  BY <1>19 DEF OtherTransaction, AnswersAreTrue, IsTerminal, Tx
<1>20. ASSUME TurnAway PROVE AnswersAreTrue'
  BY <1>20
  DEF TurnAway, Answered, NoSubmit, Tx, ledgerVars, CallsInv, Numbered, SubmitsInv, NetworkInv,
      AnswersAreTrue, IsTerminal, CallsTypeOK, PrepareRequest, Submission, Tx
<1>21. ASSUME CallsLost PROVE AnswersAreTrue'
  BY <1>21
  DEF CallsLost, NoCall, NoSubmit, ledgerVars, CallsInv, Numbered, SubmitsInv,
      NetworkInv, AnswersAreTrue, IsTerminal, CallsTypeOK, PrepareRequest, Submission, Tx
<1> QED
  BY <1>0, <1>1, <1>2, <1>3, <1>4, <1>5, <1>6, <1>7, <1>8, <1>9, <1>10, <1>11,
     <1>12, <1>13, <1>14, <1>15, <1>16, <1>17, <1>18, <1>19, <1>20, <1>21
  DEF Next, Arrive, Serve, Outside, Stop, Control, Requests, Handlers, Network,
      PrepareStep, SubmitStep, SubmitFails, vars

(* The process and its connection keep their types. *)
LEMMA ServerStep ==
    ASSUME ServerTypeOK, [Next]_vars
    PROVE  ServerTypeOK'
<1>a. /\ MaxRetries \in Nat /\ MaxOutages \in Nat /\ MaxExits \in Nat
      /\ 0 \in 0 .. MaxRetries /\ 0 \in 0 .. MaxExits
  <2>1. MaxRetries \in Nat /\ MaxOutages \in Nat /\ MaxExits \in Nat
    BY ServerAssumption
  <2> QED BY <2>1
<1> USE <1>a DEF ServerTypeOK
<1>0. CASE UNCHANGED serverVars
  BY <1>0 DEF serverVars
<1>1. CASE Start
  BY <1>1 DEF Start
<1>2. CASE SigTerm
  BY <1>2 DEF SigTerm
<1>3. CASE Restart
  BY <1>3 DEF Restart, NewProcess
<1>4. CASE Exit(InFlight)
  BY <1>4 DEF Exit, SigTermAtStart, Close, ForceExit, Crash, Ends
<1>5. CASE RedisGoesDown
  <2>1. outages' \in 0 .. MaxOutages
    BY <1>5 DEF RedisGoesDown
  <2>2. misses' \in 0 .. MaxRetries
    BY <1>5 DEF RedisGoesDown
  <2> QED BY <1>5, <2>1, <2>2 DEF RedisGoesDown
<1>6. CASE RedisComesBack
  BY <1>6 DEF RedisComesBack
<1>7. CASE Reconnect
  BY <1>7 DEF Reconnect
<1>8. CASE RetryFails
  BY <1>8 DEF RetryFails
<1> QED
  BY <1>0, <1>1, <1>2, <1>3, <1>4, <1>5, <1>6, <1>7, <1>8
  DEF Next, Arrive, TurnAway, Serve, Outside, Stop, Control, Connection, vars

-----------------------------------------------------------------------------
(* Theorems.                                                               *)

ApiInv == CallsInv /\ SubmitsInv /\ NetworkInv /\ AnswersAreTrue

LEMMA ApiInit == Init => TypeOK /\ ApiInv
<1> SUFFICES ASSUME Init PROVE TypeOK /\ ApiInv
  OBVIOUS
<1>1. CallsTypeOK
  <2>1. 0 \in 0 .. MaxSequence
    BY CallsAssumption
  <2> QED BY <2>1, NoCallIsRequest, NoSubmitIsSubmission DEF Init, CallsInit, CallsTypeOK
<1>2. ServerTypeOK
  <2>1. MaxRetries \in Nat /\ MaxOutages \in Nat /\ MaxExits \in Nat
    BY ServerAssumption
  <2>2. 0 \in 0 .. MaxRetries /\ 0 \in 0 .. MaxExits
    BY <2>1
  <2>3. outages \in 0 .. MaxOutages
    BY <2>1 DEF Init, ServerInit
  <2> QED BY <2>2, <2>3 DEF Init, ServerInit, ServerTypeOK
<1> QED
  BY <1>1, <1>2
  DEF Init, CallsInit, NoCall, NoSubmit, TypeOK, ApiInv, CallsInv, SubmitsInv, NetworkInv,
      AnswersAreTrue

LEMMA ApiStep == TypeOK /\ ApiInv /\ [Next]_vars => TypeOK' /\ ApiInv'
BY CallsStep, TypeStep, SubmitsStep, NetworkStep, AnswersStep, ServerStep
DEF TypeOK, ApiInv

LEMMA ApiInvariant == Spec => [](TypeOK /\ ApiInv)
BY ApiInit, ApiStep, PTL DEF Spec

(* Every variable of the process and of its calls keeps its type. *)
THEOREM TypeCorrect == Spec => []TypeOK
BY ApiInvariant, PTL

(***************************************************************************)
(* SUCCESS and FAILED are the ledger's word on that very transaction, for  *)
(* good, and a refused transaction is never reported as pending, however   *)
(* submissions, drops, expiries and restarts mix.                          *)
(***************************************************************************)
THEOREM AnswersStayTrue == Spec => []AnswersAreTrue
BY ApiInvariant, PTL DEF ApiInv

(***************************************************************************)
(* A call of three of the four kinds, submitted in time and as prepared,   *)
(* is refused only if its account has moved on since it was read.          *)
(***************************************************************************)
THEOREM FreshCallsPass == Spec => FreshCallsAreAccepted
<1>1. ASSUME TypeOK, ApiInv, NEW s \in Submits
      PROVE  ~RefusedFresh(s, Kinds \ {"attest_quality"})
  <2> SUFFICES ASSUME SendRejected(s), ~submit[s].bump, Tx(s) \notin late,
                      call[Tx(s)].kind # "attest_quality",
                      sequence[call[Tx(s)].account] = call[Tx(s)].read
               PROVE  FALSE
    BY DEF RefusedFresh
  <2>1. Tx(s) \in Calls /\ call[Tx(s)].at = "prepared"
    BY <1>1 DEF ApiInv, SubmitsInv, SendRejected, Sending
  <2>2. call[Tx(s)].source = call[Tx(s)].read + 1
    BY <1>1, <2>1 DEF ApiInv, CallsInv, Numbered
  <2> QED BY <2>1, <2>2 DEF SendRejected, Refused, Valid, IsNext
<1>2. TypeOK /\ ApiInv
        => [\A s \in Submits : ~RefusedFresh(s, Kinds \ {"attest_quality"})]_callsVars
  BY <1>1
<1> QED BY <1>2, ApiInvariant, PTL DEF FreshCallsAreAccepted
=============================================================================
