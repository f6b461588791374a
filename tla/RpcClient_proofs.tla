--------------------------- MODULE RpcClient_proofs ---------------------------
(* Proofs about RpcClient for every bound on the calls.                      *)
EXTENDS RpcClient, SequenceTheorems, TLAPS

(* What a caller may learn from one call c: the outcome is well typed, a   *)
(* connect failure and only a connect failure is reported as one, and the  *)
(* Response is filled only from a valid body received over a working       *)
(* connection.                                                             *)
CallOK(x) ==
    /\ x.out \in Outcomes
    /\ (x.call.transport = "connectFail") <=>
           (x.out.error \in {"ConnectException", "CONNECT_ERROR"})
    /\ x.out.result =>
           /\ x.call.transport = "ok"
           /\ x.call.body = "valid"
           /\ x.out.error = "none"

(* The outcomes a failed or successful call records.                      *)
LEMMA FailSucceed ==
    /\ \A e \in Errors, n \in 0..3 :
           Fail(e, n) \in Outcomes /\ ~Fail(e, n).result /\ Fail(e, n).error = e
    /\ Succeed \in Outcomes /\ Succeed.result /\ Succeed.error = "none"
BY DEF Fail, Succeed, Outcomes, Errors

(* Each helper's outcome, case by case on what request() and the server    *)
(* did, in the order of the helper's checks and handlers.                   *)
LEMMA JsonOK ==
    ASSUME NEW c \in Calls
    PROVE  CallOK([call |-> c, out |-> invokeJsonCommand(c)])
<1>1. StatusValue[c.status] \in 0..3
  BY DEF Calls, StatusValue, Statuses
<1>2. CASE c.transport = "connectFail"
  BY <1>2 DEF CallOK, invokeJsonCommand, Fail, Outcomes, Errors
<1>3. CASE c.transport = "ioFail"
  BY <1>3 DEF CallOK, invokeJsonCommand, Fail, Outcomes, Errors
<1>4. CASE c.transport = "ok" /\ c.status # "STATUS_200"
  BY <1>1, <1>4 DEF CallOK, invokeJsonCommand, Fail, Outcomes, Errors
<1>5. CASE c.transport = "ok" /\ c.status = "STATUS_200" /\ c.body # "valid"
  BY <1>5 DEF CallOK, invokeJsonCommand, Fail, Outcomes, Errors
<1>6. CASE c.transport = "ok" /\ c.status = "STATUS_200" /\ c.body = "valid"
  BY <1>6, FailSucceed DEF CallOK, invokeJsonCommand
<1>7. QED
  BY <1>2, <1>3, <1>4, <1>5, <1>6 DEF Calls, Transports

LEMMA JsonRpcOK ==
    ASSUME NEW c \in Calls
    PROVE  CallOK([call |-> c, out |-> invokeJsonRpcCommand(c)])
<1>1. CASE c.transport = "connectFail"
  BY <1>1 DEF CallOK, invokeJsonRpcCommand, Fail, Outcomes, Errors
<1>2. CASE c.transport = "ioFail"
  BY <1>2 DEF CallOK, invokeJsonRpcCommand, Fail, Outcomes, Errors
<1>3. CASE c.transport = "ok" /\ c.body = "valid"
  BY <1>3, FailSucceed DEF CallOK, invokeJsonRpcCommand
<1>4. CASE c.transport = "ok" /\ c.body # "valid"
  BY <1>4 DEF CallOK, invokeJsonRpcCommand, Fail, Outcomes, Errors
<1>5. QED
  BY <1>1, <1>2, <1>3, <1>4 DEF Calls, Transports

LEMMA BinaryOK ==
    ASSUME NEW c \in Calls
    PROVE  CallOK([call |-> c, out |-> invokeBinaryCommand(c)])
<1>1. CASE c.transport = "connectFail"
  BY <1>1 DEF CallOK, invokeBinaryCommand, Fail, Outcomes, Errors
<1>2. CASE c.transport = "ioFail"
  BY <1>2 DEF CallOK, invokeBinaryCommand, Fail, Outcomes, Errors
<1>3. CASE c.transport = "ok" /\ c.body # "valid"
  BY <1>3 DEF CallOK, invokeBinaryCommand, Fail, Outcomes, Errors
<1>4. CASE c.transport = "ok" /\ c.body = "valid"
  BY <1>4, FailSucceed DEF CallOK, invokeBinaryCommand
<1>5. QED
  BY <1>1, <1>2, <1>3, <1>4 DEF Calls, Transports

(* Every call a caller can make has an outcome with the three facts above, *)
(* whichever helper it goes through.                                        *)
LEMMA OutcomeOK ==
    ASSUME NEW c \in Calls
    PROVE  CallOK([call |-> c, out |-> Outcome(c)])
<1>1. CASE c.kind = "json"
  <2>1. Outcome(c) = invokeJsonCommand(c)
    BY <1>1 DEF Outcome
  <2>2. QED
    BY <2>1, JsonOK
<1>2. CASE c.kind = "jsonrpc"
  <2>1. Outcome(c) = invokeJsonRpcCommand(c)
    BY <1>2 DEF Outcome
  <2>2. QED
    BY <2>1, JsonRpcOK
<1>3. CASE c.kind = "binary"
  <2>1. Outcome(c) = invokeBinaryCommand(c)
    BY <1>3 DEF Outcome
  <2>2. QED
    BY <2>1, BinaryOK
<1>4. QED
  BY <1>1, <1>2, <1>3 DEF Calls, Kinds

(* Every recorded call satisfies CallOK.                                   *)
CInv ==
    /\ calls \in Seq([call : Calls, out : Outcomes])
    /\ \A i \in 1..Len(calls) : CallOK(calls[i])

(* A call appends one entry that satisfies CallOK and leaves the earlier  *)
(* ones as they were.                                                      *)
LEMMA CInvStep == CInv /\ [Next]_vars => CInv'
<1> SUFFICES ASSUME CInv, [Next]_vars PROVE CInv'
  OBVIOUS
<1>1. CASE Invoke
  <2>1. PICK c \in Calls :
            /\ c.kind # "jsonrpc" => c.body # "noResult"
            /\ calls' = Append(calls, [call |-> c, out |-> Outcome(c)])
    BY <1>1 DEF Invoke
  <2> DEFINE x == [call |-> c, out |-> Outcome(c)]
  <2>2. CallOK(x)
    BY <2>1, OutcomeOK
  <2>3. x \in [call : Calls, out : Outcomes]
    BY <2>2 DEF CallOK
  <2>4. /\ Append(calls, x) \in Seq([call : Calls, out : Outcomes])
        /\ Len(Append(calls, x)) = Len(calls) + 1
        /\ \A i \in 1..Len(calls) : Append(calls, x)[i] = calls[i]
        /\ Append(calls, x)[Len(calls) + 1] = x
    BY <2>3, AppendProperties DEF CInv
  <2>5. \A i \in 1..Len(calls) + 1 : CallOK(Append(calls, x)[i])
    BY <2>2, <2>4 DEF CInv
  <2>6. QED
    BY <2>1, <2>4, <2>5 DEF CInv
<1>2. CASE UNCHANGED vars
  BY <1>2 DEF vars, CInv
<1>3. QED
  BY <1>1, <1>2 DEF Next

(* The recorded calls are well typed in every reachable state.             *)
LEMMA CInvAlways == Spec => []CInv
<1>1. Init => CInv
  BY DEF Init, CInv
<1>2. QED
  BY <1>1, CInvStep, PTL DEF Spec

(* For every number of calls, through every helper and its exception       *)
(* handlers, a caller is told of a connect failure exactly when            *)
(* HttpClient::request could not connect.                                  *)
THEOREM ConnectReported == Spec => []ConnectFailureReported
<1>1. CInv => ConnectFailureReported
  <2> SUFFICES ASSUME CInv, NEW i \in DOMAIN calls
               PROVE  (calls[i].call.transport = "connectFail") <=>
                          (calls[i].out.error \in {"ConnectException", "CONNECT_ERROR"})
    BY DEF ConnectFailureReported
  <2>1. i \in 1..Len(calls)
    BY DEF CInv
  <2>2. QED
    BY <2>1 DEF CInv, CallOK
<1>2. QED
  BY <1>1, CInvAlways, PTL

(* For every number of calls, no helper fills the caller's Response unless  *)
(* the connection worked and the body was a valid reply: a JSON-RPC reply   *)
(* without a result, an unparsable body, a lost connection never do.        *)
THEOREM ResultValid == Spec => []ResultOnlyFromValidBody
<1>1. CInv => ResultOnlyFromValidBody
  <2> SUFFICES ASSUME CInv, NEW i \in DOMAIN calls, calls[i].out.result
               PROVE  /\ calls[i].call.transport = "ok"
                      /\ calls[i].call.body = "valid"
                      /\ calls[i].out.error = "none"
    BY DEF ResultOnlyFromValidBody
  <2>1. i \in 1..Len(calls)
    BY DEF CInv
  <2>2. QED
    BY <2>1 DEF CInv, CallOK
<1>2. QED
  BY <1>1, CInvAlways, PTL
=============================================================================
