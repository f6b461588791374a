------------------------------ MODULE RpcClient ------------------------------
(***************************************************************************)
(* The RPC helpers of src/Rpc/HttpClient.h, with the response status of   *)
(* src/HTTP/HttpResponse.h: invokeJsonCommand, invokeJsonRpcCommand and    *)
(* invokeBinaryCommand.  Each call sends one request through              *)
(* HttpClient::request, which either throws (ConnectException when the     *)
(* connection cannot be made, another std::exception on a read or write   *)
(* error) or fills the response with a status and a body.  What the caller *)
(* sees is a filled result or an exception whose message tells it what    *)
(* went wrong; the model records the latter as the kind of error and the   *)
(* status number the message carries.                                      *)
(***************************************************************************)
EXTENDS Naturals, Sequences

CONSTANTS
    MaxCalls   \* bound on the calls one caller makes

ASSUME ConstantsAssumption == MaxCalls \in Nat \ {0}

Kinds == {"json", "jsonrpc", "binary"}

(* HttpResponse::HTTP_STATUS (HttpResponse.h lines 31-36): an enum whose   *)
(* values are 0..3, standing for the HTTP codes 200, 401, 404 and 500.     *)
Statuses == {"STATUS_200", "STATUS_401", "STATUS_404", "STATUS_500"}
StatusValue == [s \in Statuses |->
                  CASE s = "STATUS_200" -> 0 [] s = "STATUS_401" -> 1
                    [] s = "STATUS_404" -> 2 [] s = "STATUS_500" -> 3]
HttpCode == [s \in Statuses |->
               CASE s = "STATUS_200" -> 200 [] s = "STATUS_401" -> 401
                 [] s = "STATUS_404" -> 404 [] s = "STATUS_500" -> 500]

(* What HttpClient::request does: connect fails, the exchange fails, or a *)
(* response arrives.                                                        *)
Transports == {"ok", "connectFail", "ioFail"}

(* The response body: parses into the response type, does not parse, or   *)
(* (JSON-RPC) is a well-formed reply without a "result" member.            *)
Bodies == {"valid", "invalid", "noResult"}

Errors == {"none", "ConnectException", "exchange", "httpStatus", "parse",
           "CONNECT_ERROR", "NETWORK_ERROR"}

Calls == [kind : Kinds, transport : Transports, status : Statuses, body : Bodies]

(* What the caller got back from one call: the Response filled, or the     *)
(* exception, with the number its message "HTTP status: <n>" carries.      *)
Outcomes == [result : BOOLEAN, error : Errors, code : 0..3]

VARIABLES
    calls      \* the calls made so far, oldest first, each with its outcome

vars == <<calls>>

Init == calls = <<>>

Succeed == [result |-> TRUE, error |-> "none", code |-> 0]
Fail(e, n) == [result |-> FALSE, error |-> e, code |-> n]

(* invokeJsonCommand (HttpClient.h lines 77-98): exceptions of request()   *)
(* propagate as they are; a status other than 200 throws "HTTP status: "   *)
(* with std::to_string of the enum; a body that does not load throws.      *)
invokeJsonCommand(c) ==
    IF c.transport = "connectFail" THEN Fail("ConnectException", 0)
    ELSE IF c.transport = "ioFail" THEN Fail("exchange", 0)
    ELSE IF c.status # "STATUS_200" THEN Fail("httpStatus", StatusValue[c.status])
    ELSE IF c.body # "valid" THEN Fail("parse", 0)
    ELSE Succeed

(* Variant of the JSON-RPC helper whose first handler is the               *)
(* std::exception one, so that it also takes ConnectException.             *)
invokeJsonRpcCatchOrder(c) ==
    IF c.transport # "ok" THEN Fail("NETWORK_ERROR", 0)
    ELSE IF c.body = "valid" THEN Succeed
    ELSE Fail("NETWORK_ERROR", 0)

(* Variant of the JSON-RPC helper that ignores getResult's verdict.        *)
invokeJsonRpcNoResultCheck(c) ==
    IF c.transport = "connectFail" THEN Fail("CONNECT_ERROR", 0)
    ELSE IF c.transport = "ioFail" THEN Fail("NETWORK_ERROR", 0)
    ELSE IF c.body = "invalid" THEN Fail("NETWORK_ERROR", 0)
    ELSE Succeed

(* invokeJsonRpcCommand (lines 100-136): the status test is commented out; *)
(* a body that does not parse throws from jsRes.parse, a reply without a   *)
(* result throws "HTTP status: ..."; the handlers turn ConnectException    *)
(* into "HTTP status: CONNECT_ERROR" and every other exception, its own    *)
(* included, into "HTTP status: NETWORK_ERROR".                             *)
invokeJsonRpcCommand(c) ==
    IF c.transport = "connectFail" THEN Fail("CONNECT_ERROR", 0)
    ELSE IF c.transport = "ioFail" THEN Fail("NETWORK_ERROR", 0)
    ELSE IF c.body = "valid" THEN Succeed
    ELSE Fail("NETWORK_ERROR", 0)

(* invokeBinaryCommand (lines 138-154): no status test; a body that does   *)
(* not load throws.                                                         *)
invokeBinaryCommand(c) ==
    IF c.transport = "connectFail" THEN Fail("ConnectException", 0)
    ELSE IF c.transport = "ioFail" THEN Fail("exchange", 0)
    ELSE IF c.body # "valid" THEN Fail("parse", 0)
    ELSE Succeed

(* A caller invokes one of the helpers; the network and the server choose  *)
(* what happens.  A JSON or binary body is either loadable or not.         *)
Outcome(c) ==
    CASE c.kind = "json" -> invokeJsonCommand(c)
      [] c.kind = "jsonrpc" -> invokeJsonRpcCommand(c)
      [] c.kind = "binary" -> invokeBinaryCommand(c)

Invoke ==
    /\ Len(calls) < MaxCalls
    /\ \E c \in Calls :
          /\ c.kind # "jsonrpc" => c.body # "noResult"
          /\ calls' = Append(calls, [call |-> c, out |-> Outcome(c)])

Next == Invoke

Spec == Init /\ [][Next]_vars

-----------------------------------------------------------------------------
(* A caller is told that the connection failed exactly when it did: the    *)
(* ConnectException of request() reaches it, as itself or as               *)
(* CONNECT_ERROR, through every helper's handlers.                          *)
ConnectFailureReported ==
    \A i \in DOMAIN calls :
        (calls[i].call.transport = "connectFail") <=>
            (calls[i].out.error \in {"ConnectException", "CONNECT_ERROR"})

(* The caller's Response is filled only from a body that was received and  *)
(* parsed into it; a JSON-RPC reply without a result is never taken for   *)
(* one.                                                                    *)
ResultOnlyFromValidBody ==
    \A i \in DOMAIN calls :
        calls[i].out.result =>
            /\ calls[i].call.transport = "ok"
            /\ calls[i].call.body = "valid"
            /\ calls[i].out.error = "none"

(* A JSON-RPC caller told NETWORK_ERROR had a network failure: the server's *)
(* answer (an unparsable body, a reply without a result) is not reported   *)
(* as a network error.                                                     *)
NetworkErrorMeansNetwork ==
    \A i \in DOMAIN calls :
        calls[i].out.error = "NETWORK_ERROR" => calls[i].call.transport = "ioFail"

(* An "HTTP status: <n>" error carries the HTTP status the server sent.    *)
StatusCodeReported ==
    \A i \in DOMAIN calls :
        calls[i].out.error = "httpStatus" =>
            calls[i].out.code = HttpCode[calls[i].call.status]
=============================================================================
