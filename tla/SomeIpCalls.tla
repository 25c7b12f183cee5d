---------------------------- MODULE SomeIpCalls ----------------------------
(***************************************************************************)
(* A SOME/IP client and server: openautosar::someip::RequestCorrelator, the *)
(* table of the client's outstanding requests, and the messages             *)
(* openautosar::someip_binding::SomeIpBinding builds and decodes for        *)
(* methods, one-way methods and the getter and setter of a field, over a    *)
(* network that loses, delays, repeats and reorders.  The client allocates  *)
(* a request id, builds the request and sends it; what comes back completes *)
(* the request and is decoded.  A client process is single-threaded and     *)
(* allocates at most one id per unit of time.                               *)
(***************************************************************************)
EXTENDS Integers, FiniteSets

CONSTANTS
  Clients,          \* client ids, none of them 0
  MaxSession,       \* the largest session id; ids go on at 1
  Capacity,         \* RequestCorrelator::capacity_
  RequestTimeout,   \* timeout_ns
  Life,             \* longest time a message is on its way
  Deployments,      \* which clients there are, the mapping (SomeIpServiceMapping) of client
                    \* and server, what is called and what the application answers
  Sent,             \* payloads requests carry
  MaxCalls,         \* bound on the calls made
  MaxClock,         \* bound on the clock
  NoRequest

Operations == {"method", "oneway", "getter", "setter"}
Slot(op) == IF op = "oneway" THEN "method" ELSE op
(* Ids from EventFlag on have the top bit set.                              *)
EventFlag == 8

(* What an application answers.  The bytes of the payload "lookalike" are   *)
(* those of an error envelope, "magic" only starts like one.                *)
Outcome(failed, domain, code, payload) ==
  [error |-> failed, domain |-> domain, code |-> code, payload |-> payload]

(* A round trip and a timeout are shorter than the time session ids take to *)
(* come round again.  A result that is not an error has no domain or code.  *)
ASSUME SomeIpAssumption ==
  /\ MaxSession \in Nat \ {0} /\ Capacity \in Nat
  /\ RequestTimeout \in Nat \ {0} /\ Life \in Nat
  /\ MaxCalls \in Nat /\ MaxClock \in Nat
  /\ 2 * Life < MaxSession /\ RequestTimeout < MaxSession
  /\ \A d \in Deployments :
       /\ d.clients \subseteq Clients /\ d.operations \subseteq Operations
       /\ \A r \in d.outcomes :
            /\ r = Outcome(r.error, r.domain, r.code, r.payload) /\ r.error \in BOOLEAN
            /\ ~r.error => r.domain = "" /\ r.code = 0

Bare(v) == [wrapped |-> FALSE, domain |-> "", code |-> 0, value |-> v]

VARIABLES
  sipClock,
  nextSession,   \* next_session_id_
  requests,      \* pending_: request id -> what it waits for, or NoRequest
  deployed,      \* the deployment chosen
  wire,          \* messages on their way
  calls,         \* observer: how many calls were made
  answered       \* observer: call -> what the client was given for it, and the
                 \* call and the outcome that the server answered with

sipVars == <<sipClock, nextSession, requests, deployed, wire, calls, answered>>

RequestIds == Clients \X (1 .. MaxSession)
Pending == {id \in RequestIds : requests[id] # NoRequest}

SipInit ==
  /\ sipClock = 0 /\ nextSession = 1
  /\ requests = [id \in RequestIds |-> NoRequest]
  /\ deployed \in Deployments
  /\ wire = {} /\ calls = 0
  /\ answered = [k \in 1 .. MaxCalls |-> {}]

-----------------------------------------------------------------------------
(* The mapping and the messages.                                            *)

ValidService(m) == m.service # 0 /\ m.version # 0
IsMethodId(id) == id \in 1 .. EventFlag - 1

ValidMethodMapping(m) == ValidService(m) /\ IsMethodId(m.ids.method)
ValidFieldGetterMapping(m) == ValidService(m) /\ IsMethodId(m.ids.getter)
ValidFieldSetterMapping(m) == ValidService(m) /\ IsMethodId(m.ids.setter)
ValidMapping(m, op) ==
  CASE op \in {"method", "oneway"} -> ValidMethodMapping(m)
    [] op = "getter" -> ValidFieldGetterMapping(m)
    [] op = "setter" -> ValidFieldSetterMapping(m)

MessageId(m, op) == <<m.service, m.ids[Slot(op)]>>

(* The correlation id of a call is its request id.                          *)
BuildMethodRequest(m, payload, id, k, at) ==
  [message |-> MessageId(m, "method"), version |-> m.version, type |-> "Request",
   code |-> "Ok", id |-> id, payload |-> Bare(payload), sent |-> at, truth |-> <<k, payload>>]
BuildFireAndForgetMethodRequest(m, payload, id, k, at) ==
  [BuildMethodRequest(m, payload, id, k, at) EXCEPT !.type = "RequestNoReturn"]

(* BuildFieldMessage, for requests.  A getter asks with an empty payload, a *)
(* setter may not send one.                                                 *)
BuildFieldMessage(m, op, payload, id, k, at) ==
  [BuildMethodRequest(m, payload, id, k, at) EXCEPT !.message = MessageId(m, op)]
BuildFieldGetterRequest(m, id, k, at) == BuildFieldMessage(m, "getter", "", id, k, at)
BuildFieldSetterRequest(m, payload, id, k, at) ==
  BuildFieldMessage(m, "setter", payload, id, k, at)

BuildRequest(m, op, payload, id, k, at) ==
  CASE op = "method" -> BuildMethodRequest(m, payload, id, k, at)
    [] op = "oneway" -> BuildFireAndForgetMethodRequest(m, payload, id, k, at)
    [] op = "getter" -> BuildFieldGetterRequest(m, id, k, at)
    [] op = "setter" -> BuildFieldSetterRequest(m, payload, id, k, at)

(* What every Decode checks before it looks at the payload.                 *)
HeaderFits(m, op, message, type) ==
  /\ ValidMapping(m, op)
  /\ message.message = MessageId(m, op) /\ message.version = m.version
  /\ message.type = type

(* Whether the server takes the message for what it is.                     *)
DecodeMethodRequest(m, message) ==
  HeaderFits(m, "method", message, "Request") /\ message.code = "Ok"
DecodeFireAndForgetMethodRequest(m, message) ==
  HeaderFits(m, "oneway", message, "RequestNoReturn") /\ message.code = "Ok"

ValidateFieldMessageHeader(m, op, message, type) ==
  HeaderFits(m, op, message, type) /\ message.code = "Ok"
DecodeFieldValue(m, op, message, type) ==
  ValidateFieldMessageHeader(m, op, message, type) /\ message.payload.value # ""
DecodeFieldGetterRequest(m, message) ==
  ValidateFieldMessageHeader(m, "getter", message, "Request") /\ message.payload.value = ""
DecodeFieldSetterRequest(m, message) == DecodeFieldValue(m, "setter", message, "Request")

DecodeRequest(m, op, message) ==
  CASE op = "method" -> DecodeMethodRequest(m, message)
    [] op = "oneway" -> DecodeFireAndForgetMethodRequest(m, message)
    [] op = "getter" -> DecodeFieldGetterRequest(m, message)
    [] op = "setter" -> DecodeFieldSetterRequest(m, message)

(* An error with a domain travels in an envelope; an error code without a   *)
(* domain cannot be encoded, anything else is sent as it is.                *)
Encodable(r) == r.error /\ r.code # 0 => r.domain # ""
EncodeMethodErrorPayload(r) ==
  IF r.error /\ r.domain # ""
  THEN [wrapped |-> TRUE, domain |-> r.domain, code |-> r.code, value |-> r.payload]
  ELSE Bare(r.payload)

(* Bytes that look like an envelope are taken for one.                      *)
Decodable(payload) == payload.wrapped \/ payload.value # "magic"
DecodeMethodErrorPayload(payload) ==
  CASE payload.wrapped -> Outcome(TRUE, payload.domain, payload.code, payload.value)
    [] ~payload.wrapped /\ payload.value = "lookalike" -> Outcome(TRUE, "forged", 1, "value")
    [] OTHER -> Outcome(TRUE, "", 0, payload.value)

Response(request, r, payload) ==
  [request EXCEPT !.type = "Response", !.code = IF r.error THEN "NotOk" ELSE "Ok",
                  !.payload = payload, !.sent = sipClock, !.truth[2] = r]

(* The message a server answers with, as a set: a one-way call gets none,   *)
(* and none can be built for an outcome that cannot be encoded.  A field    *)
(* has a value and no errors.                                               *)
BuildMethodResponse(request, r) ==
  IF Encodable(r) THEN {Response(request, r, EncodeMethodErrorPayload(r))} ELSE {}
ValidFieldValue(r) == ~r.error /\ r.payload # ""
BuildFieldGetterResponse(request, r) ==
  IF ValidFieldValue(r) THEN {Response(request, r, Bare(r.payload))} ELSE {}
BuildFieldSetterResponse(request, r) == BuildFieldGetterResponse(request, r)
BuildResponse(op, request, r) ==
  CASE op = "method" -> BuildMethodResponse(request, r)
    [] op = "oneway" -> {}
    [] op = "getter" -> BuildFieldGetterResponse(request, r)
    [] op = "setter" -> BuildFieldSetterResponse(request, r)

(* What the client makes of a response, as a set: nothing if it does not    *)
(* decode.                                                                  *)
DecodeMethodResponse(m, message) ==
  IF ~HeaderFits(m, "method", message, "Response") THEN {}
  ELSE IF message.code = "Ok" THEN {Outcome(FALSE, "", 0, message.payload.value)}
  ELSE IF Decodable(message.payload) THEN {DecodeMethodErrorPayload(message.payload)}
  ELSE {}
DecodeFieldGetterResponse(m, message) ==
  IF DecodeFieldValue(m, "getter", message, "Response")
  THEN {Outcome(FALSE, "", 0, message.payload.value)} ELSE {}
DecodeFieldSetterResponse(m, message) ==
  IF DecodeFieldValue(m, "setter", message, "Response")
  THEN {Outcome(FALSE, "", 0, message.payload.value)} ELSE {}
DecodeResponse(m, op, message) ==
  CASE op = "method" -> DecodeMethodResponse(m, message)
    [] op = "oneway" -> {}
    [] op = "getter" -> DecodeFieldGetterResponse(m, message)
    [] op = "setter" -> DecodeFieldSetterResponse(m, message)

-----------------------------------------------------------------------------
(* The correlator.                                                          *)

\* Mutated: the largest session id is not used.
NextSessionEarly == IF nextSession + 1 >= MaxSession THEN 1 ELSE nextSession + 1

(* The counter is 16 bits wide and skips 0.                                 *)
NextSession == IF nextSession = MaxSession THEN 1 ELSE nextSession + 1

(* Clients share the counter; an entry under the same id is overwritten.    *)
Allocate(id, message, op, k, at) ==
  /\ Cardinality(Pending) < Capacity /\ message[1] # 0
  /\ id[2] = nextSession
  /\ nextSession' = NextSession
  /\ requests' = [requests EXCEPT ![id] =
       [message |-> message, op |-> op, deadline |-> at + RequestTimeout, call |-> k]]

\* Mutated: a request expires at its deadline.
OverdueAtDeadline(id, at) == at >= requests[id].deadline

Overdue(id, at) == at > requests[id].deadline

(* The request the response is taken for, as a set.  A response with        *)
(* another message id leaves the request pending; a late one removes it.    *)
Complete(id, message) ==
  IF requests[id] = NoRequest \/ requests[id].message # message
  THEN requests' = requests
  ELSE requests' = [requests EXCEPT ![id] = NoRequest]
Completed(id, message) ==
  {r \in {requests[id]} : r # NoRequest /\ r.message = message /\ ~Overdue(id, sipClock)}

Expire ==
  /\ requests' = [id \in RequestIds |->
       IF requests[id] # NoRequest /\ Overdue(id, sipClock) THEN NoRequest ELSE requests[id]]
  /\ UNCHANGED <<sipClock, nextSession, deployed, wire, calls, answered>>

-----------------------------------------------------------------------------
(* The client, the server and the network.                                  *)

StillThere(at) == {message \in wire : at - message.sent <= Life}

SipTick ==
  /\ sipClock < MaxClock
  /\ sipClock' = sipClock + 1
  /\ wire' = StillThere(sipClock + 1)
  /\ UNCHANGED <<nextSession, requests, deployed, calls, answered>>

(* A one-way call takes an id too.  A request that is not sent, because its *)
(* mapping is not valid, has its id allocated all the same.                 *)
Call(client, op, payload) ==
  LET id == <<client, nextSession>>
      k == calls + 1
      at == sipClock + 1
      m == deployed.client
  IN  /\ calls < MaxCalls /\ sipClock < MaxClock
      /\ calls' = k /\ sipClock' = at
      /\ Allocate(id, MessageId(m, op), op, k, at)
      /\ wire' = StillThere(at) \cup 
                 (IF ValidMapping(m, op) THEN {BuildRequest(m, op, payload, id, k, at)} ELSE {})
      /\ UNCHANGED <<deployed, answered>>

(* A request may be delivered again, and is then served again.              *)
Serve(request, op, r) ==
  /\ DecodeRequest(deployed.server, op, request)
  /\ wire' = wire \cup BuildResponse(op, request, r)
  /\ UNCHANGED <<sipClock, nextSession, requests, deployed, calls, answered>>

Receive(response) ==
  /\ response.type = "Response"
  /\ Complete(response.id, response.message)
  /\ answered' = [k \in 1 .. MaxCalls |-> answered[k] \cup
       UNION {[given : DecodeResponse(deployed.client, r.op, response), truth : {response.truth}] :
                r \in {q \in Completed(response.id, response.message) : q.call = k}}]
  /\ UNCHANGED <<sipClock, nextSession, deployed, wire, calls>>

SipNext ==
  \/ SipTick \/ Expire
  \/ \E client \in deployed.clients, op \in deployed.operations, v \in Sent : Call(client, op, v)
  \/ \E message \in wire :
       \/ \E op \in Operations, r \in deployed.outcomes : Serve(message, op, r)
       \/ Receive(message)

SipSpec == SipInit /\ [][SipNext]_sipVars

-----------------------------------------------------------------------------
(* A call is given at most one answer, and it is one the server gave to     *)
(* that very call, with its domain, code and payload: never the answer to   *)
(* an earlier call with the same request id, if round trips are over before *)
(* ids come round (SomeIpAssumption); the code itself would take a later    *)
(* one.  Only an error without domain and code whose bytes look like an     *)
(* envelope is given as something else.                                     *)
AnswersAreOwn ==
  \A k \in 1 .. MaxCalls :
    /\ Cardinality(answered[k]) <= 1
    /\ \A a \in answered[k] :
         LET r == a.truth[2]
         IN  /\ a.truth[1] = k
             /\ r = a.given \/ (r.error /\ r.domain = "" /\ r.payload = "lookalike")

(* A request the client waits for is given up only for a response to it or  *)
(* after its deadline: not on its deadline, not for the response to another *)
(* message, and not because its id is allocated again.                      *)
RequestsEndForCause ==
  [][\A id \in Pending : requests'[id] # requests[id] =>
       \/ sipClock' > requests[id].deadline
       \/ /\ calls' = calls
          /\ \E m \in wire : m.type = "Response" /\ m.id = id /\ m.message = requests[id].message]_sipVars
=============================================================================
