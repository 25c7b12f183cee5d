---------------------------- MODULE Diagnostics ----------------------------
(***************************************************************************)
(* openautosar::runtime::diagnostics::DiagnosticManager: one session and    *)
(* one lock serve every tester.  Testers ask over CAN in single frames;     *)
(* applications report and clear DTCs, contribute identifiers and routines; *)
(* the platform sets or takes away the authorization policy in between.     *)
(* Frames carry as many bytes as FrameBytes says; what a byte means is      *)
(* abstracted to the field of the request it belongs to.                    *)
(***************************************************************************)
EXTENDS Integers, Sequences, FiniteSets, FiniteSetsExt

CONSTANTS
  Codes,            \* DTC codes in use
  Identifiers,      \* data identifiers in use, those of the constructor among them
  BootIdentifiers,  \* the ones the constructor registers
  Routines,         \* routine ids in use
  ValueBytes,       \* length of a data identifier's value
  FrameBytes,       \* kMaxSingleFramePayload
  Contributions     \* what applications contribute

Zero == "zero"           \* an id or code 0
AllGroups == "all"       \* the code 0x00FFFFFF

ASSUME DiagnosticsAssumption ==
  /\ Zero \notin Codes \cup Identifiers \cup Routines
  /\ AllGroups \notin Codes /\ BootIdentifiers \subseteq Identifiers
  /\ ValueBytes \in Nat /\ FrameBytes \in Nat
  /\ 2 < FrameBytes                     \* a negative response fits a frame
  /\ \A c \in Contributions :
       /\ c.identifiers \in Seq(Identifiers \cup {Zero})
       /\ c.routines \in Seq(Routines \cup {Zero})

VARIABLES
  session,       \* session_
  unlocked,      \* security_unlocked_
  known,         \* keys of data_identifiers_
  runnable,      \* keys of routines_
  memory,        \* event_memory_: code -> status, a set of status bits
  granted,       \* operations the policy allows; all of them without a policy
  exchange,      \* observer: the last service a tester asked for and the response
  earned         \* observer: a tester gave the right key, with a grant for it,
                 \* since a tester last chose a session

diaVars == <<session, unlocked, known, runnable, memory, granted, exchange, earned>>

Sessions == {"Default", "Programming", "Extended"}
Grants == {"SecurityAccess", "Read", "ClearDtc", "RoutineControl"}
(* One bit stands for all that a status and a mask may have in common.     *)
StatusBits == {"confirmed"}
Reported == {AllGroups} \cup Codes

DiaInit ==
  /\ session = "Default" /\ unlocked = FALSE
  /\ known = BootIdentifiers /\ runnable = {}
  /\ memory = [c \in {} |-> {}]
  /\ granted = Grants
  /\ exchange = [service |-> "Other", response |-> "Positive"] /\ earned = FALSE

-----------------------------------------------------------------------------
(* What applications and the platform do.                                   *)

(* Identifiers are registered one after the other up to the first that is   *)
(* zero or taken; a contribution refused half way stays half registered.    *)
Accepted(taken, ids) ==
  {i \in DOMAIN ids : \A j \in 1 .. i :
     ids[j] # Zero /\ ids[j] \notin taken /\ \A k \in 1 .. j - 1 : ids[k] # ids[j]}
Registered(taken, ids) == taken \cup {ids[i] : i \in Accepted(taken, ids)}

RegisterContribution(c) ==
  /\ known' = Registered(known, c.identifiers)
  /\ runnable' = IF Accepted(known, c.identifiers) = DOMAIN c.identifiers
                 THEN Registered(runnable, c.routines) ELSE runnable
  /\ UNCHANGED <<session, unlocked, memory, granted, exchange, earned>>

(* The code of all groups passes as the code of one DTC.                    *)
ReportDtc(code, status) ==
  /\ memory' = [c \in DOMAIN memory \cup {code} |-> IF c = code THEN status ELSE memory[c]]
  /\ UNCHANGED <<session, unlocked, known, runnable, granted, exchange, earned>>

Forgets(code) == IF code = AllGroups THEN DOMAIN memory ELSE {code}
Cleared(code) == [c \in DOMAIN memory \ Forgets(code) |-> memory[c]]

ClearDtc(code) ==
  /\ memory' = Cleared(code)
  /\ UNCHANGED <<session, unlocked, known, runnable, granted, exchange, earned>>

(* SetAuthorizationPolicy, ClearAuthorizationPolicy.                        *)
SetAuthorizationPolicy(grants) ==
  /\ granted' = grants
  /\ UNCHANGED <<session, unlocked, known, runnable, memory, exchange, earned>>

-----------------------------------------------------------------------------
(* What a tester is answered, in the order each handler looks.              *)

AuthorizeDiagnosticAccess(operation) == operation \in granted

Check(refused, code) == [refused |-> refused, code |-> code]
FirstRefusal(checks) ==
  LET refusing == {i \in DOMAIN checks : checks[i].refused}
  IN  IF refusing = {} THEN "Positive" ELSE checks[Min(refusing)].code

SessionControl(r) == FirstRefusal(<<
  Check(r.length # 1, "IncorrectMessageLength"),
  Check(r.session \notin Sessions, "SubFunctionNotSupported")>>)

(* The seed never changes and need not have been asked for.                 *)
SecurityAccess(r) == FirstRefusal(<<
  Check(r.length = 0, "IncorrectMessageLength"),
  Check(r.sub \notin {"requestSeed", "sendKey"}, "SubFunctionNotSupported"),
  Check(r.sub = "sendKey" /\ r.length # 3, "IncorrectMessageLength"),
  Check(r.sub = "sendKey" /\ ~r.rightKey, "InvalidKey"),
  Check(r.sub = "sendKey" /\ ~AuthorizeDiagnosticAccess("SecurityAccess"), "SecurityAccessDenied")>>)

ReadDataByIdentifier(r) == FirstRefusal(<<
  Check(r.length = 0 \/ r.length % 2 # 0, "IncorrectMessageLength"),
  Check(~AuthorizeDiagnosticAccess("Read"), "SecurityAccessDenied"),
  Check(~(r.ids \subseteq known), "RequestOutOfRange")>>)

ReadDtcInformation(r) == FirstRefusal(<<
  Check(r.length = 0, "IncorrectMessageLength"),
  Check(~AuthorizeDiagnosticAccess("Read"), "SecurityAccessDenied"),
  Check(r.sub \notin {"count", "list"}, "SubFunctionNotSupported")>>)

(* Clearing asks for no session.                                            *)
ClearDiagnosticInformation(r) == FirstRefusal(<<
  Check(~unlocked \/ ~AuthorizeDiagnosticAccess("ClearDtc"), "SecurityAccessDenied"),
  Check(r.length # 3, "IncorrectMessageLength"),
  Check(r.code \notin DOMAIN memory \cup {AllGroups}, "RequestOutOfRange")>>)

RoutineControl(r) == FirstRefusal(<<
  Check(session = "Default", "ConditionsNotCorrect"),
  Check(~unlocked \/ ~AuthorizeDiagnosticAccess("RoutineControl"), "SecurityAccessDenied"),
  Check(r.length < 3, "IncorrectMessageLength"),
  Check(r.sub = "unknown", "SubFunctionNotSupported"),
  Check(r.routine \notin runnable, "RequestOutOfRange")>>)

HandleRequest(r) ==
  CASE r.service = "SessionControl" -> SessionControl(r)
    [] r.service = "SecurityAccess" -> SecurityAccess(r)
    [] r.service = "ReadData" -> ReadDataByIdentifier(r)
    [] r.service = "ReadDtc" -> ReadDtcInformation(r)
    [] r.service = "ClearDtc" -> ClearDiagnosticInformation(r)
    [] r.service = "RoutineControl" -> RoutineControl(r)
    [] OTHER -> "ServiceNotSupported"

Matching(mask) == {c \in DOMAIN memory : memory[c] \cap mask # {}}

(* Length of a response's payload.                                          *)
ResponseBytes(r) ==
  IF HandleRequest(r) # "Positive" THEN 2
  ELSE CASE r.service = "SessionControl" -> 5
         [] r.service = "SecurityAccess" -> IF r.sub = "requestSeed" THEN 3 ELSE 1
         [] r.service = "ReadData" -> (r.length \div 2) * (2 + ValueBytes)
         [] r.service = "ReadDtc" ->
              IF r.sub = "count" THEN 5 ELSE 2 + 4 * Cardinality(Matching(r.mask))
         [] r.service = "ClearDtc" -> 0
         [] OTHER -> 3

(* EncodeSingleFrame: a response that does not fit is not sent, what the    *)
(* request did stays done.                                                  *)
Fits(r) == ResponseBytes(r) + 1 <= FrameBytes

\* Mutated: choosing the session it is in leaves the lock open.
RelocksOnChange(r) == r.session # session

Relocks(r) == TRUE

(* DecodeSingleFrame lets a request through that came on the right CAN id   *)
(* with a length that fits; any other has no effect and no answer.          *)
HandleCanRequest(r) ==
  LET positive == HandleRequest(r) = "Positive"
      chooses == positive /\ r.service = "SessionControl"
      opens == positive /\ r.service = "SecurityAccess" /\ r.sub = "sendKey"
      clears == positive /\ r.service = "ClearDtc"
  IN  /\ session' = IF chooses THEN r.session ELSE session
      /\ unlocked' = ((unlocked \/ opens) /\ ~(chooses /\ Relocks(r)))
      /\ memory' = IF clears THEN Cleared(r.code) ELSE memory
      /\ exchange' = [service |-> r.service,
                      response |-> IF Fits(r) THEN HandleRequest(r) ELSE "Nothing"]
      /\ earned' = ((earned \/ opens) /\ ~chooses)
      /\ UNCHANGED <<known, runnable, granted>>

Requests ==
  [service : {"SessionControl"}, length : {1, 2}, session : Sessions \cup {"Unknown"}]
  \cup [service : {"SecurityAccess"}, length : {0, 2, 3}, sub : {"requestSeed", "sendKey", "unknown"},
        rightKey : BOOLEAN]
  \cup UNION {[service : {"ReadData"}, length : {2 * Cardinality(ids), 3}, ids : {ids}] :
                ids \in SUBSET (Identifiers \cup {Zero})}
  \cup [service : {"ReadDtc"}, length : {0, 2}, sub : {"count", "list", "unknown"}, mask : SUBSET StatusBits]
  \cup [service : {"ClearDtc"}, length : {2, 3}, code : Reported]
  \cup [service : {"RoutineControl"}, length : {2, 3}, sub : {"start", "unknown"},
        routine : Routines \cup {Zero}]
  \cup {[service |-> "Other"]}

DiaNext ==
  \/ \E c \in Contributions : RegisterContribution(c)
  \/ \E code \in Reported :
       \/ \E status \in SUBSET StatusBits : ReportDtc(code, status)
       \/ ClearDtc(code)
  \/ \E grants \in {Grants} \cup {Grants \ {g} : g \in Grants} : SetAuthorizationPolicy(grants)
  \/ \E r \in Requests : HandleCanRequest(r)

DiaSpec == DiaInit /\ [][DiaNext]_diaVars

-----------------------------------------------------------------------------
(* Whatever testers that share the session and the platform that changes    *)
(* the policy do in between: a tester's clearing or routine succeeds only   *)
(* if a right key with a grant came after the last choice of a session, a   *)
(* routine only outside the default session; it is denied only without      *)
(* such a key or without a grant for the operation; and a DTC leaves the    *)
(* memory for a tester only so.                                             *)
ProtectedServices ==
  [][/\ exchange' # exchange /\ exchange'.service \in {"ClearDtc", "RoutineControl"} =>
          /\ exchange'.response \in {"Positive", "Nothing"} =>
               earned /\ (exchange'.service = "RoutineControl" => session # "Default")
          /\ exchange'.response = "SecurityAccessDenied" =>
               ~earned \/ exchange'.service \notin granted
     /\ exchange' # exchange /\ ~(DOMAIN memory \subseteq DOMAIN memory') =>
          earned /\ exchange'.service = "ClearDtc"]_diaVars
=============================================================================
