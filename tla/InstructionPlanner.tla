------------------------- MODULE InstructionPlanner -------------------------
(***************************************************************************)
(* How an instruction becomes a plan: parse_instruction asks a backend for *)
(* one, and once more when the reply is refused; the backend is            *)
(* OpenAICompatBackend, which retries its HTTP request, under              *)
(* FallbackBackend, which answers by rules when the model server fails.    *)
(* One backend object serves session after session (hospital_server), so   *)
(* what FallbackBackend remembers of one session is there in the next.     *)
(*                                                                         *)
(* A reply is "valid" or "refused", by the schema or by the scene; what is *)
(* sent and what is planned are left out.                                  *)
(***************************************************************************)
EXTENDS Integers, Sequences

CONSTANTS
  MaxSessions,   \* bound: instructions given to one process
  MaxAttempts,   \* OpenAICompatBackend.max_attempts
  Faults         \* what a request to the model server may run into

(* "retryable" covers 408 to 504 and a refused connection; "rejected" any    *)
(* other HTTP error; "garbled" a body that is not JSON; "misshapen" JSON     *)
(* without choices; "dropped" a connection lost, or silent past timeout_s,   *)
(* after the request was sent: urllib lets that OSError through unwrapped.   *)
Fault == {"retryable", "rejected", "garbled", "misshapen", "dropped"}

ASSUME SessionsAssumption == MaxSessions \in Nat
ASSUME AttemptsAssumption == MaxAttempts \in Nat \ {0}
ASSUME FaultsAssumption == Faults \subseteq Fault

VARIABLES
  fallback,        \* make_backend(fallback=...): there is one; fixed when the process starts
  pc,              \* where run_session is, up to the end of the parse
  attempt,         \* parse_instruction's attempt
  tries,           \* _post's attempt
  reply,           \* what complete() returned, and who wrote it
  served_by,       \* FallbackBackend.served_by
  degrade_reason,  \* FallbackBackend.degrade_reason is not None
  records,         \* the sessions so far: their outcome and result.llm
  posts            \* history: requests sent in this session

vars == <<fallback, pc, attempt, tries, reply, served_by, degrade_reason, records, posts>>

Backends == {"model", "rules"}
NoReply == [kind |-> "none", by |-> "none"]
Replies == [kind : {"valid", "refused"}, by : Backends] \cup {NoReply}

TypeOK ==
  /\ fallback \in BOOLEAN
  /\ pc \in {"idle", "post", "failed", "reply"}
  /\ attempt \in 1..2
  /\ tries \in 1..MaxAttempts
  /\ reply \in Replies
  /\ served_by \in Backends \cup {"none"}
  /\ degrade_reason \in BOOLEAN
  /\ records \in Seq([outcome : {"planned", "parse_error", "crashed"}, by : Backends \cup {"none"},
                      served_by : Backends \cup {"none"}, degraded : BOOLEAN])
  /\ Len(records) <= MaxSessions
  /\ posts \in Nat

Init ==
  /\ fallback \in BOOLEAN
  /\ pc = "idle" /\ attempt = 1 /\ tries = 1 /\ reply = NoReply
  /\ served_by = "none" /\ degrade_reason = FALSE
  /\ records = <<>> /\ posts = 0

-----------------------------------------------------------------------------
(* Mutant: a bare backend is asked for what FallbackBackend remembers.       *)
RecordUnwrapped(outcome, by) ==
  [outcome |-> outcome, by |-> by, served_by |-> served_by, degraded |-> degrade_reason]

(* describe_backend: a bare OpenAICompatBackend is always what served.       *)
Record(outcome, by) ==
  [outcome   |-> outcome,
   by        |-> by,
   served_by |-> IF fallback THEN served_by ELSE "model",
   degraded  |-> fallback /\ degrade_reason]

EndSession(outcome, by) ==
  /\ records' = Append(records, Record(outcome, by))
  /\ pc' = "idle"
  /\ attempt' = 1 /\ tries' = 1 /\ reply' = NoReply /\ posts' = 0
  /\ UNCHANGED <<fallback, served_by, degrade_reason>>

Begin ==
  /\ pc = "idle" /\ Len(records) < MaxSessions
  /\ pc' = "post"
  /\ UNCHANGED <<fallback, attempt, tries, reply, served_by, degrade_reason, records, posts>>

(* An instruction of blanks is refused before anybody is asked.              *)
BeginEmpty ==
  /\ pc = "idle" /\ Len(records) < MaxSessions
  /\ EndSession("parse_error", "none")

(* The model server answers the request that _post has just sent.            *)
ModelAnswers(kind) ==
  /\ pc = "post"
  /\ reply' = [kind |-> kind, by |-> "model"]
  /\ posts' = posts + 1
  /\ pc' = "reply"
  /\ served_by' = IF fallback THEN "model" ELSE served_by
  /\ UNCHANGED <<fallback, attempt, tries, degrade_reason, records>>

(* Mutant: _post keeps asking for as long as it is told to come back.        *)
RetryPostForever ==
  /\ pc = "post" /\ "retryable" \in Faults
  /\ tries' = IF tries < MaxAttempts THEN tries + 1 ELSE 1
  /\ UNCHANGED <<fallback, pc, attempt, reply, served_by, degrade_reason, records, posts>>

(* _post sleeps and asks again.                                              *)
RetryPost ==
  /\ pc = "post" /\ "retryable" \in Faults /\ tries < MaxAttempts
  /\ tries' = tries + 1 /\ posts' = posts + 1
  /\ UNCHANGED <<fallback, pc, attempt, reply, served_by, degrade_reason, records>>

(* _post gives up: its last attempt failed, or the fault is not worth one.   *)
PostFails ==
  /\ pc = "post"
  /\ \/ Faults \cap {"rejected", "garbled", "misshapen"} # {}
     \/ "retryable" \in Faults /\ tries = MaxAttempts
  /\ posts' = posts + 1
  /\ pc' = "failed"
  /\ UNCHANGED <<fallback, attempt, tries, reply, served_by, degrade_reason, records>>

(* Only LLMError is caught on the way up: run_session ends by an exception.  *)
PostDropped ==
  /\ pc = "post" /\ "dropped" \in Faults
  /\ EndSession("crashed", "none")

(* FallbackBackend catches the LLMError and answers by rules.                *)
Degrade(kind) ==
  /\ pc = "failed" /\ fallback
  /\ reply' = [kind |-> kind, by |-> "rules"]
  /\ served_by' = "rules" /\ degrade_reason' = TRUE
  /\ pc' = "reply"
  /\ UNCHANGED <<fallback, attempt, tries, records, posts>>

(* Without a fallback the LLMError becomes a ParseError.                     *)
BackendFails ==
  /\ pc = "failed" /\ ~fallback
  /\ EndSession("parse_error", "none")

Accept ==
  /\ pc = "reply" /\ reply.kind = "valid"
  /\ EndSession("planned", reply.by)

(* The one retry, with the errors appended to the instruction.               *)
AskAgain ==
  /\ pc = "reply" /\ reply.kind = "refused" /\ attempt = 1
  /\ attempt' = 2 /\ tries' = 1
  /\ pc' = "post"
  /\ UNCHANGED <<fallback, reply, served_by, degrade_reason, records, posts>>

Refuse ==
  /\ pc = "reply" /\ reply.kind = "refused" /\ attempt = 2
  /\ EndSession("parse_error", "none")

(* No instruction is left.                                                   *)
Finished ==
  /\ pc = "idle" /\ Len(records) = MaxSessions
  /\ UNCHANGED vars

-----------------------------------------------------------------------------
ParseStep ==
  \/ RetryPost \/ PostFails \/ PostDropped \/ BackendFails \/ Accept \/ AskAgain \/ Refuse
  \/ \E kind \in {"valid", "refused"} : ModelAnswers(kind) \/ Degrade(kind)

Next == Begin \/ BeginEmpty \/ ParseStep \/ Finished

Spec == Init /\ [][Next]_vars

(* Every request comes back, be it by its timeout: the parse runs on.        *)
FairSpec == Spec /\ WF_vars(ParseStep)

-----------------------------------------------------------------------------
Planned == {i \in 1..Len(records) : records[i].outcome = "planned"}

(* The audit trail names who planned, whatever the attempts and the sessions *)
(* before it did: the backend that wrote the accepted reply served, and no   *)
(* plan of the rules passes for one of the model ("It is not silent").       *)
AuditTrailIsTrue ==
  \A i \in Planned :
    /\ records[i].served_by = records[i].by
    /\ records[i].by = "rules" => records[i].degraded

(* One instruction costs at most two completions' worth of requests.         *)
RequestsAreBounded == posts <= 2 * MaxAttempts

(* "A retry loop that hangs on stage is worse than a clean failure": every   *)
(* parse ends, even when the server never answers and every reply is refused.*)
ParseEnds == pc # "idle" ~> pc = "idle"
=============================================================================
