---------------------------- MODULE ErrorClasses ----------------------------
(***************************************************************************)
(* The two error classifiers of crates/core/src/routing/mod.rs and the     *)
(* fallback policy that is built on one of them.                           *)
(*                                                                         *)
(* An upstream error carries an HTTP status, a provider error code and a   *)
(* message.  classify_structured reads the status and the code;            *)
(* classify_error searches the message text.  Codes and texts are          *)
(* abstracted to the first group of substrings they contain.               *)
(***************************************************************************)
EXTENDS Naturals

CONSTANTS
  ErrorStatuses,   \* the upstream HTTP statuses,
  ErrorCodes,      \* the provider codes and
  ErrorTexts       \* the message texts that occur in a model

NoStatus == 0             \* upstream_status = None

ErrorClass ==
  {"Transient", "RateLimited", "Auth", "BadRequest", "LossyOrCapability",
   "ModelNotFound", "DeadlineExceeded", "UpstreamExhausted", "AuthMissing",
   "AuthInvalid", "AuthDisabled", "ModelAccessDenied", "Overloaded"}

\* What the provider's error code contains ("none": there is no code).
CodeGroups == {"none", "rate_limit", "auth", "bad_request", "overloaded",
               "timeout", "not_found", "other"}

\* What the message contains, in the order in which classify_error looks.
TextGroups == {"429", "401", "400", "lossy", "other"}

RetryAfter == {"absent", "seconds", "unparsable"}

ASSUME ErrorAssumption ==
  /\ ErrorStatuses \subseteq Nat
  /\ ErrorCodes \subseteq CodeGroups /\ "none" \in ErrorCodes
  /\ ErrorTexts \subseteq TextGroups

AppError == [status : ErrorStatuses \cup {NoStatus}, code : ErrorCodes,
             text : ErrorTexts, retry_after : RetryAfter]

ClassifyUpstreamError(status, code) ==
  CASE status = 429 -> "RateLimited"
    [] status \in {401, 403} -> "Auth"
    [] status \in {400, 422} -> "BadRequest"
    [] status = 404 -> "ModelNotFound"
    [] status = 503 -> "Overloaded"
    [] status = 504 -> "DeadlineExceeded"
    [] OTHER -> CASE code = "rate_limit" -> "RateLimited"
                  [] code = "auth" -> "Auth"
                  [] code = "bad_request" -> "BadRequest"
                  [] code = "overloaded" -> "Overloaded"
                  [] code = "timeout" -> "DeadlineExceeded"
                  [] code = "not_found" -> "ModelNotFound"
                  [] OTHER -> "Transient"

ClassifyError(text) ==
  CASE text = "429" -> "RateLimited"
    [] text = "401" -> "Auth"
    [] text = "400" -> "BadRequest"
    [] text = "lossy" -> "LossyOrCapability"
    [] OTHER -> "Transient"

\* The class logged for a failed hop, which also drives cooling and the account
\* skip: the structured one when the error has a status or a code.
Classification(e) ==
  IF e.status # NoStatus \/ e.code # "none"
  THEN ClassifyUpstreamError(e.status, e.code)
  ELSE ClassifyError(e.text)

TryNextClasses == {"Transient", "RateLimited", "Auth", "DeadlineExceeded",
                   "Overloaded"}

\* A plausible slip of classify: the attempt budget is off by one.
BugFallbackDecision(e, attempt, maxAttempts) ==
  IF attempt > maxAttempts THEN "Fail"
  ELSE IF ClassifyError(e.text) \in TryNextClasses THEN "TryNext" ELSE "Fail"

\* DefaultFallbackPolicy::classify, called with bytes_emitted = 0.  The error it
\* is given is rebuilt from the message alone.
FallbackDecision(e, attempt, maxAttempts) ==
  IF attempt >= maxAttempts THEN "Fail"
  ELSE IF ClassifyError(e.text) \in TryNextClasses THEN "TryNext" ELSE "Fail"

\* The errors an executor returns: a rejection or an error body under a success
\* status, whose text is the provider's own and tells nothing of the status; a
\* timeout of the gateway (504); a transport failure, without status and code.
\* A Retry-After header matters, and is kept, only on a rate-limited answer.
UpstreamErrors ==
  {e \in AppError :
     /\ e.status = NoStatus => e.code = "none"
     /\ e.retry_after # "absent" => Classification(e) = "RateLimited"
                                      /\ e.status # NoStatus}
=============================================================================
