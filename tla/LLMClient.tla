------------------------------ MODULE LLMClient ------------------------------
(***************************************************************************)
(* A question to the language model (agents/llm): the session asks the     *)
(* provider, asks again after a failure that may pass, waits as long as a  *)
(* rate limit says, and reads the answer as one JSON object.               *)
(*                                                                         *)
(* A call is a record the caller keeps while it waits; the provider's      *)
(* reply is arbitrary.  Times are seconds.                                 *)
(***************************************************************************)
EXTENDS Integers

CONSTANTS
  MaxRetries_LLM,   \* LLMConfig.max_retries
  MAX_RETRY_AFTER_S \* the longest rate limit worth waiting for

ASSUME LLMClientAssumption == MaxRetries_LLM \in Nat /\ MAX_RETRY_AFTER_S \in Nat

NoHint == -1

(* What the provider sends back.  how: "answer" is an HTTP response, the     *)
(* others an exception of the transport.  wait and exhausted are the hints   *)
(* of a 429.  text: what the message content is; says: the JSON value in it. *)
Reply(how, status, wait, exhausted, text, says) ==
  [how |-> how, status |-> status, wait |-> wait, exhausted |-> exhausted, text |-> text, says |-> says]

Texts == {"object", "fenced", "within prose", "array", "no json", "blank", "filtered", "not a chat answer"}

-----------------------------------------------------------------------------
(* The exceptions, and which of them are worth another try. *)

LLMError(name, wait, exhausted) == [name |-> name, wait |-> wait, exhausted |-> exhausted]

NoError == LLMError("", NoHint, FALSE)

Plain(name) == LLMError(name, NoHint, FALSE)

\* mutant: a rate limit is always worth another try
RetriesRateLimits(e) ==
  e.name \in {"LLMTimeoutError", "LLMConnectionError", "LLMProviderError", "LLMRateLimitError"}

is_retryable(e) ==
  \/ e.name \in {"LLMTimeoutError", "LLMConnectionError", "LLMProviderError"}
  \/ e.name = "LLMRateLimitError" /\ ~e.exhausted /\ e.wait <= MAX_RETRY_AFTER_S

-----------------------------------------------------------------------------
(* APIProvider.generate, then the session's _normalize_response. *)

_raise_for_status(r) ==
  CASE r.status < 400          -> NoError
    [] r.status \in {401, 403} -> Plain("LLMAuthenticationError")
    [] r.status = 429          -> LLMError("LLMRateLimitError", r.wait, r.exhausted)
    [] r.status >= 500         -> Plain("LLMProviderError")
    [] OTHER                   -> Plain("LLMRequestValidationError")

provider_parse_response(r) == IF r.text = "not a chat answer" THEN Plain("LLMResponseError") ELSE NoError

(* Empty content, and the finish reason content_filter stands for. *)
_normalize_response(r) == IF r.text \in {"blank", "filtered"} THEN Plain("LLMResponseError") ELSE NoError

(* An exception that is not the provider's own is wrapped and not retried. *)
provider_generate(r) ==
  CASE r.how = "timeout" -> Plain("LLMTimeoutError")
    [] r.how = "network" -> Plain("LLMConnectionError")
    [] r.how = "crash"   -> Plain("Unexpected")
    [] OTHER -> IF _raise_for_status(r) # NoError THEN _raise_for_status(r)
                ELSE IF provider_parse_response(r) # NoError THEN provider_parse_response(r)
                ELSE _normalize_response(r)

(* loads_json_object: plain, in a code fence, or the outermost braces. *)
loads_json_object(r) == r.text \in {"object", "fenced", "within prose", "array"}

(* generate_json on a response: an object, or an error of the answer. *)
parse_json(r) == IF loads_json_object(r) /\ r.text # "array" THEN NoError ELSE Plain("LLMResponseError")

-----------------------------------------------------------------------------
(* LLMClientSession.generate_json.  attempts counts the requests sent; slept *)
(* is the time spent in rate limits.                                         *)

NoCall == [pc |-> "none", attempts |-> 0, slept |-> 0, error |-> NoError, says |-> "nothing"]

Asking == [NoCall EXCEPT !.pc = "asking"]

Waits(e) == IF e.name = "LLMRateLimitError" /\ e.wait > 0 THEN e.wait ELSE 0

(* The call after reply r to the request it sent. *)
Attempted(call, r) ==
  LET n     == call.attempts + 1
      error == provider_generate(r)
  IN CASE error = NoError ->
            [call EXCEPT !.attempts = n, !.pc = IF parse_json(r) = NoError THEN "answered" ELSE "failed",
                         !.error = parse_json(r), !.says = IF parse_json(r) = NoError THEN r.says ELSE "nothing"]
       [] error # NoError /\ is_retryable(error) /\ n < 1 + MaxRetries_LLM ->
            [call EXCEPT !.attempts = n, !.slept = @ + Waits(error)]
       [] OTHER -> [call EXCEPT !.attempts = n, !.pc = "failed", !.error = error]
=============================================================================
