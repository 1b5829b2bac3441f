---------------------------- MODULE DeepSeeClient ----------------------------
(***************************************************************************)
(* DeepSeeClient (app/connectors/deepsee/client.py) with the credential    *)
(* of auth.py and the gate every wire operation of the service passes      *)
(* (_enter_call, mock_service.py:294): one operation of one caller, which  *)
(* resolves its credential, calls, sleeps and calls again.  The queue of   *)
(* injected failures (_failures) is shared by all callers of the service   *)
(* and filled from outside at any time, so what a call finds at its head   *)
(* is left open; so are the environment variable of the credential and     *)
(* what is wrong with a response.                                          *)
(***************************************************************************)
EXTENDS Integers, Sequences

CONSTANTS
  MaxRetries,    \* max_retries
  BackoffBase,   \* backoff_base_ms
  BackoffCap,    \* backoff_cap_ms
  RetryAfter,    \* retry_after_ms of a rate-limit error
  ChecksAge,     \* is max_data_age set?
  Accesses       \* the configurations of authentication to consider

ASSUME DelayAssumption ==
  /\ MaxRetries \in Nat /\ BackoffBase \in Nat
  /\ BackoffCap \in Nat /\ RetryAfter \in Nat
\* The provers do not know exponentiation: a doubled delay is a number.
ASSUME BackoffAssumption == \A n \in 0 .. MaxRetries : BackoffBase * 2 ^ n \in Nat
ASSUME ChecksAgeAssumption == ChecksAge \in BOOLEAN

\* Is a credential_reference configured, does the service require_auth?
Access == [reference : BOOLEAN, require_auth : BOOLEAN]

ASSUME AccessesAssumption == Accesses \subseteq Access

\* DeepSeeRetryableError and its subclasses; the other kinds are terminal.
Transient == {"retryable", "timeout", "rate_limit"}
FailureKinds == Transient \cup {"terminal", "auth"}

\* What may be wrong with a response: older than the bound; keys of another
\* type; ids that are no integers, or a bitmap of too many bytes or of another
\* encoding; a bitmap whose bytes do not decode; rows nobody asked for.
Defects == {"none", "stale", "key_type", "contents", "malformed", "unfiltered"}

\* "decode" is the engine's.
Errors == FailureKinds \cup {"credential", "stale", "contract", "key_error", "decode"}

VARIABLES
  access,    \* _credential_reference and require_auth
  at,        \* the caller's next step
  attempt,   \* attempt
  token,     \* was a token resolved for this operation?
  slept,     \* milliseconds this operation has slept
  error,     \* the exception the caller got, or "none"
  tries      \* auxiliary: calls of the service by this operation

callVars == <<attempt, token, slept, tries>>
clientVars == <<access, at, callVars, error>>

\* A query's steps between operations of the client are QueryService's.
Steps == {"idle", "token", "call", "sleep", "resolved", "evidenced"}

ClientTypeOK ==
  /\ access \in Access
  /\ at \in Steps
  /\ attempt \in 0 .. MaxRetries
  /\ token \in BOOLEAN
  /\ slept \in Nat /\ tries \in Nat
  /\ error \in Errors \cup {"none"}

ClientInit ==
  /\ access \in Accesses
  /\ at = "idle" /\ attempt = 0 /\ token = FALSE /\ slept = 0 /\ tries = 0
  /\ error = "none"

-----------------------------------------------------------------------------
(* An operation: _token(), then _call_with_retry()                         *)

\* The exception leaves the client, the provider and the engine's query.
Raise(kind) == at' = "idle" /\ error' = kind

\* The environment variable is not set.
CredentialMissing ==
  /\ at = "token" /\ access.reference
  /\ Raise("credential")
  /\ UNCHANGED <<access, callVars>>

ResolveToken ==
  /\ at = "token"
  /\ token' = access.reference
  /\ at' = "call" /\ attempt' = 0 /\ slept' = 0 /\ tries' = 0
  /\ UNCHANGED <<access, error>>

Lesser(a, b) == IF a < b THEN a ELSE b

\* Mutant of RetryDelay: a delay the server asks for is not capped.
RetryDelay_Uncapped(kind, n) ==
  IF kind = "rate_limit" THEN RetryAfter ELSE Lesser(BackoffBase * 2 ^ n, BackoffCap)

\* _retry_delay_seconds()
RetryDelay(kind, n) ==
  Lesser(IF kind = "rate_limit" THEN RetryAfter ELSE BackoffBase * 2 ^ n, BackoffCap)

\* Every call of the service counts.
CallService ==
  /\ at = "call"
  /\ tries' = tries + 1
  /\ UNCHANGED <<access, attempt, token>>

\* Mutant of Retries: one attempt too many.
Retries_OnceMore(kind) == kind \in Transient /\ attempt <= MaxRetries

Retries(kind) == kind \in Transient /\ attempt < MaxRetries

\* The head of the queue is a failure of this kind, and the client retries.
BackOff(kind) ==
  /\ CallService
  /\ Retries(kind)
  /\ slept' = slept + RetryDelay(kind, attempt)
  /\ at' = "sleep"
  /\ UNCHANGED error

GiveUp(kind) ==
  /\ CallService
  /\ ~Retries(kind)
  /\ Raise(kind)
  /\ UNCHANGED slept

\* Mutant of WakeUp: the operation starts again, its attempts forgotten.
WakeUp_FromScratch ==
  /\ at = "sleep"
  /\ at' = "token"
  /\ UNCHANGED <<access, callVars, error>>

WakeUp ==
  /\ at = "sleep"
  /\ at' = "call" /\ attempt' = attempt + 1
  /\ UNCHANGED <<access, token, slept, tries, error>>

\* No failure is queued: the service looks at the token.
Refused ==
  /\ CallService
  /\ access.require_auth /\ ~token
  /\ Raise("auth")
  /\ UNCHANGED slept

\* The operation has its answer; its locals are gone.
ForgetCall == attempt' = 0 /\ token' = FALSE /\ slept' = 0 /\ tries' = 0

Answers ==
  /\ at = "call" /\ (access.require_auth => token)
  /\ ForgetCall
  /\ UNCHANGED access

\* _validate_freshness for every response; for a snapshot page also
\* _validate_key_type and _validate_bitmap_payload or _validate_entity_ids.
\* Whether a bitmap decodes is not looked at.
Stale(defect) == defect = "stale" /\ ChecksAge
BreaksContract(defect) == defect \in {"key_type", "contents"}

CallStep ==
  \/ CredentialMissing \/ ResolveToken
  \/ \E kind \in FailureKinds : BackOff(kind) \/ GiveUp(kind)
  \/ WakeUp \/ Refused

-----------------------------------------------------------------------------
(* Correctness *)

\* An operation calls the service at most max_retries + 1 times, gives up a
\* transient failure only after the last of them, and its sleeps add up to no
\* more than max_retries capped delays, whatever the service asks for and
\* however often it fails (client.py:155-176).
RetryBudget ==
  /\ tries <= MaxRetries + 1
  /\ error \in Transient => tries = MaxRetries + 1
  /\ slept <= MaxRetries * BackoffCap
=============================================================================
