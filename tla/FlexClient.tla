----------------------------- MODULE FlexClient -----------------------------
(***************************************************************************)
(* What a call of the Flex web service can end with, once ingest/retry.py, *)
(* ingest/flex/client.py and the loop of the wizard around them have       *)
(* answered for IBKR's replies.  There is no state: a call is a sequence   *)
(* of replies, one for each attempt it may make, and ends with one of      *)
(* them.  Delays are left out.                                             *)
(*                                                                         *)
(*   "ref"        SendRequest accepted, with a reference code              *)
(*   "auth"       ErrorCode of ERR_AUTH_CODES       (FlexAuthError)        *)
(*   "notFound"   ErrorCode 1005                    (FlexQueryNotFound)    *)
(*   "busy"       ErrorCode 1001                    (FlexBusyError)        *)
(*   "pending"    ErrorCode 1019                    (FlexStatementPending) *)
(*   "client"     any other refusal, or no XML      (FlexClientError)      *)
(*   "network", "timeout", "http4xx", "http5xx"     httpx's own exceptions *)
(*   "body"       GetStatement delivered a body: a statement, or whatever  *)
(*                else _is_pending takes for one                           *)
(***************************************************************************)
EXTENDS Naturals, Sequences, SequencesExt

CONSTANTS
  SendAttempts,   \* SEND_REQUEST_POLICY.max_attempts
  PollAttempts,   \* POLL_STATEMENT_POLICY.max_attempts
  FetchRounds     \* len(_DETECT_RETRY_DELAYS) + 1

ASSUME ClientAssumption ==
  SendAttempts \in Nat \ {0} /\ PollAttempts \in Nat \ {0} /\ FetchRounds \in Nat \ {0}

\* The reply of the first attempt that is not to be retried, or that of the last one.
ExecuteWithRetry(replies, Retryable) ==
  LET i == SelectInSeq(replies, LAMBDA reply : reply \notin Retryable)
  IN  IF i = 0 THEN Last(replies) ELSE replies[i]

\* What execute_with_retry can end with if every attempt gets one of Replies.
Outcomes(Replies, Retryable, attempts) ==
  {ExecuteWithRetry(replies, Retryable) : replies \in [1..attempts -> Replies]}

Transport == {"network", "timeout", "http4xx", "http5xx"}

\* _send_request_once: the answer of SendRequest as _parse_send_response reads it.
SendReplies == {"ref", "auth", "notFound", "busy", "client"} \cup Transport
SendOutcomes == Outcomes(SendReplies, {"busy", "network", "http5xx"}, SendAttempts)

\* _poll_once: only error 1019 is pending, every other body counts as delivered.
PollReplies == {"body", "pending"} \cup Transport
PollOutcomes ==
  {IF o = "pending" THEN "pollTimeout" ELSE o : o \in Outcomes(PollReplies, {"pending"}, PollAttempts)}

\* One round of _fetch_statement_with_retry, and all of them: busy alone is retried.
RoundOutcomes == (SendOutcomes \ {"ref"}) \cup PollOutcomes
FetchOutcomes == Outcomes(RoundOutcomes, {"busy"}, FetchRounds)

\* _classify_detect_failure.
FailureClass(o) ==
  CASE o \in {"auth", "notFound"}                -> "auth"
    [] o \in {"busy", "client", "pollTimeout"}   -> "transient"
    [] OTHER                                     -> "data"
=============================================================================
