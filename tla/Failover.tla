------------------------------ MODULE Failover ------------------------------
(***************************************************************************)
(* The network layer of one command run (src/src/yubtc/net.py): the retry  *)
(* loop around every HTTP request, the request methods of the backends and *)
(* their reading of an answer, and AutoBackend's walk over the providers.  *)
(*                                                                         *)
(* A server may serve a request and lose its answer, be busy, refuse, or   *)
(* send a body that is not the one the endpoint promises.  Times are in    *)
(* milliseconds.                                                           *)
(***************************************************************************)
EXTENDS Integers, Sequences, FiniteSets

CONSTANTS
    Kind,         \* sequence of the registered backends' classes
    Retries,      \* --retries
    MaxCalls,     \* requests of the wallet in one run
    BaseDelay, MaxDelay, RetryAfterMax,  \* fwd.py, HTTP_RETRY_*
    RetryAfters   \* Retry-After headers a server sends; -1: none or garbage

ASSUME KindAssumption ==
    /\ Kind \in Seq({"blockchain.info", "esplora"})
    /\ Kind # <<>>
ASSUME LimitsAssumption ==
    /\ Retries \in Nat /\ MaxCalls \in Nat
    /\ BaseDelay \in Nat /\ MaxDelay \in Nat /\ RetryAfterMax \in Nat
    /\ MaxDelay <= RetryAfterMax
    /\ RetryAfters \subseteq Int

Backends == DOMAIN Kind
Ops == {"get_unspent", "get_info", "send_tx", "raw_transaction"}

\* ok: 2xx; refused: a 4xx that is not 408 or 429; limited: 429;
\* busy: 5xx or 408; fault: ConnectionError or Timeout, no answer at all.
Responses == {"ok", "refused", "limited", "busy", "fault"}
\* data: what the endpoint promises; text: not JSON; alien: a JSON object
\* without the promised fields; blank: the empty one; null: other false JSON.
Bodies == {"data", "text", "alien", "blank", "null"}

VARIABLES
    provider,   \* 0 for "auto", else the one backend chosen
    preferred,  \* AutoBackend._preferred, 0 for None
    calls,      \* requests made so far
    method,     \* the method called last
    pos,        \* how many backends the walk has left behind
    attempt,    \* 0-based attempt of the current HTTP request
    page,       \* what the first of the two requests of Esplora's
                \* get_unspent brought: "data" or "junk"; "none" before
    slept,      \* time slept in the current HTTP request
    trail,      \* the backends that failed in this request, in order
    refusals,   \* backend, is it the tip request -> how often refused
    outcome,    \* of that method: "running", "answered" or "raised"
    answer,     \* what the wallet was told: "data" or "empty"
    mempool     \* the transaction has been accepted by the network

net == <<provider, preferred, calls, method, pos, attempt, page, slept, trail,
         refusals, outcome, answer, mempool>>

\* The request under way is the one for the height of the chain.
tip == page # "none"

----------------------------------------------------------------------------
(* The retry policy *)

\* Mutant: every error status is retried.
Retryable_AnyError(response) == response # "ok"

\* Transport faults and _is_retryable_status.
Retryable(response) == response \in {"limited", "busy", "fault"}

\* The base delay, doubled for each attempt before.
Doubled[n \in 0..Retries] == IF n = 0 THEN BaseDelay ELSE 2 * Doubled[n - 1]

Backoff(n) == IF Doubled[n] < MaxDelay THEN Doubled[n] ELSE MaxDelay

\* Mutant: the header is not clamped.
Delay_AnyHeader(response, header) ==
    IF response = "limited" /\ header >= 0 THEN header ELSE Backoff(attempt)

\* The server's Retry-After on a 429 when it is sane, else the backoff.
Delay(response, header) ==
    IF response = "limited" /\ header \in 0..RetryAfterMax
    THEN header ELSE Backoff(attempt)

----------------------------------------------------------------------------
(* What a backend's method makes of the terminal response *)

\* raw_transaction returns any body: an error page is taken for the hex.
\* blockchain.info reads a body that is not JSON as "nothing there"; Esplora
\* does so with an address record without its statistics, and with a page of
\* outputs that is false.
MaskedBodies(kind) ==
    CASE method = "raw_transaction" -> Bodies \ {"data"}
      [] method = "get_info" -> IF kind = "esplora" THEN {"alien", "blank"} ELSE {"text"}
      [] method = "get_unspent" /\ kind # "esplora" -> {"text"}
      [] method = "get_unspent" /\ kind = "esplora" /\ ~tip -> {"blank", "null"}
      [] OTHER -> {}

\* Mutant: the status of the broadcast is not looked at.
Reading_NoStatus(kind, response, body) ==
    IF response = "fault" THEN "error"
    ELSE CASE body = "data" \/ method = "send_tx" -> "data"
           [] body \in MaskedBodies(kind) -> "empty"
           [] OTHER -> "error"

\* "data" and "empty" are returned, "error" is raised.  Only send_tx looks
\* at the status: the reads decode whatever came.  A page of outputs that is
\* "junk" is found out when its entries are read, after the tip is known.
Reading(kind, response, body) ==
    CASE method = "send_tx" -> IF response = "ok" THEN "data" ELSE "error"
      [] method # "send_tx" /\ response # "fault" /\ body = "data" /\ page # "junk" -> "data"
      [] method # "send_tx" /\ response # "fault" /\ body \in MaskedBodies(kind) -> "empty"
      [] /\ kind = "esplora" /\ method = "get_unspent" /\ ~tip
         /\ response # "fault" /\ body = "alien" -> "junk"
      [] OTHER -> "error"

\* Mutant: the tip answer is taken for a page of outputs that has a tip.
MayAskTip_EveryAnswer(kind, reading) ==
    kind = "esplora" /\ method = "get_unspent" /\ reading \in {"data", "junk"}

\* Esplora.get_unspent asks for the tip unless the page it has got is false,
\* whatever the status was: a refusal with an object as its body is followed
\* by the second request.
MayAskTip(kind, reading) ==
    kind = "esplora" /\ method = "get_unspent" /\ ~tip /\ reading \in {"data", "junk"}

----------------------------------------------------------------------------
(* The walk over the backends *)

\* Mutant: no wrapping around, the walk ends at the last backend.
WalkOrder_NoWrap ==
    IF provider # 0 THEN <<provider>>
    ELSE LET start == IF preferred = 0 THEN 1 ELSE preferred
         IN  [n \in 1..(Len(Kind) - start + 1) |-> start + n - 1]

\* Preferred first, the rest of the list wrapping around.
WalkOrder ==
    IF provider # 0 THEN <<provider>>
    ELSE LET start == IF preferred = 0 THEN 0 ELSE preferred - 1
         IN  [n \in 1..Len(Kind) |-> ((start + n - 1) % Len(Kind)) + 1]

Current == WalkOrder[pos + 1]

----------------------------------------------------------------------------
NetInit ==
    /\ provider \in {0} \cup Backends
    /\ preferred = 0
    /\ calls = 0
    /\ method = "none" /\ outcome = "answered" /\ answer = "data"
    /\ pos = 0 /\ attempt = 0 /\ page = "none" /\ slept = 0
    /\ trail = <<>>
    /\ refusals = [request \in Backends \X BOOLEAN |-> 0]
    /\ mempool = FALSE

\* The wallet calls a method of its backend; a command broadcasts last.
CallMethod ==
    /\ outcome # "running"
    /\ calls < MaxCalls
    /\ method # "send_tx"
    /\ method' \in Ops
    /\ calls' = calls + 1
    /\ outcome' = "running" /\ answer' = "data"
    /\ pos' = 0 /\ attempt' = 0 /\ page' = "none" /\ slept' = 0
    /\ trail' = <<>>
    /\ refusals' = [request \in Backends \X BOOLEAN |-> 0]
    /\ UNCHANGED <<provider, preferred, mempool>>

\* What servers do with a request.  A broadcast is accepted at most once;
\* whoever is asked again may answer that the transaction is known, which is
\* a refusal.  An accepted broadcast may still be answered by a timeout.
\* What the endpoint promises comes with a good status only.
Exchanged(response, body) ==
    /\ response \in Responses /\ body \in Bodies
    /\ body = "data" => response = "ok"
    /\ mempool' \in BOOLEAN /\ (mempool => mempool')
    /\ mempool' => mempool \/ (method = "send_tx" /\ response # "refused")
    /\ method = "send_tx" /\ response = "ok" => mempool'
    /\ refusals' = IF response = "refused"
                   THEN [refusals EXCEPT ![<<Current, tip>>] = @ + 1] ELSE refusals

\* Mutant: one repetition more than --retries.
Repeat_OneMore(response, header) ==
    /\ attempt <= Retries
    /\ Retryable(response)
    /\ slept' = slept + Delay(response, header)
    /\ attempt' = attempt + 1
    /\ UNCHANGED <<provider, preferred, calls, method, pos, page, trail, outcome, answer>>

\* The loop of _request_with_retries goes round.
Repeat(response, header) ==
    /\ attempt < Retries
    /\ Retryable(response)
    /\ slept' = slept + Delay(response, header)
    /\ attempt' = attempt + 1
    /\ UNCHANGED <<provider, preferred, calls, method, pos, page, trail, outcome, answer>>

Terminal(response) == ~Retryable(response) \/ attempt >= Retries

\* A second HTTP request within the same method.
AskTip(response, body) ==
    /\ Terminal(response)
    /\ MayAskTip(Kind[Current], Reading(Kind[Current], response, body))
    /\ page' = Reading(Kind[Current], response, body)
    /\ attempt' = 0 /\ slept' = 0
    /\ UNCHANGED <<provider, preferred, calls, method, pos, trail, outcome, answer>>

\* The method returns; AutoBackend remembers who answered.
Answer(response, body) ==
    /\ Terminal(response)
    /\ Reading(Kind[Current], response, body) \in {"data", "empty"}
    /\ answer' = Reading(Kind[Current], response, body)
    /\ outcome' = "answered"
    /\ preferred' = IF provider = 0 THEN Current ELSE preferred
    /\ UNCHANGED <<provider, calls, method, pos, attempt, page, slept, trail>>

\* The method raises: on to the next backend, or up to the caller.
Fail(response, body) ==
    /\ Terminal(response)
    /\ Reading(Kind[Current], response, body) = "error"
    /\ trail' = Append(trail, Current)
    /\ IF pos + 1 < Len(WalkOrder)
       THEN /\ pos' = pos + 1 /\ attempt' = 0 /\ page' = "none" /\ slept' = 0
            /\ UNCHANGED outcome
       ELSE /\ outcome' = "raised"
            /\ UNCHANGED <<pos, attempt, page, slept>>
    /\ UNCHANGED <<provider, preferred, calls, method, answer>>

Exchange ==
    /\ outcome = "running"
    /\ \E response \in Responses, body \in Bodies, header \in RetryAfters :
         /\ Exchanged(response, body)
         /\ \/ Repeat(response, header)
            \/ AskTip(response, body)
            \/ Answer(response, body)
            \/ Fail(response, body)

NetNext == CallMethod \/ Exchange

NetSpec == NetInit /\ [][NetNext]_net

\* requests gives up on a silent server after DEFAULT_TIMEOUT_HTTP, so an
\* exchange that has begun ends; the wallet need not make another call.
NetFairSpec == NetSpec /\ WF_net(Exchange)

----------------------------------------------------------------------------
NetTypeOK ==
    /\ provider \in {0} \cup Backends /\ preferred \in {0} \cup Backends
    /\ calls \in 0..MaxCalls
    /\ method \in Ops \cup {"none"}
    /\ pos \in 0..(Len(Kind) - 1)
    /\ attempt \in 0..Retries
    /\ page \in {"none", "data", "junk"}
    /\ slept \in Nat
    /\ trail \in Seq(Backends)
    /\ refusals \in [Backends \X BOOLEAN -> Nat]
    /\ outcome \in {"running", "answered", "raised"}
    /\ answer \in {"data", "empty"}
    /\ mempool \in BOOLEAN

\* A call fails only when it has heard from everybody: under "auto" the
\* trail of AllBackendsFailed names every backend exactly once, wherever the
\* walk began.
EveryBackendTried ==
    outcome = "raised" =>
        IF provider # 0 THEN trail = <<provider>>
        ELSE /\ Len(trail) = Len(Kind)
             /\ {trail[n] : n \in DOMAIN trail} = Backends

\* A refusal is final: within one call no backend is made to refuse the same
\* HTTP request twice, neither by the retries nor by the walk.  (Esplora may
\* refuse both requests of get_unspent: the first is read whatever its status,
\* and is followed by the second when its body is not false.)
RefusedOnce == \A b \in Backends, t \in BOOLEAN : refusals[<<b, t>>] <= 1

\* send_tx returns only when the network has the transaction: no path through
\* the retries and the failover takes an error page for an acceptance.
BroadcastHappened ==
    method = "send_tx" /\ outcome = "answered" => mempool

\* No server can park the wallet: a request that was made attempt + 1 times
\* has slept no longer than the sane Retry-After for each repetition.
WaitBounded == slept <= attempt * RetryAfterMax

\* Every call of the wallet ends, with an answer or with an exception.
CallEnds == outcome = "running" ~> outcome # "running"

\* The comment in AutoBackend._run: any failure (transport, refusal, decode)
\* is a reason to move to the next backend.  So under "auto" an answer was
\* read from the body it was asked for.
DecodeFailureFailsOver ==
    provider = 0 /\ outcome = "answered" => answer = "data"
=============================================================================
