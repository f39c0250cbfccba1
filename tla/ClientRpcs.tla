----------------------------- MODULE ClientRpcs -----------------------------
(***************************************************************************)
(* One client call of client_protocol.rs against a Temporal service over a *)
(* connection that loses replies.  Core retries an attempt within the      *)
(* budget of the call; the service may still handle an attempt that the    *)
(* client has given up.                                                    *)
(*                                                                         *)
(* The service and Core's retries are external.  The service recognises a  *)
(* request or update ID it has seen, its verdict on a request does not     *)
(* change between attempts, and a page token pins the run it was made for. *)
(***************************************************************************)
EXTENDS ClientRequests

CONSTANTS
    Requests,     \* the requests a caller may make
    MaxAttempts,  \* a bound on the attempts of one call
    Runs,         \* the runs of the workflow, in order
    PageCount,    \* how many pages the history of a run has
    PageLimit     \* MAX_PAYLOAD_BYTES, counted in pages

ASSUME RpcAssumption ==
    /\ MaxAttempts \in Nat \ {0} /\ PageLimit \in Nat /\ Len(Runs) > 0
    /\ PageCount \in [1..Len(Runs) -> Nat]

VARIABLES
    call,       \* the request that was sent, or None
    attempts,   \* how often it was sent
    flying,     \* the last attempt awaits its reply
    reply,      \* the status and body that reached the client, or None
    expired,    \* the budget of the call, or of the page, has elapsed
    abandoned,  \* attempts without a reply that the service may yet handle
    token,      \* the page token: the pinned run and the next page, or None
    pages,      \* the pages received: run and number
    result,     \* what the caller received, or None
    service,    \* the verdict, how often the request was applied, the update
    runs        \* the current run, how many runs are closed, the run at the call

rpcVars == <<call, attempts, flying, reply, expired, abandoned, token, pages, result, service, runs>>

Status(code)  == [status |-> code, body |-> None]
Response(b)   == [status |-> "ok", body |-> b]

Result == [tag |-> "ok", error |-> "", run |-> "", started |-> FALSE, outcome |-> None]
failed(code) == [Result EXCEPT !.tag = "error", !.error = code]
Again == [Result EXCEPT !.tag = "again"]

(***************************************************************************)
(* What each operation makes of a reply.                                   *)
(***************************************************************************)
start_workflow(q, r) ==
    IF r.status # "ok" THEN failed(map_start_status(budget_status(r.status, expired)))
    ELSE IF ~identifier(r.body.run) THEN failed("core")
    ELSE [Result EXCEPT !.run = r.body.run,
                        !.started = r.body.started \/ q.conflict # "use existing"]

start_outcome(r) ==
    CASE r.tag = "ok" -> "accepted"
      [] r.tag = "error" /\ uncertain_start(r.error) -> "unknown"
      [] OTHER -> "rejected"

acknowledged(q, r) ==
    IF r.status # "ok" THEN failed(budget_status(r.status, expired)) ELSE Result
cancel_workflow(q, r) == acknowledged(q, r)
signal_workflow(q, r) == acknowledged(q, r)

reset_workflow(q, r) ==
    IF r.status # "ok" THEN failed(budget_status(r.status, expired))
    ELSE IF ~identifier(r.body.run) THEN failed("core")
    ELSE [Result EXCEPT !.run = r.body.run]

terminate_workflow(q, r) ==
    IF r.status # "ok" THEN failed(terminate_status_error(r.status)) ELSE Result

\* A rejected query has no result; a failed one may carry the failure detail.
query_workflow(q, r) ==
    IF r.status # "ok" THEN failed(map_query_status(budget_status(r.status, expired), r.body = "detail"))
    ELSE IF r.body = None THEN failed("failed_precondition")
    ELSE IF payload_vec_from_core(r.body) = Err THEN failed("core")
    ELSE [Result EXCEPT !.outcome = payload_vec_from_core(r.body)]

update_workflow_within(q, r) ==
    IF r.status # "ok" THEN failed(budget_status(r.status, expired))
    ELSE LET converted == update_response_from_core(q, r.body)
             accepted  == update_stage_is_accepted(r.body.stage)
             handle    == [Result EXCEPT !.run = converted.run, !.outcome = converted.outcome]
         IN  CASE converted = Err -> failed("core")
               [] converted # Err /\ (converted.outcome # None \/ accepted = TRUE) -> handle
               [] converted # Err /\ converted.outcome = None /\ accepted = Err -> failed("core")
               [] OTHER -> IF expired THEN failed("deadline_exceeded") ELSE Again

poll_workflow_update(q, r) ==
    IF r.status # "ok" THEN failed(r.status)
    ELSE IF r.body = None THEN [Result EXCEPT !.tag = "pending"]
    ELSE IF update_outcome_from_core(r.body) = Err THEN failed("core")
    ELSE [Result EXCEPT !.outcome = update_outcome_from_core(r.body)]

list_visibility(q, r) ==
    IF r.status # "ok" THEN failed(budget_status(r.status, expired))
    ELSE IF Each(visibility_row, r.body) = Err THEN failed("core")
    ELSE [Result EXCEPT !.outcome = Each(visibility_row, r.body)]

LastPageOnly(r) == <<r.body.page>>

\* A body of a history poll has a page and the token of the next one.
received(r) == IF r.body.page = None THEN pages ELSE Append(pages, r.body.page)

fetch_history(q, r) ==
    IF r.status # "ok" THEN failed(budget_status(r.status, expired))
    ELSE LET all == received(r)
         IN  CASE Len(all) > PageLimit -> failed("core")
               [] Len(all) <= PageLimit /\ r.body.token # None -> Again
               [] OTHER -> IF all = <<>> THEN failed("core")
                           ELSE [Result EXCEPT !.outcome = all]

wait_workflow(q, r) ==
    IF r.status # "ok" THEN failed(r.status)
    ELSE IF r.body.page = None THEN Again
    ELSE LET outcome == outcome_from_event(r.body.event)
         IN  IF outcome = Err \/ ~validate_wait_response(q.run, outcome)
             THEN failed("core")
             ELSE [Result EXCEPT !.outcome = outcome, !.run = r.body.page[1]]

answer(q, r) ==
    CASE q.op = "start"       -> start_workflow(q, r)
      [] q.op = "cancel"      -> cancel_workflow(q, r)
      [] q.op = "signal"      -> signal_workflow(q, r)
      [] q.op = "reset"       -> reset_workflow(q, r)
      [] q.op = "terminate"   -> terminate_workflow(q, r)
      [] q.op = "query"       -> query_workflow(q, r)
      [] q.op = "update"      -> update_workflow_within(q, r)
      [] q.op = "poll update" -> poll_workflow_update(q, r)
      [] q.op = "list"        -> list_visibility(q, r)
      [] q.op = "history"     -> fetch_history(q, r)
      [] q.op = "wait"        -> wait_workflow(q, r)

\* The outer timeout of the call fired.
deadline(q) ==
    CASE q.op = "terminate"   -> failed("termination_outcome_uncertain")
      [] q.op = "poll update" -> [Result EXCEPT !.tag = "pending"]
      [] OTHER                -> failed("deadline_exceeded")

(***************************************************************************)
(* The external parts.                                                     *)
(***************************************************************************)
CoreRetries(q, code) ==
    /\ code \in {"unavailable", "resource_exhausted", "unknown", "internal", "aborted",
                 "out_of_range", "data_loss", "cancelled"}
    /\ q.op = "terminate" => ~terminate_retry_forbidden(code)

LostReply == {"unavailable", "cancelled", "deadline_exceeded"}

Keyed == {"start", "cancel", "reset", "signal"}

\* The run that a request or its token selects.
Selected(q) == IF token # None THEN token[1] ELSE IF q.run # "" THEN q.run ELSE Runs[runs.current]
Index(run)  == CHOOSE i \in DOMAIN Runs : Runs[i] = run
Closed(run) == Index(run) <= runs.closed

CloseEvents(next) ==
    [kind : {"completed", "failed", "cancelled", "timed out", "continued", "unknown"},
     payloads : {<<Plain>>}, failure : {None, <<Layer>>}, next : {next}]

\* A long poll of an open run ends without an event, with or without a token.
HistoryReplies(q) ==
    LET run   == Selected(q)
        page  == IF token = None THEN 1 ELSE token[2]
        count == PageCount[Index(run)]
        after(run_, n) == IF n > count THEN None ELSE <<run_, n>>
    IN  IF q.op = "history"
        THEN {Response([page |-> after(run, page), token |-> after(run, page + 1), event |-> None])}
        ELSE IF Closed(run)
        THEN {Response([page |-> <<run, 1>>, token |-> None, event |-> e]) :
                e \in CloseEvents(IF Index(run) = Len(Runs) THEN "" ELSE Runs[Index(run) + 1])}
        ELSE {Response([page |-> None, token |-> t, event |-> None]) : t \in {None, <<run, 1>>}}

Outcome(kind) == [kind |-> kind, payloads |-> <<Plain>>, failure |-> <<Layer>>]

UpdateOutcome == CASE service.update = "completed" -> Outcome("success")
                   [] service.update = "rejected"  -> Outcome("failure")
                   [] OTHER -> None

\* The service reports the stage reached, or, when newer, one without a name;
\* the last reply is one for another update.
UpdateReplies(q) ==
    LET stages == CASE service.update = "admitted" -> {"unspecified", "admitted", "future"}
                    [] service.update = "accepted" -> {"admitted", "accepted"}
                    [] OTHER -> {"completed", "future"}
    IN  {Response([update |-> q.ids[3], workflow |-> q.ids[2], run |-> r, stage |-> st,
                   outcome |-> UpdateOutcome]) : r \in {"", service.home}, st \in stages}
        \cup {Response([update |-> "other", workflow |-> q.ids[2], run |-> service.home,
                        stage |-> "accepted", outcome |-> None])}

Replies(q) ==
    CASE q.op \in {"start", "reset"} ->
           {Response([run |-> r, started |-> b]) : r \in {"", Runs[1]}, b \in BOOLEAN}
      [] q.op = "query" -> {Response(None), Response(<<Plain>>),
                            [status |-> "invalid_argument", body |-> "detail"]}
      [] q.op = "update" -> UpdateReplies(q)
      [] q.op = "poll update" -> {Response(UpdateOutcome)}
      [] q.op = "list" -> {Response(<<[execution |-> "a", type |-> "a", status |-> n]>>) : n \in {0, 1, 9}}
      [] q.op \in {"history", "wait"} -> HistoryReplies(q)
      [] OTHER -> {Response(None)}

Applied(q) == CASE q.op = "terminate" -> [service EXCEPT !.applied = @ + 1]
                [] q.op \in Keyed     -> [service EXCEPT !.applied = 1]
                [] OTHER              -> service

Verdict(q) == IF q.op = "terminate" /\ service.applied > 0 THEN "not_found" ELSE service.verdict

\* A read that is given up leaves nothing to handle.
givenUp == IF call.op \in Keyed \cup {"terminate", "update"} THEN abandoned + 1 ELSE abandoned

\* The verdicts that a request may meet.
Verdicts(q) == {"ok", "permission_denied"}
               \cup (IF q.op = "start" THEN {"already_exists"} ELSE {})
               \cup (IF q.op = "start" /\ q.conflict = "use existing" THEN {"existing"} ELSE {})

(***************************************************************************)
(* The client's steps.                                                     *)
(***************************************************************************)
RpcInit ==
    /\ call = None /\ attempts = 0 /\ flying = FALSE /\ reply = None /\ expired = FALSE
    /\ abandoned = 0 /\ token = None /\ pages = <<>> /\ result = None
    /\ service = [verdict |-> "ok", applied |-> 0, update |-> "none", home |-> ""]
    /\ runs = [current |-> 1, closed |-> 0, first |-> 1]

\* A request that does not validate is refused and never sent.
Submit(q) ==
    /\ call = None /\ result = None
    /\ IF validate_request(q)
       THEN /\ call' = q /\ flying' = TRUE /\ attempts' = 1
            /\ \E v \in Verdicts(q) : service' = [service EXCEPT !.verdict = v,
                 !.update = IF q.op = "poll update" THEN "accepted" ELSE @]
            /\ \E n \in 1..Len(Runs) : runs' = [current |-> n, closed |-> n - 1, first |-> n]
            /\ UNCHANGED result
       ELSE /\ result' = [Result EXCEPT !.tag = "refused"]
            /\ UNCHANGED <<call, flying, attempts, service, runs>>
    /\ UNCHANGED <<reply, expired, abandoned, token, pages>>

PollsWaitForever ==
    /\ call # None /\ result = None /\ ~expired /\ call.op \notin {"wait", "poll update"}
    /\ expired' = TRUE
    /\ UNCHANGED <<call, attempts, flying, reply, abandoned, token, pages, result, service, runs>>

\* wait_workflow has no deadline of its own; the other calls have a budget.
BudgetElapses ==
    /\ call # None /\ result = None /\ ~expired /\ call.op # "wait"
    /\ expired' = TRUE
    /\ UNCHANGED <<call, attempts, flying, reply, abandoned, token, pages, result, service, runs>>

\* The outer timeout wins over an attempt, a backoff or a pause.
TimesOut ==
    /\ call # None /\ result = None /\ expired
    /\ reply # None => reply.status # "ok"
    /\ result' = deadline(call)
    /\ flying' = FALSE /\ reply' = None
    /\ abandoned' = IF flying THEN givenUp ELSE abandoned
    /\ UNCHANGED <<call, attempts, expired, token, pages, service, runs>>

\* Core sends the identical message again.
Retry ==
    /\ call # None /\ result = None /\ reply # None /\ attempts < MaxAttempts
    /\ CoreRetries(call, reply.status)
    /\ ~expired
    /\ reply' = None /\ flying' = TRUE /\ attempts' = attempts + 1
    /\ UNCHANGED <<call, expired, abandoned, token, pages, result, service, runs>>

next_page_token(q, r) == r.body.token

\* Another poll has a budget of its own; a re-issued update keeps the deadline.
Receive ==
    /\ call # None /\ result = None /\ reply # None
    /\ LET r == answer(call, reply)
       IN  IF r = Again
           THEN /\ IF call.op = "update"
                   THEN UNCHANGED <<token, pages, attempts, expired>>
                   ELSE /\ token' = next_page_token(call, reply) /\ pages' = received(reply)
                        /\ attempts' = 0 /\ expired' = FALSE
                /\ UNCHANGED result
           ELSE /\ result' = r
                /\ UNCHANGED <<token, pages, attempts, expired>>
    /\ reply' = None
    /\ UNCHANGED <<call, flying, abandoned, service, runs>>

Send ==
    /\ call # None /\ result = None /\ ~flying /\ reply = None /\ attempts < MaxAttempts
    /\ ~expired
    /\ flying' = TRUE /\ attempts' = attempts + 1
    /\ UNCHANGED <<call, reply, expired, abandoned, token, pages, result, service, runs>>

(***************************************************************************)
(* The service's steps.                                                    *)
(***************************************************************************)
Reply(r) == flying' = FALSE /\ reply' = r

ServiceReplies ==
    /\ flying
    /\ \/ Reply(Status("resource_exhausted")) /\ UNCHANGED service
       \/ Verdict(call) \notin {"ok", "existing"} /\ Reply(Status(Verdict(call))) /\ UNCHANGED service
       \/ /\ Verdict(call) = "existing"
          /\ Reply(Response([run |-> Runs[1], started |-> FALSE])) /\ UNCHANGED service
       \/ /\ Verdict(call) = "ok"
          /\ call.op = "update" => service.update # "none"
          /\ \E r \in Replies(call) \cup {Status("internal")} : Reply(r)
          /\ service' = Applied(call)
    /\ UNCHANGED <<call, attempts, expired, abandoned, token, pages, result, runs>>

ConnectionLost ==
    /\ flying
    /\ \E code \in LostReply : Reply(Status(code))
    /\ abandoned' = givenUp
    /\ UNCHANGED <<call, attempts, expired, token, pages, result, service, runs>>

LateHandling ==
    /\ abandoned > 0
    /\ abandoned' = abandoned - 1
    /\ service' \in {service} \cup (IF Verdict(call) = "ok" THEN {Applied(call)} ELSE {})
    /\ UNCHANGED <<call, attempts, flying, reply, expired, token, pages, result, runs>>

\* An admitted update is not durable: the service may forget it.
UpdateProgresses ==
    /\ call # None /\ call.op \in {"update", "poll update"} /\ service.verdict = "ok"
    /\ \/ /\ service.update = "none" /\ (flying \/ abandoned > 0)
          /\ service' = [service EXCEPT !.update = "admitted", !.home = Selected(call)]
       \/ /\ service.update = "admitted"
          /\ \E u \in {"none", "accepted", "rejected"} : service' = [service EXCEPT !.update = u]
       \/ service.update = "accepted" /\ service' = [service EXCEPT !.update = "completed"]
    /\ UNCHANGED <<call, attempts, flying, reply, expired, abandoned, token, pages, result, runs>>

\* The current run closes, and a successor becomes the current run.
RunCloses ==
    /\ call # None /\ result = None /\ call.op \in {"update", "history", "wait"}
    /\ runs.closed < Len(Runs)
    /\ runs' = [runs EXCEPT !.closed = runs.current,
                            !.current = IF @ < Len(Runs) THEN @ + 1 ELSE @]
    /\ UNCHANGED <<call, attempts, flying, reply, expired, abandoned, token, pages, result, service>>

ClientStep == BudgetElapses \/ TimesOut \/ Retry \/ Receive \/ Send

RpcNext ==
    \/ \E q \in Requests : Submit(q)
    \/ ClientStep
    \/ ServiceReplies
    \/ ConnectionLost
    \/ LateHandling
    \/ UpdateProgresses
    \/ RunCloses

(***************************************************************************)
(* Properties.                                                             *)
(***************************************************************************)
\* What a caller is told agrees with what the service did, now and after any
\* late handling: a start that start_workflow reports as rejected, and an
\* operation refused for a reason that excludes it, was not applied by any
\* attempt; an acknowledgement means exactly one application; and a start that
\* says it created the run did so.  A termination, which has no request ID, is
\* applied at most once.  update_workflow returns a handle without an outcome
\* only for an update that the workflow has accepted, so that a later poll finds
\* it even if the service restarts, and the handle names the run that did.
ErrorsAreTruthful ==
    /\ service.applied <= 1
    /\ result # None /\ call # None =>
         /\ call.op = "start" /\ start_outcome(result) = "rejected" => service.applied = 0
         /\ result.error \in {"not_found", "permission_denied", "already started"} =>
              service.applied = 0
         /\ call.op \in Keyed \cup {"terminate"} /\ result.tag = "ok" =>
              service.applied = 1 \/ (service.verdict = "existing" /\ ~result.started)
         /\ call.op = "update" /\ result.tag = "ok" =>
              /\ service.update \in {"accepted", "completed", "rejected"}
              /\ result.outcome = None => service.update # "rejected"
              /\ result.run = service.home

\* A fetched history holds every page of one run once and in order, and a wait
\* reports the close of one run: the requested one, or one that was current at
\* or after the call.  Retried polls and runs closing meanwhile do not mix runs.
OneRunObserved ==
    result # None /\ call # None /\ result.tag = "ok" =>
        /\ call.op = "history" =>
             \E i \in DOMAIN Runs :
                /\ result.outcome = [n \in 1..PageCount[i] |-> <<Runs[i], n>>]
                /\ IF call.run # "" THEN Runs[i] = call.run ELSE i >= runs.first
        /\ call.op = "wait" =>
             /\ IF call.run # "" THEN result.run = call.run ELSE Index(result.run) >= runs.first
             /\ Closed(result.run)
             /\ result.outcome.successor \in {None} \cup {Runs[i] : i \in Index(result.run) + 1 .. Len(Runs)}

\* Every call except a wait returns: its budget elapses whatever the service
\* and the connection do.
CallReturns ==
    (call # None /\ call.op # "wait") ~> (result # None)
=============================================================================
