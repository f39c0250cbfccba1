----------------------------- MODULE MCBoundary -----------------------------
(***************************************************************************)
(* The inputs of Boundary: for every kind of job, command, task, request   *)
(* and reply a plain one, and variants of it that differ in one field.     *)
(***************************************************************************)
EXTENDS Boundary

Big       == Payload("big", {"a"})
Odd       == Payload("ok", {"", "a"})
Negative  == Time(-1, 0)
TooLong   == Time(4, 0)
Second(n) == Time(n, 0)

(***************************************************************************)
(* Failures: the layers that decide differently, in chains longer than the *)
(* cap of three layers.                                                    *)
(***************************************************************************)
Application(n) == [Layer EXCEPT !.kind = "application", !.nonRetryable = n]
Wrapper(state) == [Layer EXCEPT !.kind = "activity", !.state = state]
Handler(type)  == [Layer EXCEPT !.kind = "nexus handler", !.type = type]

ChainLayers == {Layer, Application(TRUE), Application(FALSE), Wrapper("maximum attempts")}
Chains == UNION {[1..n -> ChainLayers] : n \in 1..4}

OddLayers ==
    {[Layer EXCEPT !.kind = k, !.text = t, !.state = s] :
        k \in Kinds, t \in {"long"}, s \in {"future", "non retryable", "retryable"}}
    \cup {Handler("NOT_FOUND"), Handler("long"),
          [Application(TRUE) EXCEPT !.delay = Negative, !.details = <<Odd>>],
          [Application(FALSE) EXCEPT !.type = "long nul"]}
BadLayers ==
    {[Layer EXCEPT !.kind = k, !.details = <<Big>>] : k \in {"application", "canceled", "timeout"}}
    \cup {[Application(TRUE) EXCEPT !.delay = TooLong], [Layer EXCEPT !.attributes = Big]}

(***************************************************************************)
(* Activations.                                                            *)
(***************************************************************************)
Initialize ==
    [kind |-> "initialize", ids |-> <<"a", "a", "a">>, attempt |-> 1, arguments |-> <<Plain>>,
     headers |-> "a" :> Plain, memo |-> None, attributes |-> None, times |-> <<None, None>>,
     backoff |-> None, identity |-> "a", parent |-> None, root |-> None,
     timeouts |-> <<None, None, None>>, priority |-> None, policy |-> None,
     continued |-> Ordinary, cron |-> FALSE]
Continued(i) == [run |-> "b", initiator |-> i, failure |-> None, result |-> None]
ServerPolicy == RetryPolicy(Negative, "below one", None, 0, <<"long">>)

Message(kind, ids) == [kind |-> kind, ids |-> ids, input |-> <<Plain>>, headers |-> <<>>,
                       identity |-> "a", meta |-> IF kind = "update" THEN ids[1] ELSE None]
Query(id)  == Message("query", <<id, "a">>)
Update(id, protocol) == Message("update", <<id, protocol, "a">>)
Notice(kind, reason) == [kind |-> kind, text |-> "a", reason |-> reason]
Failed(kind, f) == [Resolved(kind, "failed") EXCEPT !.failure = f]
AnyJob == [kind |-> "timer"]
Resolutions == {"resolve activity", "resolve child"}

GoodJobs ==
    {[Initialize EXCEPT !.identity = t] : t \in {"long", "long nul", ""}}
    \cup {[Initialize EXCEPT !.headers = "nul" :> Plain, !.memo = "" :> Plain],
          [Initialize EXCEPT !.policy = ServerPolicy, !.priority = Priority(-1, "nul", "out of range")],
          [Initialize EXCEPT !.arguments = <<Odd>>, !.backoff = Zero, !.parent = <<"a", "b">>],
          [Initialize EXCEPT !.continued = Continued("retry"), !.backoff = Second(1)],
          [Initialize EXCEPT !.continued = Continued("future"), !.timeouts = <<None, Zero, Second(1)>>]}
    \cup {[Initialize EXCEPT !.continued = [Continued("workflow") EXCEPT !.failure = <<l>>]] : l \in OddLayers}
    \cup {Failed(k, f) : k \in Resolutions \cup {"resolve external"}, f \in {<<l>> : l \in OddLayers}}
    \cup {Failed("resolve activity", f) : f \in Chains}
    \cup {[Resolved("resolve activity", "backoff") EXCEPT !.local = TRUE, !.backoff = Second(1)],
          [Resolved("resolve activity", "completed") EXCEPT !.payload = Odd],
          Resolved("resolve child", "completed"), Resolved("resolve child start", "succeeded"),
          [Resolved("resolve child start", "failed") EXCEPT !.cause = "no namespace"],
          [Resolved("resolve child start", "cancelled") EXCEPT !.failure = <<Layer>>],
          Resolved("resolve external", "absent")}
    \cup {[Message("signal", <<"a">>) EXCEPT !.identity = t, !.headers = "" :> Plain] : t \in Texts}
    \cup {Query("a"), Update("a", "a"), [Update("a", "a") EXCEPT !.meta = ""]}
    \cup {[Notice(k, "cache full") EXCEPT !.text = "long"] : k \in {"cancel", "evict"}}
    \cup {[kind |-> "patch", ids |-> <<"a">>], AnyJob, [kind |-> "seed"]}

BadJobs ==
    {[Initialize EXCEPT !.cron = TRUE], [Initialize EXCEPT !.continued = Continued("cron")],
     [Initialize EXCEPT !.backoff = Second(1)], [Initialize EXCEPT !.attempt = 0],
     [Initialize EXCEPT !.ids = <<"a", "long", "a">>], [Initialize EXCEPT !.arguments = <<Big>>],
     [Initialize EXCEPT !.attributes = "nul" :> Plain], [Initialize EXCEPT !.backoff = Negative],
     [Initialize EXCEPT !.timeouts = <<Negative, None, None>>],
     [Initialize EXCEPT !.priority = Priority(1, "long", "zero")],
     [Initialize EXCEPT !.policy = [ServerPolicy EXCEPT !.attempts = -1]],
     [Initialize EXCEPT !.continued = [Continued("retry") EXCEPT !.run = "long"]],
     [Resolved("resolve activity", "backoff") EXCEPT !.backoff = Second(1)],
     Resolved("resolve activity", "failed"), Resolved("resolve activity", "absent"),
     [Resolved("resolve child start", "failed") EXCEPT !.cause = "future"],
     Resolved("resolve child start", "cancelled"), Resolved("resolve child start", "absent"),
     Resolved("resolve child", "failed"), Resolved("resolve child", "absent"),
     [Message("signal", <<"nul">>) EXCEPT !.identity = "a"],
     [Message("signal", <<"a">>) EXCEPT !.input = <<Big>>],
     [Update("a", "a") EXCEPT !.meta = "b"], [Update("a", "a") EXCEPT !.meta = None],
     Notice("evict", "future"), [kind |-> "patch", ids |-> <<"">>], [kind |-> "nexus"]}
    \cup {Failed(k, <<l>>) : k \in Resolutions \cup {"resolve external"}, l \in BadLayers}

Jobs(js) == [run |-> "a", timestamp |-> Second(1), jobs |-> js, sdk |-> "a", deployment |-> None,
             suggested |-> {}]

GoodPairs == {<<Initialize, Update("a", "a")>>, <<Query("a"), Query("b")>>,
              <<Update("a", "a"), Update("b", "b")>>}
BadPairs  == {<<Query("a"), Query("a")>>, <<Query("a"), Update("a", "a")>>,
              <<Update("a", "a"), Update("a", "b")>>, <<Update("a", "a"), Update("b", "a")>>,
              <<Update("a", "a"), Initialize>>, <<Notice("evict", "fatal"), Update("a", "a")>>,
              <<Notice("evict", "fatal"), Notice("evict", "fatal")>>}

MCRepresentable ==
    {Jobs(<<j>>) : j \in GoodJobs} \cup {Jobs(p) : p \in GoodPairs}
    \cup {[Jobs(<<Notice("evict", "fatal")>>) EXCEPT !.timestamp = None],
          [Jobs(<<>>) EXCEPT !.sdk = "long", !.deployment = <<"long", "a">>, !.suggested = {"future"}]}
MCUnrepresentable ==
    {Jobs(<<j>>) : j \in BadJobs} \cup {Jobs(p) : p \in BadPairs}
    \cup {[Jobs(<<Update("a", "a")>>) EXCEPT !.timestamp = None],
          [Jobs(<<>>) EXCEPT !.deployment = <<"a", "nul">>]}

(***************************************************************************)
(* Completions.                                                            *)
(***************************************************************************)
GoodPolicy == RetryPolicy(Second(1), "at least one", Second(2), 0, <<"a">>)
Activity(kind) ==
    [kind |-> kind, ids |-> <<"a", "a">>, attempt |-> 1, time |-> None, policy |-> None,
     timeouts |-> <<Second(1), None, None, None>>, priority |-> None, arguments |-> <<Plain>>]
Child == [kind |-> "start child", ids |-> <<"a", "a">>, queue |-> None, policy |-> None,
          timeouts |-> <<None, None, None>>, close |-> None, reuse |-> None, arguments |-> <<Plain>>]
External(kind) == [kind |-> kind, ids |-> <<"a", "a">>, run |-> "b", childOnly |-> FALSE,
                   reason |-> "a", input |-> <<Plain>>, headers |-> "a" :> Plain]
Said(kind, ids, status) == [kind |-> kind, ids |-> ids, status |-> status, payload |-> None, failure |-> None]
Patch(id, deprecated) == [kind |-> "patch", ids |-> <<id>>, deprecated |-> deprecated]
Complete == Said("complete", <<>>, "")
Timer(d) == [kind |-> "start timer", timeout |-> d]

Durations == {None, Zero, Second(1), Second(2), Second(3)}

Commands ==
    {Activity(k) : k \in {"activity", "local activity"}}
    \cup {[Activity("activity") EXCEPT !.timeouts = <<d, e, None, None>>] : d \in Durations, e \in Durations}
    \cup {[Activity("activity") EXCEPT !.policy = GoodPolicy, !.priority = Priority(1, "a", w)] :
            w \in {"zero", "in range", "out of range"}}
    \cup {[Activity("local activity") EXCEPT !.attempt = 0], [Activity("activity") EXCEPT !.arguments = <<Odd>>],
          [Activity("activity") EXCEPT !.policy = [GoodPolicy EXCEPT !.maximum = Zero]]}
    \cup {[Child EXCEPT !.timeouts = <<d, e, f>>] : d \in Durations, e \in Durations, f \in Durations}
    \cup {[Child EXCEPT !.queue = "b", !.close = "abandon", !.reuse = "reject", !.policy = GoodPolicy]}
    \cup {[External("signal external") EXCEPT !.run = r, !.childOnly = b] : r \in {"", "b", "nul"}, b \in BOOLEAN}
    \cup {[External("cancel external") EXCEPT !.reason = t] : t \in {"", "a", "nul"}}
    \cup {[kind |-> "cancel child", reason |-> t] : t \in {"", "a"}}
    \cup {[kind |-> "continue", ids |-> <<"a", "a">>, arguments |-> <<p>>] : p \in {Plain, Big}}
    \cup {Timer(d) : d \in {Zero, Second(1), Negative, TooLong}}
    \cup {[Complete EXCEPT !.payload = p] : p \in {None, Plain, Odd}}
    \cup {[Said("fail", <<>>, "") EXCEPT !.failure = <<l>>] : l \in {Application(TRUE)} \cup BadLayers}
    \cup {[kind |-> "upsert", attributes |-> k :> Plain] : k \in {"a", "nul"}}
    \cup {[kind |-> "cancel workflow"], [kind |-> "cancel timer"]}

UpToThree(set) == UNION {[1..n -> set] : n \in 1..3}

UpdateResponses == {Said("update response", <<id>>, s) : id \in {"a", "b"}, s \in {"accepted", "rejected", "completed"}}
QueryResults    == {Said("query result", <<id>>, "succeeded") : id \in {"a", "b"}}
Mixed == {Timer(Second(1)), Complete, Said("update response", <<"a">>, "accepted"),
          Said("query result", <<"a">>, "succeeded")}

AllAnswers ==
    [run : {"a"}, failure : {None}, versioning : {None},
     commands : {<<c>> : c \in Commands} \cup UpToThree(UpdateResponses) \cup UpToThree(QueryResults)
                \cup UpToThree({Patch(id, b) : id \in {"a", "b"}, b \in BOOLEAN}) \cup UpToThree(Mixed)]
    \cup {[run |-> "a", failure |-> f, versioning |-> v, commands |-> <<>>] :
            f \in {None, <<Layer>>}, v \in {None, "pinned"}}
    \cup {[run |-> "b", failure |-> None, versioning |-> None, commands |-> <<>>]}
FewAnswers ==
    {[run |-> "a", failure |-> f, versioning |-> None, commands |-> <<>>] : f \in {None, <<Layer>>}}

\* The conversion looks only at the run, the queries and the eviction of the
\* document, so all the answers are given to one document of each sort.
MCAnswers(document) ==
    IF document = None THEN {}
    ELSE IF document.jobs \in {<<AnyJob>>, <<Notice("evict", "fatal")>>, <<Query("a")>>, <<Query("a"), Query("b")>>}
    THEN AllAnswers ELSE FewAnswers

(***************************************************************************)
(* Activity tasks.                                                         *)
(***************************************************************************)
Start == [token |-> "a", variant |-> "start", ids |-> <<"a", "a", "a", "a">>, execution |-> <<"a", "a">>,
          headers |-> <<>>, input |-> <<Plain>>, details |-> <<>>, times |-> <<None, None, None>>,
          timeouts |-> <<None, None, None>>, policy |-> None, priority |-> None, run |-> "", reason |-> ""]
Cancel(reason) == [Start EXCEPT !.variant = "cancel", !.reason = reason]

MCDeliveries ==
    {Start, [Start EXCEPT !.policy = ServerPolicy, !.priority = Priority(-1, "nul", "zero")],
     [Start EXCEPT !.execution = None], [Start EXCEPT !.headers = "" :> Plain],
     [Start EXCEPT !.input = <<Big>>], [Start EXCEPT !.timeouts = <<Negative, None, None>>],
     [Start EXCEPT !.details = <<Odd>>, !.times = <<Second(1), None, None>>, !.run = "b"],
     [Start EXCEPT !.variant = "absent"]}
    \cup {Cancel(r) : r \in {"cancelled", "paused", "future"}}
MCActivityCompletions ==
    [token : {"a"}, kind : {"completed", "failed", "cancelled", "async"},
     payload : {None, Plain, Big}, failure : {<<Layer>>}]
MCHeartbeats == [token : {"a"}, details : {<<>>, <<Plain>>, <<Big>>}, timeout : {None}]

(***************************************************************************)
(* Client requests: identifiers, run selector and the fields of each       *)
(* operation; for a start also all combinations of small timeouts.         *)
(***************************************************************************)
Request(op) ==
    [op |-> op, ids |-> <<"a", "a", "a", "a", "a">>, run |-> "", timeout |-> None, input |-> <<Plain>>,
     fields |-> <<>>, timeouts |-> <<None, None, None>>, policy |-> None, conflict |-> "fail",
     reason |-> "", event |-> 2, page |-> 1, token |-> None]
Operations == {"cancel", "reset", "signal", "terminate", "query", "update", "poll update",
               "list", "history", "wait"}
Milliseconds == {None, 0, 1, 2, 4}

MCRequests ==
    {[Request(op) EXCEPT !.run = r] : op \in Operations, r \in {"", "a", "nul"}}
    \cup {[Request("start") EXCEPT !.timeouts = <<e, r, t>>] :
            e \in Milliseconds, r \in Milliseconds, t \in Milliseconds}
    \cup {[Request("start") EXCEPT !.conflict = "use existing"],
          [Request("start") EXCEPT !.fields = <<<<"a", Plain>>, <<"a", Plain>>>>],
          [Request("start") EXCEPT !.fields = <<<<"a", Plain>>>>, !.policy = GoodPolicy, !.timeout = 2],
          [Request("cancel") EXCEPT !.reason = "nul"], [Request("reset") EXCEPT !.event = 1],
          [Request("list") EXCEPT !.page = 3], [Request("list") EXCEPT !.token = "bad"],
          [Request("history") EXCEPT !.page = None], [Request("query") EXCEPT !.timeout = 3],
          [Request("signal") EXCEPT !.input = <<Big>>]}
MCRuns      == <<"a", "b">>
MCPageCount == <<2, 3>>
=============================================================================
