------------------------- MODULE MCClientConnection -------------------------
(* Two graphs: A has a worker; B may have one call in flight.              *)
EXTENDS ClientConnection

MCCalls == 1..4
MCOwners == {"A", "B"}
MCOwner == [c \in MCCalls |-> IF c <= 2 THEN "A" ELSE "B"]
MCLimits == [o \in MCOwners |-> IF o = "A" THEN 2 ELSE 1]
MCRequests == 1..3
MCDrivers == 0..2

Ask(kind, key, body, leaves) == [kind |-> kind, key |-> key, body |-> body, leaves |-> leaves]
No == Ask("none", "", "", "")

MCWorkloads == {
    <<No, No, No, No>>,
    <<Ask("start", "k", "x", "deadline"), Ask("start", "k", "y", ""), No, No>>,
    <<Ask("start", "k", "x", ""), Ask("start", "l", "x", ""), No, No>>,
    <<Ask("wait", "r", "", ""), No, Ask("query", "", "", ""), No>>,
    <<No, No, Ask("wait", "r", "", "interrupt"), Ask("query", "", "", "deadline")>>}

Async(kind, t, released) == [kind |-> kind, token |-> t, released |-> released]
NoAsync == Async("none", "", FALSE)

MCAsyncWorkloads == {
    <<NoAsync, NoAsync, NoAsync>>,
    <<Async("heartbeat", "t", FALSE), Async("heartbeat", "t", FALSE), Async("failed", "t", FALSE)>>,
    <<Async("heartbeat", "t", FALSE), Async("heartbeat", "t", FALSE), Async("canceled", "t", FALSE)>>,
    <<Async("heartbeat", "t", TRUE), Async("completed", "t", FALSE), Async("heartbeat", "t", FALSE)>>,
    <<Async("heartbeat", "t", FALSE), Async("heartbeat", "u", FALSE), Async("heartbeat", "v", FALSE)>>}
=============================================================================
