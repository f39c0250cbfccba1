--------------------------- MODULE MCNativeGraph ---------------------------
(* A graph that replays and a graph with a client, on one Core.            *)
EXTENDS NativeGraph

Event(id, task, timed) == [id |-> id, task |-> task, timed |-> timed]
Document(id, recorded, queued, events) ==
    [wellFormed |-> TRUE, workflow_id |-> id, recorded |-> recorded, queue |-> queued,
     events |-> events]
Sound == <<Event(1, FALSE, FALSE), Event(2, TRUE, TRUE)>>

\* Two histories that can be replayed, and one for each reason to refuse one.
MCDocument ==
    [h1 |-> Document("w", "w", TRUE, Sound),
     h2 |-> Document("v", "", TRUE, Sound),
     h3 |-> Document("", "", TRUE, Sound),
     h4 |-> Document("w", "v", TRUE, Sound),
     h5 |-> Document("w", "w", FALSE, Sound),
     h6 |-> Document("w", "w", TRUE, <<Event(1, FALSE, FALSE), Event(3, TRUE, TRUE)>>),
     h7 |-> Document("w", "w", TRUE, <<Event(1, FALSE, FALSE), Event(2, TRUE, FALSE)>>),
     h8 |-> [Document("w", "w", TRUE, <<>>) EXCEPT !.wellFormed = FALSE]]
MCHistories == DOMAIN MCDocument
MCUnconvertible == {"h2"}
MCGraphs == {"R", "L"}
MCStarts == {"s1", "s2"}
Load(graphs, clients, starts, histories) ==
    [graphs |-> graphs, clients |-> clients, starts |-> starts, histories |-> histories]
MCWorkloads == {Load({"R"}, {}, {}, MCHistories),
                Load({"R"}, {"R"}, {}, {"h1"}),
                Load({"L"}, {"L"}, MCStarts, {}),
                Load({"R", "L"}, {"L"}, {"s1"}, {})}
MCGraph == [s \in MCStarts |-> "L"]
=============================================================================
