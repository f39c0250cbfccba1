--------------------------- MODULE FailuresProofs ---------------------------
(***************************************************************************)
(* Retryability survives the conversion of a failure, for cause chains of  *)
(* every length and every cap on their layers.                             *)
(***************************************************************************)
EXTENDS Failures, TLAPS

Fields == {"kind", "text", "type", "nonRetryable", "state", "details", "delay", "event", "attributes"}

\* The layers that Core may hand over, whatever their texts, payloads and
\* numbers are.
LayersOf(Any) == {l \in [Fields -> Any] : l.kind \in Kinds}

\* What a conversion makes of the fields that decide about retries.
LEMMA ConvertedFields ==
    ASSUME NEW Any, NEW l \in LayersOf(Any), layer_from_core(l) # Err
    PROVE  LET c == layer_from_core(l)
           IN  /\ c.kind = l.kind
               /\ c.nonRetryable = l.nonRetryable
               /\ l.kind \in {"activity", "child"} => c.state = retry_state_from_core(l.state)
               /\ l.kind = "nexus handler" => /\ c.state = nexus_retry_behavior_from_core(l.state)
                                              /\ c.type = inbound_text(l.type)
<1> DEFINE i == info_from_core(l)
<1>1. DOMAIN l = Fields
  BY DEF LayersOf
<1>2. /\ DOMAIN i = Fields /\ i.kind = l.kind /\ i.nonRetryable = l.nonRetryable
      /\ l.kind \in {"activity", "child"} => i.state = retry_state_from_core(l.state)
      /\ l.kind = "nexus handler" => /\ i.state = nexus_retry_behavior_from_core(l.state)
                                     /\ i.type = inbound_text(l.type)
  <2>1. CASE l.kind = "application"
    <3>1. i = [l EXCEPT !.type = inbound_text(@), !.details = payload_vec_from_core(@),
                        !.state = application_category_from_core(@),
                        !.delay = Option(inbound_retry_delay_from_core, @)]
      BY <2>1 DEF info_from_core
    <3> QED BY <1>1, <2>1, <3>1 DEF Fields
  <2>2. CASE l.kind \in {"canceled", "reset"}
    <3>1. i = [l EXCEPT !.details = payload_vec_from_core(@)]
      BY <2>2 DEF info_from_core
    <3> QED BY <1>1, <2>2, <3>1 DEF Fields
  <2>3. CASE l.kind \in {"activity", "child"}
    <3>1. i = [l EXCEPT !.state = retry_state_from_core(@)]
      BY <2>3 DEF info_from_core
    <3> QED BY <1>1, <2>3, <3>1 DEF Fields
  <2>4. CASE l.kind = "timeout"
    <3>1. i = [l EXCEPT !.details = payload_vec_from_core(@), !.state = timeout_type_from_core(@)]
      BY <2>4 DEF info_from_core
    <3> QED BY <1>1, <2>4, <3>1 DEF Fields
  <2>5. CASE l.kind = "nexus handler"
    <3>1. i = [l EXCEPT !.type = inbound_text(@), !.state = nexus_retry_behavior_from_core(@)]
      BY <2>5 DEF info_from_core
    <3> QED BY <1>1, <2>5, <3>1 DEF Fields
  <2>6. CASE l.kind \in {"terminated", "server", "nexus operation", "absent"}
    <3>1. i = l
      BY <2>6 DEF info_from_core
    <3> QED BY <1>1, <2>6, <3>1
  <2> QED BY <2>1, <2>2, <2>3, <2>4, <2>5, <2>6 DEF LayersOf, Kinds
<1>3. layer_from_core(l) = [i EXCEPT !.text = inbound_text(@),
                                     !.attributes = Option(payload_from_core, @)]
  BY DEF layer_from_core, Checked
<1> HIDE DEF i
<1> QED BY <1>2, <1>3 DEF Fields

\* Neither the renaming of unknown numbers nor the truncation of texts changes
\* what a layer decides.
LEMMA DecisionKept ==
    ASSUME NEW Any, NEW l \in LayersOf(Any), layer_from_core(l) # Err
    PROVE  decision(layer_from_core(l)) = decision(l)
<1> DEFINE c == layer_from_core(l)
<1>1. /\ c.kind = l.kind /\ c.nonRetryable = l.nonRetryable
      /\ l.kind \in {"activity", "child"} => c.state = retry_state_from_core(l.state)
      /\ l.kind = "nexus handler" => /\ c.state = nexus_retry_behavior_from_core(l.state)
                                     /\ c.type = inbound_text(l.type)
  BY ConvertedFields
<1>2. wrapper(retry_state_from_core(l.state)) = wrapper(l.state)
  BY DEF wrapper, retry_state_from_core, KnownOr, RetryStates
<1>3. inbound_text(l.type) \in NonRetryableTypes <=> l.type \in NonRetryableTypes
  BY DEF inbound_text, NonRetryableTypes
<1>4. LET s == nexus_retry_behavior_from_core(l.state)
      IN  /\ s = "non retryable" <=> l.state = "non retryable"
          /\ s = "retryable" <=> l.state = "retryable"
  BY DEF nexus_retry_behavior_from_core, KnownOr, RetryBehaviors
<1> SUFFICES decision(c) = decision(l)
  OBVIOUS
<1> HIDE DEF c
<1>5. CASE l.kind \in {"application", "server"}
  BY <1>1, <1>5 DEF decision
<1>6. CASE l.kind \in {"canceled", "terminated"}
  BY <1>1, <1>6 DEF decision
<1>7. CASE l.kind \in {"activity", "child"}
  BY <1>1, <1>2, <1>7 DEF decision
<1>8. CASE l.kind = "nexus handler"
  BY <1>1, <1>3, <1>4, <1>8 DEF decision
<1>9. CASE l.kind \in {"timeout", "reset", "nexus operation", "absent"}
  BY <1>1, <1>9 DEF decision
<1>10. l.kind \in Kinds
  BY DEF LayersOf
<1> QED BY <1>5, <1>6, <1>7, <1>8, <1>9, <1>10 DEF Kinds

\* The converted layers before the cut decide as those of the chain, one by one.
LEMMA KeptLayers ==
    ASSUME NEW Any, NEW f \in Seq(LayersOf(Any)), failure_from_core(f) # Err
    PROVE  LET layers == [i \in 1..kept(f) |-> layer_from_core(f[i])]
           IN  /\ kept(f) \in 0..Len(f)
               /\ \A i \in 1..kept(f) : decision(layers[i]) = decision(f[i])
               /\ failure_from_core(f) =
                    IF kept(f) = Len(f) THEN layers
                    ELSE Append(layers, omitted_causes_failure(SubSeq(f, kept(f) + 1, Len(f))))
<1> DEFINE n == kept(f)
           s == SubSeq(f, 1, n)
           layers == [i \in 1..n |-> layer_from_core(f[i])]
<1>1. n \in 0..Len(f)
  BY LayersAssumption DEF kept
<1>2. DOMAIN s = 1..n /\ \A i \in 1..n : s[i] = f[i]
  BY <1>1
<1>3. [i \in DOMAIN s |-> layer_from_core(s[i])] = layers
  BY <1>2
<1>4. Each(layer_from_core, s) # Err
  BY DEF failure_from_core
<1>5. /\ Each(layer_from_core, s) = layers
      /\ layers = <<>> \/ \A i \in 1..n : layers[i] # Err
  BY <1>3, <1>4 DEF Each
<1>6. ASSUME NEW i \in 1..n PROVE decision(layers[i]) = decision(f[i])
  <2>1. layers # <<>>
    BY <1>6
  <2>2. layer_from_core(f[i]) # Err
    BY <1>5, <1>6, <2>1
  <2>3. f[i] \in LayersOf(Any)
    BY <1>1
  <2> QED BY <2>2, <2>3, DecisionKept
<1>7. failure_from_core(f) = IF n = Len(f) THEN layers
                             ELSE Append(layers, omitted_causes_failure(SubSeq(f, n + 1, Len(f))))
  BY <1>4, <1>5 DEF failure_from_core
<1> QED BY <1>1, <1>6, <1>7

\* The layer that stands for the omitted causes decides as they would.
LEMMA OmittedDecides ==
    ASSUME NEW tail
    PROVE  decision(omitted_causes_failure(tail))
             = IF omitted_tail_non_retryable(tail) THEN "no retry" ELSE "defer"
BY DEF omitted_causes_failure, decision, Layer

\* What a layer decides, as predicates.
Refuses(l) == decision(l) = "no retry"
Defers(l)  == decision(l) = "defer"
Alike(l, m) == (Refuses(l) <=> Refuses(m)) /\ (Defers(l) <=> Defers(m))

\* failure_non_retryable in terms of the two predicates on layers.
LEMMA NonRetryable ==
    ASSUME NEW f
    PROVE  /\ failure_non_retryable(f) <=>
                \E i \in DOMAIN f : Refuses(f[i]) /\ \A j \in 1..(i - 1) : Defers(f[j])
           /\ omitted_tail_non_retryable(f) <=>
                \E i \in DOMAIN f : Refuses(f[i]) /\ \A j \in 1..(i - 1) : Defers(f[j])
BY DEF failure_non_retryable, omitted_tail_non_retryable, Refuses, Defers

\* The deciding layer of one chain is that of another which agrees up to it.
LEMMA SameDecision ==
    ASSUME NEW n \in Nat, NEW f, NEW c, NEW i \in 1..n, i \in DOMAIN f,
           \A j \in 1..i : Alike(c[j], f[j]),
           Refuses(c[i]), \A j \in 1..(i - 1) : Defers(c[j])
    PROVE  failure_non_retryable(f)
<1>1. Refuses(f[i])
  BY DEF Alike
<1>2. ASSUME NEW j \in 1..(i - 1) PROVE Defers(f[j])
  <2>1. j \in 1..i
    OBVIOUS
  <2> QED BY <2>1 DEF Alike
<1> QED BY <1>1, <1>2, NonRetryable

\* A chain that is cut after its first n layers, and continued by one layer that
\* decides as the tail does, decides as before.
LEMMA CutChain ==
    ASSUME NEW k \in Nat, NEW n \in Nat, n < k, NEW f, NEW c, NEW tail,
           DOMAIN f = 1..k, DOMAIN c = 1..(n + 1), DOMAIN tail = 1..(k - n),
           \A i \in 1..n : Alike(c[i], f[i]),
           \A m \in 1..(k - n) : tail[m] = f[n + m],
           omitted_tail_non_retryable(tail) => Refuses(c[n + 1]),
           Refuses(c[n + 1]) => omitted_tail_non_retryable(tail)
    PROVE  failure_non_retryable(c) <=> failure_non_retryable(f)
<1>1. ASSUME failure_non_retryable(f) PROVE failure_non_retryable(c)
  <2>1. PICK i \in 1..k : /\ Refuses(f[i])
                          /\ \A j \in 1..(i - 1) : Defers(f[j])
    BY <1>1, NonRetryable
  <2>2. CASE i <= n
    <3>1. i \in 1..n /\ i \in DOMAIN c /\ 1..i \subseteq 1..n
      BY <2>2
    <3> QED BY <2>1, <3>1, SameDecision DEF Alike
  <2>3. CASE i > n
    <3>1. i - n \in 1..(k - n) /\ n + (i - n) = i
      BY <2>3
    <3>2. Refuses(tail[i - n])
      BY <2>1, <3>1
    <3>3. ASSUME NEW j \in 1..(i - n - 1) PROVE Defers(tail[j])
      <4>1. j \in 1..(k - n) /\ n + j \in 1..(i - 1)
        BY <2>3
      <4> QED BY <2>1, <4>1
    <3>4. omitted_tail_non_retryable(tail)
      BY <3>1, <3>2, <3>3, NonRetryable
    <3>5. ASSUME NEW j \in 1..(n + 1 - 1) PROVE Defers(c[j])
      <4>1. j \in 1..n /\ j \in 1..(i - 1)
        BY <2>3
      <4> QED BY <2>1, <4>1 DEF Alike
    <3>6. n + 1 \in DOMAIN c
      OBVIOUS
    <3> QED BY <3>4, <3>5, <3>6, NonRetryable
  <2> QED BY <2>2, <2>3
<1>2. ASSUME failure_non_retryable(c) PROVE failure_non_retryable(f)
  <2>1. PICK i \in 1..(n + 1) : /\ Refuses(c[i])
                                /\ \A j \in 1..(i - 1) : Defers(c[j])
    BY <1>2, NonRetryable
  <2>2. CASE i <= n
    <3>1. i \in 1..n /\ i \in DOMAIN f /\ 1..i \subseteq 1..n
      BY <2>2
    <3> QED BY <2>1, <3>1, SameDecision DEF Alike
  <2>3. CASE i = n + 1
    <3>1. omitted_tail_non_retryable(tail)
      BY <2>1, <2>3
    <3>2. PICK m \in 1..(k - n) : /\ Refuses(tail[m])
                                  /\ \A j \in 1..(m - 1) : Defers(tail[j])
      BY <3>1, NonRetryable
    <3>3. n + m \in DOMAIN f
      OBVIOUS
    <3>4. Refuses(f[n + m])
      BY <3>2
    <3>5. ASSUME NEW j \in 1..(n + m - 1) PROVE Defers(f[j])
      <4>1. CASE j <= n
        <5>1. j \in 1..n /\ j \in 1..(i - 1)
          BY <2>3, <4>1
        <5> QED BY <2>1, <5>1 DEF Alike
      <4>2. CASE j > n
        <5>1. j - n \in 1..(m - 1) /\ j - n \in 1..(k - n) /\ n + (j - n) = j
          BY <4>2
        <5>2. Defers(tail[j - n]) /\ tail[j - n] = f[n + (j - n)]
          BY <3>2, <5>1
        <5> QED BY <5>1, <5>2
      <4> QED BY <4>1, <4>2
    <3>6. \E l \in DOMAIN f : Refuses(f[l]) /\ \A j \in 1..(l - 1) : Defers(f[j])
      <4> DEFINE last == n + m
      <4>1. last \in DOMAIN f /\ Refuses(f[last]) /\ \A j \in 1..(last - 1) : Defers(f[j])
        BY <3>3, <3>4, <3>5
      <4> HIDE DEF last
      <4> QED BY <4>1
    <3> QED BY <3>6, NonRetryable
  <2> QED BY <2>2, <2>3
<1> QED BY <1>1, <1>2

\* Of two chains whose layers decide alike, both are non-retryable or none.
LEMMA SameDecisions ==
    ASSUME NEW n \in Nat, NEW f, NEW c, DOMAIN f = 1..n, DOMAIN c = 1..n,
           \A i \in 1..n : Alike(c[i], f[i]), failure_non_retryable(c)
    PROVE  failure_non_retryable(f)
<1>1. PICK i \in 1..n : /\ Refuses(c[i])
                        /\ \A j \in 1..(i - 1) : Defers(c[j])
  BY NonRetryable
<1>2. i \in DOMAIN f /\ 1..i \subseteq 1..n
  OBVIOUS
<1> QED BY <1>1, <1>2, SameDecision

\* The layers behind the cut, by their positions in the chain.
LEMMA TailLayers ==
    ASSUME NEW S, NEW f \in Seq(S), NEW n \in Nat, n < Len(f), NEW m \in 1..(Len(f) - n)
    PROVE  SubSeq(f, n + 1, Len(f))[m] = f[n + m]
OBVIOUS

\* A failure that failure_from_core converts is retryable for the public API of
\* OCaml exactly when Core's chain is, wherever in the chain the deciding layer
\* is, also when it is one of those that are cut at MAX_INBOUND_FAILURE_LAYERS.
THEOREM RetryabilitySurvives ==
    ASSUME NEW Any, NEW f \in Seq(LayersOf(Any)), failure_from_core(f) # Err
    PROVE  failure_non_retryable(failure_from_core(f)) <=> failure_non_retryable(f)
<1> DEFINE n == kept(f)
           layers == [i \in 1..n |-> layer_from_core(f[i])]
           tail == SubSeq(f, n + 1, Len(f))
           c == failure_from_core(f)
<1>1. /\ n \in 0..Len(f)
      /\ \A i \in 1..n : decision(layers[i]) = decision(f[i])
      /\ c = IF n = Len(f) THEN layers ELSE Append(layers, omitted_causes_failure(tail))
  BY KeptLayers
<1>2. Len(f) \in Nat /\ n \in Nat /\ DOMAIN f = 1..Len(f)
  BY <1>1
<1>3. CASE n = Len(f)
  <2>1. c = layers /\ DOMAIN layers = 1..Len(f)
    BY <1>1, <1>3
  <2>2. \A i \in 1..Len(f) : Alike(layers[i], f[i])
    BY <1>1, <1>3 DEF Alike, Refuses, Defers
  <2> HIDE DEF layers
  <2>3. failure_non_retryable(layers) <=> failure_non_retryable(f)
    BY <1>2, <2>1, <2>2, SameDecisions DEF Alike
  <2> QED BY <2>1, <2>3
<1>4. CASE n < Len(f)
  <2>1. c = Append(layers, omitted_causes_failure(tail))
    BY <1>1, <1>2, <1>4
  <2>2. /\ DOMAIN c = 1..(n + 1) /\ c[n + 1] = omitted_causes_failure(tail)
        /\ \A i \in 1..n : c[i] = layers[i]
    <3>1. layers \in Seq({layers[i] : i \in 1..n}) /\ Len(layers) = n
      BY <1>1
    <3> HIDE DEF layers, n, tail
    <3> QED BY <1>1, <2>1, <3>1
  <2>3. \A i \in 1..n : Alike(c[i], f[i])
    BY <1>1, <2>2 DEF Alike, Refuses, Defers
  <2>4. /\ DOMAIN tail = 1..(Len(f) - n)
        /\ \A m \in 1..(Len(f) - n) : tail[m] = f[n + m]
    <3>1. Len(tail) = Len(f) - n /\ DOMAIN tail = 1..Len(tail)
      BY <1>1, <1>2, <1>4
    <3>2. ASSUME NEW m \in 1..(Len(f) - n) PROVE tail[m] = f[n + m]
      BY <1>2, <1>4, <3>2, TailLayers
    <3> QED BY <3>1, <3>2
  <2>5. Refuses(c[n + 1]) <=> omitted_tail_non_retryable(tail)
    BY <2>2, OmittedDecides DEF Refuses
  <2>6. failure_non_retryable(c) <=> failure_non_retryable(f)
    <3> HIDE DEF n, layers, tail, c
    <3> QED BY <1>2, <1>4, <2>2, <2>3, <2>4, <2>5, CutChain
  <2> QED BY <2>6
<1> QED BY <1>1, <1>2, <1>3, <1>4
=============================================================================
