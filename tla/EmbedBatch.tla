----------------------------- MODULE EmbedBatch -----------------------------
(***************************************************************************)
(* Embedding the chunks of changed files: batches in flight, requests that *)
(* are split when the server refuses their size, retries, and the batch    *)
(* size the process remembers.  A vector is written as the text it is of.  *)
(***************************************************************************)
EXTENDS Option, Integers, SequencesExt, FiniteSetsExt, TLC

CONSTANTS
  Chunks,            \* a function: the sequence of chunks of each file, <<id, text>>
  Tokens,            \* of each text
  MaxRequestTokens, MaxInputs, MaxInputTokens,   \* of an OpenAI request
  BatchSize, MaxConcurrent, MaxRetries,
  MaxCalls

\* Chunks are pairs, and sizes are what a configuration can say.
AllChunks == UNION {ToSet(Chunks[f]) : f \in DOMAIN Chunks}
ASSUME EmbedAssumption ==
  /\ IsFiniteSet(DOMAIN Chunks)
  /\ \A f \in DOMAIN Chunks : Chunks[f] \in Seq(AllChunks)
  /\ \A c \in AllChunks : c = <<c[1], c[2]>>
  /\ BatchSize \in Nat /\ None \notin Nat

VARIABLES
  server,    \* the provider, and the largest request it takes
  cache,     \* WORKING_BATCH_SIZES for the provider, or None
  call,      \* "idle", "running", "ok" or "failed"
  unchanged, \* files whose hash is the indexed one
  waiting,   \* batches not yet begun, sequences of chunks
  jobs,      \* batches in flight: each of them a record
  result,    \* chunks embedded so far, with their vectors
  calls

vars == <<server, cache, call, unchanged, waiting, jobs, result, calls>>

Providers == {"openai", "gemini", "huggingface", "bedrock", "titan", "ollama"}
\* What fails a request without an answer of its own.
Transient == {"connect", "timeout", "throttled", "server", "late body"}
Retried == [p \in Providers |-> IF p = "ollama" THEN {"server", "late body"} ELSE Transient]

Fewer(a, b) == IF a < b THEN a ELSE b
More(a, b) == IF a > b THEN a ELSE b
\* slice::chunks
Pieces(s, n) ==
  [i \in 1 .. (Len(s) + n - 1) \div n |-> SubSeq(s, n * (i - 1) + 1, Fewer(n * i, Len(s)))]

-----------------------------------------------------------------------------
(* The provider *)

WorkingBatchSize(configured) ==
  More(1, Fewer(configured, IF cache = None THEN configured ELSE cache))
Remember(size) == cache' = IF cache = None THEN size ELSE Fewer(cache, size)

\* An input over the limit of tokens is cut.
Sent(t) == IF Tokens[t] > MaxInputTokens THEN <<"cut", t>> ELSE <<"whole", t>>
Cost(t) == Fewer(Tokens[t], MaxInputTokens)

\* Inputs are packed into requests in their order.
Total(texts) == FoldLeft(LAMBDA n, t : n + Cost(t), 0, texts)
Packed(groups, t) ==
  IF groups # <<>> /\ Len(Last(groups)) < MaxInputs /\ Total(Last(groups)) + Cost(t) <= MaxRequestTokens
  THEN Append(Front(groups), Append(Last(groups), t)) ELSE Append(groups, <<t>>)
PlanRequests(texts) ==
  LET plan[n \in 0 .. Len(texts)] == IF n = 0 THEN <<>> ELSE Packed(plan[n - 1], texts[n])
  IN  plan[Len(texts)]
\* embed_batch_for: the requests one batch of inputs takes.
Requests(texts) ==
  CASE server.provider = "openai" -> PlanRequests(texts)
    [] server.provider = "titan" -> Pieces(texts, 1)
    [] OTHER -> <<texts>>

\* What the server makes of a request: items with their index, in any order.
Answers(texts) ==
  {[i \in DOMAIN texts |-> [index |-> p[i], embedding |->
      IF server.provider = "openai" THEN Sent(texts[p[i]]) ELSE <<"whole", texts[p[i]]>>]] :
    p \in IF server.provider = "openai" THEN Bijection(DOMAIN texts, DOMAIN texts) ELSE {[i \in DOMAIN texts |-> i]}}
InOrder(data) == [i \in DOMAIN data |-> (CHOOSE d \in ToSet(data) : d.index = i).embedding]

-----------------------------------------------------------------------------
(* A batch: the inputs still queued, the requests left of the first of them, what those *)
(* have given, what came before, and attempts at the first request                      *)

Advance(ids, out, queue) ==
  [ids |-> ids, out |-> out, queue |-> queue, got |-> <<>>, attempt |-> 0,
   requests |-> IF queue = <<>> THEN <<>> ELSE Requests(Head(queue))]
NewBatch(chunks) ==
  LET texts == [i \in DOMAIN chunks |-> chunks[i][2]]
  IN  Advance([i \in DOMAIN chunks |-> chunks[i][1]], <<>>, Pieces(texts, WorkingBatchSize(Len(texts))))

Received(b, vectors) ==
  LET more == Tail(b.requests)
      got == b.got \o vectors
  IN  IF more = <<>> THEN Advance(b.ids, b.out \o got, Tail(b.queue))
      ELSE [ids |-> b.ids, out |-> b.out, queue |-> b.queue, got |-> got, attempt |-> 0, requests |-> more]

\* Mutants: the halves change places; the same inputs are queued again.
HalvesSwapped(texts) ==
  LET mid == Len(texts) \div 2 IN <<SubSeq(texts, mid + 1, Len(texts)), SubSeq(texts, 1, mid)>>
HalvesKept(texts) == <<texts>>
Halves(texts) ==
  LET mid == Len(texts) \div 2 IN <<SubSeq(texts, 1, mid), SubSeq(texts, mid + 1, Len(texts))>>
Split(b) == Advance(b.ids, b.out, Halves(Head(b.queue)) \o Tail(b.queue))

-----------------------------------------------------------------------------
(* embed_chunks *)

Changed == DOMAIN Chunks \ unchanged
ToEmbed == UNION {ToSet(Chunks[f]) : f \in Changed}

\* Files come in the order of a hash map, the chunks of each in their own.
Begin(same, order) ==
  LET chunks == FlattenSeq([i \in DOMAIN order |-> Chunks[order[i]]]) IN
  /\ call # "running" /\ calls < MaxCalls
  /\ calls' = calls + 1 /\ result' = {} /\ jobs' = {}
  /\ unchanged' = same
  /\ waiting' = Pieces(chunks, WorkingBatchSize(BatchSize))
  /\ call' = IF chunks = <<>> THEN "ok" ELSE "running"
  /\ UNCHANGED <<server, cache>>

Start ==
  /\ call = "running" /\ waiting # <<>> /\ Cardinality(jobs) < MaxConcurrent
  /\ jobs' = jobs \cup {NewBatch(Head(waiting))}
  /\ waiting' = Tail(waiting)
  /\ UNCHANGED <<server, cache, call, unchanged, result, calls>>

Becomes(b, c) == jobs' = (jobs \ {b}) \cup {c} /\ UNCHANGED call
\* The first error ends the call; batches in flight are dropped.
Abort == call' = "failed" /\ jobs' = {}

Succeed(b) ==
  /\ b.queue # <<>> /\ Len(Head(b.requests)) <= server.capacity
  /\ \E data \in Answers(Head(b.requests)) : Becomes(b, Received(b, InOrder(data)))
  /\ UNCHANGED <<server, cache, unchanged, waiting, result, calls>>

Refuse(b) ==
  /\ b.queue # <<>> /\ Len(Head(b.requests)) > server.capacity
  /\ IF Len(Head(b.queue)) > 1
     THEN Becomes(b, Split(b)) /\ Remember((Len(Head(b.queue)) + 1) \div 2)
     ELSE Abort /\ UNCHANGED cache
  /\ UNCHANGED <<server, unchanged, waiting, result, calls>>

\* An attempt fails without an answer.
Again(b, why) == why \in Retried[server.provider] /\ b.attempt < MaxRetries
Retry(b, why) ==
  /\ b.queue # <<>> /\ Again(b, why)
  /\ Becomes(b, [b EXCEPT !.attempt = @ + 1])
  /\ UNCHANGED <<server, cache, unchanged, waiting, result, calls>>
GiveUp(b, why) ==
  /\ b.queue # <<>> /\ ~Again(b, why)
  /\ Abort
  /\ UNCHANGED <<server, cache, unchanged, waiting, result, calls>>

\* Batches are collected in the order they end; ids and vectors are zipped.
Collect(b) ==
  /\ b.queue = <<>>
  /\ jobs' = jobs \ {b}
  /\ result' = result \cup {<<b.ids[i], b.out[i]>> : i \in 1 .. Fewer(Len(b.ids), Len(b.out))}
  /\ call' = IF jobs' = {} /\ waiting = <<>> THEN "ok" ELSE call
  /\ UNCHANGED <<server, cache, unchanged, waiting, calls>>

Init ==
  /\ server \in [provider : Providers, capacity : 0 .. BatchSize]
  /\ cache = None /\ call = "idle" /\ unchanged = {} /\ waiting = <<>> /\ jobs = {}
  /\ result = {} /\ calls = 0

Step ==
  \/ Start
  \/ \E b \in jobs : Succeed(b) \/ Refuse(b) \/ Collect(b)
  \/ \E b \in jobs, why \in Transient \cup {"other"} : Retry(b, why) \/ GiveUp(b, why)
Next ==
  \/ \E same \in SUBSET DOMAIN Chunks : \E order \in SetToSeqs(DOMAIN Chunks \ same) : Begin(same, order)
  \/ Step

\* Every request has a time limit, and the stream of batches is polled to its end.
Spec == Init /\ [][Next]_vars /\ WF_vars(Step)

-----------------------------------------------------------------------------
(* Properties *)

\* A call that succeeds has one vector for every chunk of the changed files, and it is
\* of that chunk's own text: however batches were cut, planned, answered, split, retried
\* and finished.
VectorsAreOfTheirTexts ==
  call = "ok" =>
    result = {<<c[1], IF server.provider = "openai" THEN Sent(c[2]) ELSE <<"whole", c[2]>>>> : c \in ToEmbed}

\* Every call ends: what is refused is split until it fits or fails, and retries run out.
CallsEnd == call = "running" ~> call # "running"
=============================================================================
