------------------------- MODULE RequestPath_proofs -------------------------
(***************************************************************************)
(* Proofs about RequestPath: what reaches Redis, what the metrics say,     *)
(* what is answered, and what one bad reply costs, for any requests,       *)
(* environments, replies and buckets.                                      *)
(***************************************************************************)
EXTENDS RequestPath, SequenceLemmas, FiniteSetTheorems

-----------------------------------------------------------------------------
(* The cumulative buckets *)

\* The equation of the recursive function in Cumulative.
Sums(c, buckets, i) == IF i = 0 THEN 0 ELSE c[i - 1] + buckets[i]

SumsUp(c, buckets) == c = [i \in 0 .. NumBuckets |-> Sums(c, buckets, i)]

\* The equation has a solution, for any number of buckets.
LEMMA SumsExist == ASSUME NEW buckets PROVE \E c : SumsUp(c, buckets)
<1> DEFINE Upto(c, n) == \A m \in 0 .. n : c[m] = Sums(c, buckets, m)
           N == {n \in Nat : \E c : Upto(c, n)}
<1>1. 0 \in N
  <2>1. Upto([m \in 0 .. 0 |-> 0], 0)
    BY DEF Sums
  <2> QED
    BY <2>1
<1>2. ASSUME NEW n \in N PROVE n + 1 \in N
  <2>1. PICK c : Upto(c, n)
    OBVIOUS
  <2> DEFINE d == [m \in 0 .. n + 1 |-> IF m <= n THEN c[m] ELSE Sums(c, buckets, m)]
  <2>2. (\A m \in 0 .. n : d[m] = c[m]) /\ d[n + 1] = Sums(c, buckets, n + 1)
    OBVIOUS
  <2> HIDE DEF d
  <2>3. Upto(d, n + 1)
    BY <2>1, <2>2 DEF Sums
  <2> QED
    BY <2>3
<1>3. N = Nat
  <2> HIDE DEF N
  <2>1. N \in SUBSET Nat
    BY DEF N
  <2> QED
    BY <1>1, <1>2, <2>1, SetInduction
<1>4. PICK c : Upto(c, NumBuckets)
  BY <1>3, BucketsAssumption
<1> DEFINE d == [i \in 0 .. NumBuckets |-> c[i]]
<1>5. \A m \in 0 .. NumBuckets : c[m] = Sums(d, buckets, m)
  BY <1>4, BucketsAssumption DEF Sums
<1> QED
  BY <1>5 DEF SumsUp

\* The sums are what their recursion says.
LEMMA CumulativeUnfolds ==
  ASSUME NEW buckets, NEW i \in 0 .. NumBuckets
  PROVE  Cumulative(buckets)[i] = IF i = 0 THEN 0 ELSE Cumulative(buckets)[i - 1] + buckets[i]
<1> DEFINE c == CHOOSE c : SumsUp(c, buckets)
<1>1. SumsUp(c, buckets)
  BY SumsExist
<1>2. Cumulative(buckets) = c
  BY Zenon DEF Cumulative, Sums, SumsUp
<1> HIDE DEF c
<1> QED
  BY <1>1, <1>2 DEF SumsUp, Sums

Buckets == [1 .. NumBuckets -> Nat]

\* They are numbers that never fall.
LEMMA CumulativeRises ==
  ASSUME NEW buckets \in Buckets
  PROVE  /\ \A i \in 0 .. NumBuckets : Cumulative(buckets)[i] \in Nat
         /\ \A i \in 1 .. NumBuckets : Cumulative(buckets)[i - 1] <= Cumulative(buckets)[i]
<1> DEFINE c == Cumulative(buckets)
           N == {n \in Nat : n <= NumBuckets => c[n] \in Nat}
<1>1. \A i \in 0 .. NumBuckets : c[i] = IF i = 0 THEN 0 ELSE c[i - 1] + buckets[i]
  BY CumulativeUnfolds
<1> HIDE DEF c
<1>2. 0 \in N
  BY <1>1, BucketsAssumption
<1>3. ASSUME NEW n \in N PROVE n + 1 \in N
  BY <1>1, BucketsAssumption DEF Buckets
<1>4. N = Nat
  <2> HIDE DEF N
  <2>1. N \in SUBSET Nat
    BY DEF N
  <2> QED
    BY <1>2, <1>3, <2>1, SetInduction
<1>5. \A i \in 0 .. NumBuckets : c[i] \in Nat
  BY <1>4, BucketsAssumption
<1>6. ASSUME NEW i \in 1 .. NumBuckets PROVE c[i - 1] <= c[i]
  <2>1. i \in 0 .. NumBuckets /\ i # 0 /\ i - 1 \in 0 .. NumBuckets /\ buckets[i] \in Nat
    BY BucketsAssumption DEF Buckets
  <2> QED
    BY <1>1, <1>5, <2>1
<1> QED
  BY <1>5, <1>6 DEF c

\* The buckets after a duration fell into bucket d.
Hit(buckets, d) == [i \in 1 .. NumBuckets |-> buckets[i] + IF i \in {d} THEN 1 ELSE 0]

\* One more duration makes the sum of all buckets at most one larger.
LEMMA CumulativeHit ==
  ASSUME NEW buckets \in Buckets, NEW d \in 1 .. NumBuckets + 1
  PROVE  /\ Hit(buckets, d) \in Buckets
         /\ Cumulative(Hit(buckets, d))[NumBuckets] <= Cumulative(buckets)[NumBuckets] + 1
<1> DEFINE c == Cumulative(buckets)
           hit == Hit(buckets, d)
           e == Cumulative(hit)
           N == {n \in Nat : n <= NumBuckets => e[n] = c[n] + IF n >= d THEN 1 ELSE 0}
<1>1. \A i \in 0 .. NumBuckets : c[i] = IF i = 0 THEN 0 ELSE c[i - 1] + buckets[i]
  BY CumulativeUnfolds
<1>2. \A i \in 0 .. NumBuckets : e[i] = IF i = 0 THEN 0 ELSE e[i - 1] + hit[i]
  BY CumulativeUnfolds
<1>3. \A i \in 0 .. NumBuckets : c[i] \in Nat
  BY CumulativeRises
<1>4. hit \in Buckets /\ \A i \in 1 .. NumBuckets : hit[i] = buckets[i] + IF i = d THEN 1 ELSE 0
  BY DEF Hit, Buckets
<1> HIDE DEF c, e, hit
<1>5. 0 \in N
  BY <1>1, <1>2, BucketsAssumption
<1>6. ASSUME NEW n \in N PROVE n + 1 \in N
  <2> SUFFICES ASSUME n + 1 <= NumBuckets
               PROVE  e[n + 1] = c[n + 1] + IF n + 1 >= d THEN 1 ELSE 0
    OBVIOUS
  <2>1. n \in Nat /\ n + 1 \in 1 .. NumBuckets /\ n \in 0 .. NumBuckets
    BY BucketsAssumption
  <2>2. e[n] = c[n] + (IF n >= d THEN 1 ELSE 0) /\ c[n] \in Nat
    BY <1>3, <2>1
  <2>3. c[n + 1] = c[n] + buckets[n + 1] /\ e[n + 1] = e[n] + hit[n + 1]
    BY <1>1, <1>2, <2>1
  <2>4. hit[n + 1] = buckets[n + 1] + (IF n + 1 = d THEN 1 ELSE 0) /\ buckets[n + 1] \in Nat
    BY <1>4, <2>1 DEF Buckets
  <2> QED
    BY <2>1, <2>2, <2>3, <2>4
<1>7. N = Nat
  <2> HIDE DEF N
  <2>1. N \in SUBSET Nat
    BY DEF N
  <2> QED
    BY <1>5, <1>6, <2>1, SetInduction
<1>8. e[NumBuckets] <= c[NumBuckets] + 1
  BY <1>3, <1>7, BucketsAssumption
<1> QED
  BY <1>4, <1>8 DEF c, e, hit

-----------------------------------------------------------------------------
(* Recording a request *)

Histogram == [buckets : Buckets, count : Nat]

\* Every method has a label.
LEMMA LabelOf == ASSUME NEW method PROVE NormalizeMethod(method) \in Labels
BY DEF NormalizeMethod, Labels

\* A counter per key, with one more under a key.
OneMore(counts, key) == counts (+) SetToBag({key})

\* What recordRequest does to the counters and to the histograms.
LEMMA Recorded ==
  ASSUME NEW m, m.histograms \in [Labels -> Histogram],
         NEW method, NEW status, NEW d \in 1 .. NumBuckets + 1,
         NEW n, n = RecordRequest(m, method, status, d),
         NEW label, label = NormalizeMethod(method)
  PROVE  /\ n.counts = OneMore(m.counts, Key(method, status))
         /\ n.histograms \in [Labels -> Histogram]
         /\ n.histograms[label] = [buckets |-> Hit(m.histograms[label].buckets, d),
                                   count |-> m.histograms[label].count + 1]
         /\ \A l \in Labels : l # label => n.histograms[l] = m.histograms[l]
<1> DEFINE old == m.histograms[label]
           new == [buckets |-> Hit(old.buckets, d), count |-> old.count + 1]
<1>1. label \in Labels
  BY LabelOf
<1>2. old \in Histogram /\ old.buckets \in Buckets
  BY <1>1 DEF Histogram
<1>3. new \in Histogram
  BY <1>2, CumulativeHit DEF Histogram
<1>4. n.counts = OneMore(m.counts, Key(method, status))
  BY DEF RecordRequest, Record, OneMore
<1>5. n.histograms = [m.histograms EXCEPT ![label] = new]
  BY DEF RecordRequest, Record, Hit
<1> HIDE DEF new
<1> QED
  BY <1>1, <1>3, <1>4, <1>5 DEF new

\* What adding to the counters does.
LEMMA Added ==
  ASSUME NEW counts, NEW key, \A k \in DOMAIN counts : counts[k] \in Nat
  PROVE  /\ DOMAIN OneMore(counts, key) = DOMAIN counts \cup {key}
         /\ \A k \in DOMAIN counts : k # key => OneMore(counts, key)[k] = counts[k]
         /\ OneMore(counts, key)[key] = IF key \in DOMAIN counts THEN counts[key] + 1 ELSE 1
BY DEF OneMore, \oplus, SetToBag

-----------------------------------------------------------------------------
(* The metrics and the answers *)

\* The answers under a key, and under a label.
With(key) == {r \in Answered : Key(request[r].method, answer[r].status) = key}
Of(label) == {r \in Answered : NormalizeMethod(request[r].method) = label}

Keys == {Key(request[r].method, answer[r].status) : r \in Answered}

\* The state of metrics.ts counts the answers.
Counts ==
  /\ DOMAIN metrics.counts = Keys
  /\ \A key \in DOMAIN metrics.counts : metrics.counts[key] = Cardinality(With(key))
  /\ metrics.histograms \in [Labels -> Histogram]
  /\ \A label \in Labels :
       /\ metrics.histograms[label].count = Cardinality(Of(label))
       /\ Cumulative(metrics.histograms[label].buckets)[NumBuckets] <= metrics.histograms[label].count

\* Sets of requests are finite.
LEMMA FiniteSets ==
  /\ \A key : IsFiniteSet(With(key)) /\ IsFiniteSet(With(key)')
  /\ \A label : IsFiniteSet(Of(label)) /\ IsFiniteSet(Of(label)')
<1>1. \A S \in SUBSET Requests : IsFiniteSet(S)
  BY RequestsAssumption, FS_Subset
<1> QED
  BY <1>1 DEF With, Of, Answered

\* A first answer to a request, with any status, keeps the counts.
LEMMA AnswerCounts ==
  ASSUME NEW r \in Requests, NEW q, NEW response, Answer(r, q, response),
         DOMAIN answer = Requests, answer[r] = None, response.status # 0,
         DOMAIN response = {"status", "body"},
         request'[r] = q, \A s \in Requests \ {r} : request'[s] = request[s],
         env.metrics, Counts
  PROVE  Counts'
<1> DEFINE key == Key(q.method, response.status)
           label == NormalizeMethod(q.method)
<1>1. PICK d \in 1 .. NumBuckets + 1 :
        metrics' = RecordRequest(metrics, q.method, response.status, d)
  BY DEF Answer
<1>2. answer'[r].status = response.status /\ \A s \in Requests \ {r} : answer'[s] = answer[s]
  BY DEF Answer
<1>3. r \notin Answered /\ Answered' = Answered \cup {r}
  BY <1>2 DEF Answered, None
<1>4. /\ With(key)' = With(key) \cup {r} /\ r \notin With(key)
      /\ \A k : k # key => With(k)' = With(k)
  BY <1>2, <1>3 DEF With, Answered
<1>5. /\ Of(label)' = Of(label) \cup {r} /\ r \notin Of(label)
      /\ \A l : l # label => Of(l)' = Of(l)
  BY <1>2, <1>3 DEF Of, Answered
<1>6. Keys' = Keys \cup {key}
  BY <1>2, <1>3 DEF Keys, Answered
<1>7. /\ Cardinality(With(key)') = Cardinality(With(key)) + 1
      /\ Cardinality(Of(label)') = Cardinality(Of(label)) + 1
  BY <1>4, <1>5, FiniteSets, FS_AddElement
<1>8. metrics.histograms \in [Labels -> Histogram] /\ label \in Labels
  BY LabelOf DEF Counts
<1> DEFINE old == metrics.histograms[label]
<1>n. \A k \in DOMAIN metrics.counts : metrics.counts[k] \in Nat
  BY FiniteSets, FS_CardinalityType DEF Counts
<1>9. /\ metrics'.counts = OneMore(metrics.counts, key)
      /\ metrics'.histograms \in [Labels -> Histogram]
      /\ metrics'.histograms[label] = [buckets |-> Hit(old.buckets, d), count |-> old.count + 1]
      /\ \A l \in Labels : l # label => metrics'.histograms[l] = metrics.histograms[l]
  BY <1>1, <1>8, Recorded
<1>a. /\ DOMAIN metrics'.counts = DOMAIN metrics.counts \cup {key}
      /\ \A k \in DOMAIN metrics.counts : k # key => metrics'.counts[k] = metrics.counts[k]
      /\ metrics'.counts[key] = IF key \in DOMAIN metrics.counts THEN metrics.counts[key] + 1 ELSE 1
  <2> DEFINE counts == metrics.counts
  <2>1. \A k \in DOMAIN counts : counts[k] \in Nat
    BY <1>n
  <2> HIDE DEF counts, key
  <2>2. /\ DOMAIN OneMore(counts, key) = DOMAIN counts \cup {key}
        /\ \A k \in DOMAIN counts : k # key => OneMore(counts, key)[k] = counts[k]
        /\ OneMore(counts, key)[key] = IF key \in DOMAIN counts THEN counts[key] + 1 ELSE 1
    BY <2>1, Added
  <2> QED
    BY <1>9, <2>2 DEF counts
<1> HIDE DEF key, label
<1>10. DOMAIN metrics'.counts = Keys'
  BY <1>6, <1>a DEF Counts
<1>11. ASSUME NEW k \in DOMAIN metrics'.counts
       PROVE  metrics'.counts[k] = Cardinality(With(k)')
  <2>1. CASE k # key
    BY <1>4, <1>11, <1>a, <2>1 DEF Counts
  <2>2. CASE k = key /\ key \in DOMAIN metrics.counts
    BY <1>7, <1>a, <2>2 DEF Counts
  <2>3. CASE k = key /\ key \notin DOMAIN metrics.counts
    <3>1. With(key) = {}
      BY <2>3 DEF Counts, Keys, With
    <3> QED
      BY <1>7, <1>a, <2>3, <3>1, FS_EmptySet
  <2> QED
    BY <2>1, <2>2, <2>3
<1>12. ASSUME NEW l \in Labels
       PROVE  /\ metrics'.histograms[l].count = Cardinality(Of(l)')
              /\ Cumulative(metrics'.histograms[l].buckets)[NumBuckets] <= metrics'.histograms[l].count
  <2>1. CASE l # label
    BY <1>5, <1>9, <2>1 DEF Counts
  <2>2. CASE l = label
    <3>1. old \in Histogram /\ old.count = Cardinality(Of(label)) /\ Cumulative(old.buckets)[NumBuckets] <= old.count
      BY <1>8 DEF Counts
    <3>2. old.buckets \in Buckets /\ old.count \in Nat
      BY <3>1 DEF Histogram
    <3>3. /\ Cumulative(old.buckets)[NumBuckets] \in Nat
          /\ Hit(old.buckets, d) \in Buckets
          /\ Cumulative(Hit(old.buckets, d))[NumBuckets] <= Cumulative(old.buckets)[NumBuckets] + 1
      BY <3>2, CumulativeRises, CumulativeHit, BucketsAssumption
    <3>4. Cumulative(Hit(old.buckets, d))[NumBuckets] \in Nat
      BY <3>3, CumulativeRises, BucketsAssumption
    <3> HIDE DEF old
    <3> QED
      BY <1>7, <1>9, <2>2, <3>1, <3>2, <3>3, <3>4
  <2> QED
    BY <2>1, <2>2
<1> QED
  BY <1>9, <1>10, <1>11, <1>12 DEF Counts

-----------------------------------------------------------------------------
(* The invariant *)

Domains ==
  /\ DOMAIN pc = Requests /\ DOMAIN request = Requests /\ DOMAIN calls = Requests
  /\ DOMAIN replies = Requests /\ DOMAIN answer = Requests

\* An idle request has neither calls nor an answer; later it is one of its
\* inputs, and a waiting one was answered by the timeout or not at all.
Progress(r) ==
  /\ pc[r] \in {"idle", "waiting", "done"}
  /\ pc[r] = "idle" => answer[r] = None /\ calls[r] = <<>>
  /\ pc[r] # "idle" => request[r] \in Inputs[r]
  /\ pc[r] = "waiting" => answer[r] = None \/ answer[r].status = 504

Batches == {"pipeline", "multi-exec"}
Singles == {"command", "path", "publish"}

\* A request that a handler sends commands for.
Sent(q) ==
  /\ Route(q) \in Batches \cup Singles
  /\ Route(q) \in Batches => q.body[1] = "batch"
  /\ Route(q) = "path" => q.path # <<>>

\* What was sent had passed the guards of a server that started.
Admitted(r) ==
  calls[r] # <<>> =>
    /\ Starts
    /\ \E q \in Inputs[r] : request[r] = q /\ Token(q) = env.token /\ calls[r] = SentCalls(q) /\ Sent(q)

\* A handler that came in time shaped its answer from replies to its calls.
Shaped(r) ==
  pc[r] = "done" /\ calls[r] # <<>> /\ answer[r].status # 504 =>
    \E q \in Inputs[r] : \E rs \in RedisReplies(q, SentCalls(q)) : \E response \in Responses(q, rs) :
      /\ request[r] = q /\ replies[r] = rs
      /\ answer[r].status = response.status
      /\ answer[r] = response \/ (q.method = "HEAD" /\ answer[r].body = <<"none">>)

Inv ==
  /\ Domains
  /\ \A r \in Requests : Progress(r) /\ Admitted(r) /\ Shaped(r)
  /\ env.metrics => Counts

\* What a handler answers is a response with a body and a status.
IsResponse(response) == DOMAIN response = {"status", "body"} /\ response.status # 0

\* An error is one.
LEMMA ErrorIsResponse == \A status \in Nat \ {0} : IsResponse(Error(status))
BY DEF Error, IsResponse

\* A success is one, with status 200.
LEMMA OkIsResponse == \A body : IsResponse(Ok(body)) /\ Ok(body).status = 200
BY DEF Ok, IsResponse

\* Whatever the replies, the handlers answer with one.
LEMMA ResponsesAre == ASSUME NEW q, NEW rs PROVE \A response \in Responses(q, rs) : IsResponse(response)
<1>1. \A entry : IsResponse(Single(entry))
  BY ErrorIsResponse, OkIsResponse DEF Single
<1>2. \A cs, base64 : IsResponse(PipelineResponse(cs, rs, base64))
  BY ErrorIsResponse, OkIsResponse DEF PipelineResponse
<1>3. \A cs, base64 : IsResponse(ExecResponse(cs, rs, base64))
  BY OkIsResponse DEF ExecResponse
<1>4. IsResponse(Error(400)) /\ IsResponse(Error(500))
  BY ErrorIsResponse
<1> DEFINE cs == ParsedCalls(q)
<1>5. CASE Route(q) = "pipeline"
  <2>1. Responses(q, rs) = {PipelineResponse(cs, rs, q.base64)}
    BY <1>5 DEF Responses
  <2> QED
    BY <1>2, <2>1
<1>6. CASE Route(q) = "multi-exec"
  <2>1. Responses(q, rs) = IF Failed(rs) THEN {Error(400), Error(500)} ELSE {ExecResponse(cs, rs, q.base64)}
    BY <1>6 DEF Responses
  <2> QED
    BY <1>3, <1>4, <2>1
<1>7. CASE Route(q) \notin {"pipeline", "multi-exec"}
  <2>1. \E base64 : Responses(q, rs) = {Single(ShapeExecResults(cs, rs, base64)[1])}
    BY <1>7 DEF Responses
  <2> QED
    BY <1>1, <2>1
<1> QED
  BY <1>5, <1>6, <1>7

\* What leaving through the logger does, with or without metrics.
LEMMA Answering ==
  ASSUME NEW r \in Requests, NEW q, NEW response, Answer(r, q, response), IsResponse(response),
         DOMAIN answer = Requests, answer[r] = None, env' = env,
         request'[r] = q, \A s \in Requests \ {r} : request'[s] = request[s],
         env.metrics => Counts
  PROVE  /\ DOMAIN answer' = Requests
         /\ \A s \in Requests \ {r} : answer'[s] = answer[s]
         /\ answer'[r].status = response.status
         /\ answer'[r] = response \/ (q.method = "HEAD" /\ answer'[r].body = <<"none">>)
         /\ env'.metrics => Counts'
<1>1. env.metrics => Counts'
  BY AnswerCounts DEF IsResponse
<1> QED
  BY <1>1 DEF Answer, IsResponse

\* What the operators on requests read of the state is the environment.
LEMMA EnvOnly ==
  ASSUME env' = env
  PROVE  /\ Starts' = Starts
         /\ \A q : /\ Token(q)' = Token(q) /\ Route(q)' = Route(q)
                  /\ SentCalls(q)' = SentCalls(q) /\ Sent(q)' = Sent(q)
                  /\ \A rs : Responses(q, rs)' = Responses(q, rs)
                  /\ \A cs : RedisReplies(q, cs)' = RedisReplies(q, cs)
<1>1. Starts' = Starts
  BY DEF Starts
<1>2. ASSUME NEW q
      PROVE  /\ Token(q)' = Token(q) /\ Route(q)' = Route(q)
             /\ SentCalls(q)' = SentCalls(q) /\ Sent(q)' = Sent(q)
             /\ \A rs : Responses(q, rs)' = Responses(q, rs)
             /\ \A cs : RedisReplies(q, cs)' = RedisReplies(q, cs)
  <2>1. Token(q)' = Token(q)
    BY DEF Token
  <2>2. Route(q)' = Route(q)
    BY DEF Route
  <2>3. ParsedCalls(q)' = ParsedCalls(q)
    BY <2>2 DEF ParsedCalls
  <2>4. \A call : Sendable(call)' = Sendable(call)
    BY DEF Sendable
  <2>5. SentCalls(q)' = SentCalls(q)
    BY <2>3, <2>4 DEF SentCalls
  <2>6. \A rs : Responses(q, rs)' = Responses(q, rs)
    BY <2>2, <2>3 DEF Responses
  <2>7. \A cs : RedisReplies(q, cs)' = RedisReplies(q, cs)
    BY <2>2 DEF RedisReplies
  <2>8. Sent(q)' = Sent(q)
    BY <2>2 DEF Sent
  <2> QED
    BY <2>1, <2>2, <2>5, <2>6, <2>7, <2>8
<1> QED
  BY <1>1, <1>2

\* A request that nothing happens to.
LEMMA Untouched ==
  ASSUME NEW s \in Requests, Progress(s), Admitted(s), Shaped(s), env' = env,
         pc'[s] = pc[s], request'[s] = request[s], calls'[s] = calls[s],
         replies'[s] = replies[s], answer'[s] = answer[s]
  PROVE  (Progress(s) /\ Admitted(s) /\ Shaped(s))'
<1>1. Progress(s)'
  BY DEF Progress
<1>2. Admitted(s)'
  BY EnvOnly DEF Admitted
<1>3. Shaped(s)'
  BY EnvOnly DEF Shaped
<1> QED
  BY <1>1, <1>2, <1>3

\* A request that is answered before anything is awaited.
LEMMA AtOnce ==
  ASSUME Inv, NEW r \in Requests, pc[r] = "idle", NEW q \in Inputs[r], NEW response,
         AnswerAtOnce(r, q, response), IsResponse(response)
  PROVE  Inv'
<1>1. answer[r] = None /\ calls[r] = <<>> /\ DOMAIN answer = Requests
  BY DEF Inv, Domains, Progress
<1>2. /\ env' = env /\ calls' = calls /\ replies' = replies
      /\ pc' = [pc EXCEPT ![r] = "done"] /\ request' = [request EXCEPT ![r] = q]
      /\ Answer(r, q, response)
  BY DEF AnswerAtOnce, Arrives
<1>3. request'[r] = q /\ \A s \in Requests \ {r} : request'[s] = request[s]
  BY <1>2 DEF Inv, Domains
<1>4. /\ DOMAIN answer' = Requests
      /\ \A s \in Requests \ {r} : answer'[s] = answer[s]
      /\ env'.metrics => Counts'
  BY <1>1, <1>2, <1>3, Answering DEF Inv
<1>5. Domains'
  BY <1>2, <1>4 DEF Inv, Domains
<1>6. pc'[r] = "done" /\ \A s \in Requests \ {r} : pc'[s] = pc[s]
  BY <1>2 DEF Inv, Domains
<1>7. ASSUME NEW s \in Requests PROVE (Progress(s) /\ Admitted(s) /\ Shaped(s))'
  <2>1. CASE s = r
    <3>1. Progress(r)'
      BY <1>3, <1>6 DEF Progress
    <3>2. Admitted(r)' /\ Shaped(r)'
      BY <1>1, <1>2 DEF Admitted, Shaped
    <3> QED
      BY <2>1, <3>1, <3>2
  <2>2. CASE s # r
    <3>1. Progress(s) /\ Admitted(s) /\ Shaped(s)
      BY DEF Inv
    <3>2. /\ pc'[s] = pc[s] /\ request'[s] = request[s] /\ calls'[s] = calls[s]
          /\ replies'[s] = replies[s] /\ answer'[s] = answer[s] /\ env' = env
      BY <1>2, <1>3, <1>4, <1>6, <2>2
    <3> QED
      BY <3>1, <3>2, Untouched
  <2> QED
    BY <2>1, <2>2
<1> QED
  BY <1>4, <1>5, <1>7 DEF Inv

\* A request whose commands are sent.
LEMMA Sending ==
  ASSUME Inv, Starts, NEW r \in Requests, pc[r] = "idle", NEW q \in Inputs[r], Send(r, q)
  PROVE  Inv'
<1>1. answer[r] = None /\ DOMAIN answer = Requests
  BY DEF Inv, Domains, Progress
<1>2. /\ env' = env /\ replies' = replies /\ answer' = answer /\ metrics' = metrics
      /\ pc' = [pc EXCEPT ![r] = "waiting"] /\ request' = [request EXCEPT ![r] = q]
      /\ calls' = [calls EXCEPT ![r] = SentCalls(q)]
  BY DEF Send, Arrives
<1>3. Token(q) = env.token /\ Sent(q)
  <2>1. Guard(q) = 0 /\ Valid(q) /\ Route(q) \notin {"health", "metrics", "none", "stream"}
    BY DEF Send, SendsCommands, Passes, Unguarded
  <2>2. Token(q) = env.token
    BY <2>1 DEF Guard
  <2>3. Route(q) = "path" => q.path # <<>>
    BY <2>1 DEF Valid
  <2>4. Route(q) \in Batches => q.body[1] = "batch"
    BY <2>1 DEF Valid, Batch, Batches
  <2>5. Route(q) \in {"health", "metrics", "none", "stream"} \cup Batches \cup Singles
    BY DEF Route, Batches, Singles
  <2> QED
    BY <2>1, <2>2, <2>3, <2>4, <2>5 DEF Sent
<1>4. /\ request'[r] = q /\ calls'[r] = SentCalls(q) /\ pc'[r] = "waiting"
      /\ \A s \in Requests \ {r} : /\ request'[s] = request[s] /\ calls'[s] = calls[s]
                                   /\ pc'[s] = pc[s]
  BY <1>2 DEF Inv, Domains
<1>5. Domains'
  BY <1>2 DEF Inv, Domains
<1>6. env'.metrics => Counts'
  <2>1. Answered' = Answered /\ \A s \in Answered : request'[s] = request[s]
    BY <1>1, <1>2, <1>4 DEF Answered
  <2>2. Keys' = Keys
    BY <1>2, <2>1 DEF Keys
  <2>3. \A key : With(key)' = With(key)
    BY <1>2, <2>1 DEF With
  <2>4. \A label : Of(label)' = Of(label)
    BY <1>2, <2>1 DEF Of
  <2> QED
    BY <1>2, <2>2, <2>3, <2>4 DEF Counts, Inv
<1>7. ASSUME NEW s \in Requests PROVE (Progress(s) /\ Admitted(s) /\ Shaped(s))'
  <2>1. CASE s = r
    <3>1. Progress(r)' /\ Shaped(r)'
      BY <1>1, <1>2, <1>4 DEF Progress, Shaped
    <3>2. Admitted(r)'
      BY <1>2, <1>3, <1>4, EnvOnly DEF Admitted
    <3> QED
      BY <2>1, <3>1, <3>2
  <2>2. CASE s # r
    <3>1. Progress(s) /\ Admitted(s) /\ Shaped(s)
      BY DEF Inv
    <3> QED
      BY <1>2, <1>4, <2>2, <3>1, Untouched
  <2> QED
    BY <2>1, <2>2
<1> QED
  BY <1>5, <1>6, <1>7 DEF Inv

\* A request whose timer fires.
LEMMA TimingOut ==
  ASSUME Inv, NEW r \in Requests, RequestTimesOut(r) PROVE Inv'
<1>1. /\ env' = env /\ replies' = replies /\ pc' = pc /\ request' = request /\ calls' = calls
      /\ pc[r] = "waiting" /\ answer[r] = None
  BY DEF RequestTimesOut
<1>2. Answer(r, request[r], Error(504)) /\ IsResponse(Error(504)) /\ Error(504).status = 504
  BY ErrorIsResponse DEF RequestTimesOut, Error
<1>3. /\ DOMAIN answer' = Requests
      /\ \A s \in Requests \ {r} : answer'[s] = answer[s]
      /\ answer'[r].status = 504
      /\ env'.metrics => Counts'
  <2> DEFINE q == request[r]
             response == Error(504)
  <2>1. /\ Answer(r, q, response) /\ IsResponse(response) /\ response.status = 504
        /\ request'[r] = q /\ \A s \in Requests \ {r} : request'[s] = request[s]
        /\ DOMAIN answer = Requests /\ (env.metrics => Counts)
    BY <1>1, <1>2 DEF Inv, Domains
  <2> HIDE DEF q, response
  <2> QED
    BY <1>1, <2>1, Answering
<1>4. Domains'
  BY <1>1, <1>3 DEF Inv, Domains
<1>5. ASSUME NEW s \in Requests PROVE (Progress(s) /\ Admitted(s) /\ Shaped(s))'
  <2>0. Progress(s) /\ Admitted(s) /\ Shaped(s)
    BY DEF Inv
  <2>1. CASE s = r
    <3>1. Progress(r)' /\ Shaped(r)'
      BY <1>1, <1>3, <2>0, <2>1 DEF Progress, Shaped
    <3>2. Admitted(r)'
      BY <1>1, <2>0, <2>1, EnvOnly DEF Admitted
    <3> QED
      BY <2>1, <3>1, <3>2
  <2>2. CASE s # r
    BY <1>1, <1>3, <2>0, <2>2, Untouched
  <2> QED
    BY <2>1, <2>2
<1> QED
  BY <1>3, <1>4, <1>5 DEF Inv

\* A handler that resumes with Redis' replies.
LEMMA Completing ==
  ASSUME Inv, NEW r \in Requests, Complete(r) PROVE Inv'
<1> SUFFICES ASSUME NEW q, request[r] = q PROVE Inv'
  OBVIOUS
<1>0. Progress(r) /\ Admitted(r) /\ Shaped(r) /\ DOMAIN answer = Requests /\ pc[r] = "waiting"
  BY DEF Inv, Domains, Complete
<1>1. /\ env' = env /\ request' = request /\ calls' = calls
      /\ pc' = [pc EXCEPT ![r] = "done"]
  BY DEF Complete
<1>2. PICK rs \in RedisReplies(q, calls[r]) :
        /\ replies' = [replies EXCEPT ![r] = rs]
        /\ IF answer[r] = None
             THEN \E response \in Responses(q, rs) : Answer(r, q, response)
             ELSE UNCHANGED <<answer, metrics>>
  BY DEF Complete
<1>3. /\ pc'[r] = "done" /\ replies'[r] = rs
      /\ \A s \in Requests \ {r} : pc'[s] = pc[s] /\ replies'[s] = replies[s]
      /\ DOMAIN pc' = Requests /\ DOMAIN replies' = Requests
  BY <1>1, <1>2 DEF Inv, Domains
<1>4. /\ DOMAIN answer' = Requests
      /\ \A s \in Requests \ {r} : answer'[s] = answer[s]
      /\ env'.metrics => Counts'
      /\ \/ answer'[r].status = 504
         \/ \E response \in Responses(q, rs) :
              /\ answer'[r].status = response.status
              /\ answer'[r] = response \/ (q.method = "HEAD" /\ answer'[r].body = <<"none">>)
  <2>1. CASE answer[r] = None
    <3>1. PICK response \in Responses(q, rs) : Answer(r, q, response)
      BY <1>2, <2>1
    <3>2. IsResponse(response)
      BY ResponsesAre
    <3>3. /\ request'[r] = q /\ \A s \in Requests \ {r} : request'[s] = request[s]
          /\ env.metrics => Counts
      BY <1>1 DEF Inv
    <3>4. /\ DOMAIN answer' = Requests
          /\ \A s \in Requests \ {r} : answer'[s] = answer[s]
          /\ answer'[r].status = response.status
          /\ answer'[r] = response \/ (q.method = "HEAD" /\ answer'[r].body = <<"none">>)
          /\ env'.metrics => Counts'
      BY <1>0, <1>1, <2>1, <3>1, <3>2, <3>3, Answering
    <3> QED
      BY <3>4
  <2>2. CASE answer[r] # None
    <3>1. answer' = answer /\ metrics' = metrics /\ answer[r].status = 504
      BY <1>0, <1>2, <2>2 DEF Progress
    <3>2. env'.metrics => Counts'
      BY <1>1, <3>1 DEF Inv, Counts, Keys, With, Of, Answered
    <3> QED
      BY <1>0, <3>1, <3>2
  <2> QED
    BY <2>1, <2>2
<1>5. Domains'
  BY <1>1, <1>3, <1>4 DEF Inv, Domains
<1>6. ASSUME NEW s \in Requests PROVE (Progress(s) /\ Admitted(s) /\ Shaped(s))'
  <2>1. CASE s = r
    <3>1. Progress(r)'
      BY <1>0, <1>1, <1>3 DEF Progress
    <3>2. Admitted(r)'
      BY <1>0, <1>1, EnvOnly DEF Admitted
    <3>3. Shaped(r)'
      <4>1. SUFFICES ASSUME calls[r] # <<>>, answer'[r].status # 504 PROVE Shaped(r)'
        BY <1>1 DEF Shaped
      <4>2. q \in Inputs[r] /\ calls[r] = SentCalls(q)
        BY <1>0, <4>1 DEF Admitted
      <4>3. PICK response \in Responses(q, rs) :
              /\ answer'[r].status = response.status
              /\ answer'[r] = response \/ (q.method = "HEAD" /\ answer'[r].body = <<"none">>)
        BY <1>4, <4>1
      <4>4. request'[r] = q /\ replies'[r] = rs /\ rs \in RedisReplies(q, SentCalls(q))
        BY <1>1, <1>3, <4>2
      <4>5. rs \in RedisReplies(q, SentCalls(q))' /\ response \in Responses(q, rs)'
        BY <1>1, <4>3, <4>4, EnvOnly
      <4> QED
        BY <4>2, <4>3, <4>4, <4>5 DEF Shaped
    <3> QED
      BY <2>1, <3>1, <3>2, <3>3
  <2>2. CASE s # r
    <3>1. Progress(s) /\ Admitted(s) /\ Shaped(s)
      BY DEF Inv
    <3> QED
      BY <1>1, <1>3, <1>4, <2>2, <3>1, Untouched
  <2> QED
    BY <2>1, <2>2
<1> QED
  BY <1>4, <1>5, <1>6 DEF Inv

\* A request that arrives.
LEMMA Handling == ASSUME Inv, NEW r \in Requests, Handle(r) PROVE Inv'
<1>1. PICK q \in Inputs[r] :
        \/ AnswerHealth(r, q) \/ AnswerMetrics(r, q) \/ AnswerRefused(r, q)
        \/ AnswerNotFound(r, q) \/ OpenStream(r, q) \/ AnswerInvalid(r, q)
        \/ AnswerEmpty(r, q) \/ Send(r, q)
  BY DEF Handle
<1>2. Starts /\ pc[r] = "idle"
  BY DEF Handle
<1>3. ASSUME NEW response, AnswerAtOnce(r, q, response), IsResponse(response) PROVE Inv'
  BY <1>2, <1>3, AtOnce
<1>4. CASE AnswerHealth(r, q)
  <2>1. PICK status \in {200, 503} : AnswerAtOnce(r, q, [status |-> status, body |-> <<"probe">>])
    BY <1>4 DEF AnswerHealth
  <2>2. IsResponse([status |-> status, body |-> <<"probe">>])
    BY DEF IsResponse
  <2> QED
    BY <1>3, <2>1, <2>2
<1>5. CASE AnswerMetrics(r, q)
  BY <1>3, <1>5, OkIsResponse DEF AnswerMetrics
<1>6. CASE AnswerRefused(r, q)
  <2>1. Guard(q) \in Nat \ {0} /\ AnswerAtOnce(r, q, Error(Guard(q)))
    BY <1>6 DEF AnswerRefused, Guard
  <2> QED
    BY <1>3, <2>1, ErrorIsResponse
<1>7. CASE AnswerNotFound(r, q)
  BY <1>3, <1>7, ErrorIsResponse DEF AnswerNotFound
<1>8. CASE OpenStream(r, q)
  <2>1. PICK response \in {Ok(<<"stream">>), Error(503), Error(400)} : AnswerAtOnce(r, q, response)
    BY <1>8 DEF OpenStream
  <2>2. IsResponse(response)
    BY OkIsResponse, ErrorIsResponse
  <2> QED
    BY <1>3, <2>1, <2>2
<1>9. CASE AnswerInvalid(r, q)
  BY <1>3, <1>9, ErrorIsResponse DEF AnswerInvalid
<1>10. CASE AnswerEmpty(r, q)
  BY <1>3, <1>10, OkIsResponse DEF AnswerEmpty
<1>11. CASE Send(r, q)
  BY <1>2, <1>11, Sending
<1> QED
  BY <1>1, <1>4, <1>5, <1>6, <1>7, <1>8, <1>9, <1>10, <1>11

\* A step that changes nothing the invariant looks at.
LEMMA Unchanging ==
  ASSUME Inv, UNCHANGED <<env, pc, request, calls, replies, answer, metrics>> PROVE Inv'
<1>1. Domains'
  BY DEF Inv, Domains
<1>2. ASSUME NEW s \in Requests PROVE (Progress(s) /\ Admitted(s) /\ Shaped(s))'
  <2>1. Progress(s) /\ Admitted(s) /\ Shaped(s)
    BY DEF Inv
  <2> QED
    BY <2>1, Untouched
<1>3. env'.metrics => Counts'
  BY DEF Inv, Counts, Keys, With, Of, Answered
<1> QED
  BY <1>1, <1>2, <1>3 DEF Inv

\* Nothing has been counted at the start.
LEMMA InitialCounts == Init => Counts
<1> SUFFICES ASSUME Init PROVE Counts
  OBVIOUS
<1>1. Answered = {}
  BY DEF Init, Answered
<1>2. Keys = {} /\ (\A key : With(key) = {}) /\ \A label : Of(label) = {}
  BY <1>1 DEF Keys, With, Of
<1> DEFINE zeros == [i \in 1 .. NumBuckets |-> 0]
<1>3. /\ DOMAIN metrics.counts = {}
      /\ metrics.histograms = [l \in Labels |-> [buckets |-> zeros, count |-> 0]]
  BY DEF Init, NoMetrics, EmptyBag, SetToBag
<1>4. zeros \in Buckets
  BY DEF Buckets
<1>5. Cumulative(zeros)[NumBuckets] = 0
  <2> DEFINE c == Cumulative(zeros)
             N == {n \in Nat : n <= NumBuckets => c[n] = 0}
  <2>1. \A i \in 0 .. NumBuckets : c[i] = IF i = 0 THEN 0 ELSE c[i - 1] + zeros[i]
    BY CumulativeUnfolds
  <2> HIDE DEF c
  <2>2. 0 \in N
    BY <2>1, BucketsAssumption
  <2>3. ASSUME NEW n \in N PROVE n + 1 \in N
    BY <2>1, BucketsAssumption
  <2>4. N = Nat
    <3> HIDE DEF N
    <3>1. N \in SUBSET Nat
      BY DEF N
    <3> QED
      BY <2>2, <2>3, <3>1, SetInduction
  <2> QED
    BY <2>4, BucketsAssumption DEF c
<1> HIDE DEF zeros
<1>6. metrics.histograms \in [Labels -> Histogram]
  BY <1>3, <1>4 DEF Histogram
<1> QED
  BY <1>2, <1>3, <1>5, <1>6, FS_EmptySet DEF Counts

\* The invariant holds.
THEOREM InvHolds == Spec => []Inv
<1>1. Init => Inv
  <2> SUFFICES ASSUME Init PROVE Inv
    OBVIOUS
  <2>1. Domains
    BY DEF Init, Domains
  <2>2. \A r \in Requests : Progress(r) /\ Admitted(r) /\ Shaped(r)
    BY DEF Init, Progress, Admitted, Shaped
  <2> QED
    BY <2>1, <2>2, InitialCounts DEF Inv
<1>2. Inv /\ [Next]_vars => Inv'
  <2> SUFFICES ASSUME Inv, [Next]_vars PROVE Inv'
    OBVIOUS
  <2>1. CASE BeginShutdown
    BY <2>1, Unchanging DEF BeginShutdown
  <2>2. ASSUME NEW r \in Requests, Handle(r) PROVE Inv'
    BY <2>2, Handling
  <2>3. ASSUME NEW r \in Requests, RequestTimesOut(r) PROVE Inv'
    BY <2>3, TimingOut
  <2>4. ASSUME NEW r \in Requests, Complete(r) PROVE Inv'
    BY <2>4, Completing
  <2>5. CASE UNCHANGED vars
    BY <2>5, Unchanging DEF vars
  <2> QED
    BY <2>1, <2>2, <2>3, <2>4, <2>5 DEF Next
<1> QED
  BY <1>1, <1>2, PTL DEF Spec

-----------------------------------------------------------------------------
(* The theorems *)

\* For any number of requests and buckets, /metrics shows what the clients were
\* sent: a counter per method and status, buckets that never fall, and in the
\* last one every request (recordRequest, formatMetrics, loggerMiddleware).
THEOREM MetricsCountAnswers == Spec => []CountedAsSent
<1>1. Inv => CountedAsSent
  <2> SUFFICES ASSUME Inv, env.metrics PROVE CountedAsSent
    BY DEF CountedAsSent
  <2> DEFINE m == FormatMetrics(metrics)
  <2>0. Counts
    BY DEF Inv
  <2>1. m.totals = metrics.counts
    BY DEF FormatMetrics
  <2>2. BagToSet(m.totals) = Keys
    BY <2>0, <2>1 DEF Counts, BagToSet
  <2>3. \A key \in BagToSet(m.totals) : m.totals[key] = Cardinality(With(key))
    BY <2>0, <2>1 DEF Counts, BagToSet
  <2>4. ASSUME NEW label \in Labels
        PROVE  /\ \A i \in 1 .. NumBuckets : m.histograms[label][i] <= m.histograms[label][i + 1]
               /\ m.histograms[label][NumBuckets + 1] = Cardinality(Of(label))
    <3> DEFINE h == metrics.histograms[label]
               c == Cumulative(h.buckets)
               shown == m.histograms[label]
    <3>1. h \in Histogram /\ h.count = Cardinality(Of(label)) /\ c[NumBuckets] <= h.count
      BY <2>0 DEF Counts
    <3>2. shown = [i \in 1 .. NumBuckets + 1 |-> IF i <= NumBuckets THEN c[i] ELSE h.count]
      BY DEF FormatMetrics
    <3>3. \A i \in 1 .. NumBuckets : c[i - 1] <= c[i]
      BY <3>1, CumulativeRises DEF Histogram
    <3> HIDE DEF c, h, shown
    <3>4. shown[NumBuckets + 1] = h.count
      BY <3>2, BucketsAssumption
    <3>5. ASSUME NEW i \in 1 .. NumBuckets PROVE shown[i] <= shown[i + 1]
      <4>1. CASE i < NumBuckets
        <5>1. c[(i + 1) - 1] <= c[i + 1] /\ (i + 1) - 1 = i
          BY <3>3, <4>1, BucketsAssumption
        <5> QED
          BY <3>2, <4>1, <5>1, BucketsAssumption
      <4>2. CASE i = NumBuckets
        BY <3>1, <3>2, <4>2, BucketsAssumption
      <4> QED
        BY <4>1, <4>2, BucketsAssumption
    <3> QED
      BY <3>1, <3>4, <3>5 DEF shown
  <2> HIDE DEF m
  <2> QED
    BY <2>2, <2>3, <2>4 DEF CountedAsSent, m, Keys, With, Of
<1> QED
  BY <1>1, InvHolds, PTL

-----------------------------------------------------------------------------
(* What is sent *)

\* The arguments a query gives are words of its pairs, the token's left out.
LEMMA QueryWords ==
  ASSUME NEW query \in Seq(STRING \X STRING), NEW S,
         \A pair \in ToSet(query) : pair[1] # "_token" => ToSet(pair) \subseteq S
  PROVE  QueryArgs(query) \in Seq(S)
<1> DEFINE T == {pair \in ToSet(query) : pair[1] # "_token"}
           P == (STRING \X STRING) \cap T
           args == Arguments(query)
           seqs == [i \in DOMAIN args |-> IF args[i][2] = "" THEN <<args[i][1]>> ELSE args[i]]
<1>1. args \in Seq(P)
  BY KeepProperties DEF Arguments
<1>2. ASSUME NEW pair \in P PROVE (IF pair[2] = "" THEN <<pair[1]>> ELSE pair) \in Seq(S)
  <2>1. pair = <<pair[1], pair[2]>> /\ ToSet(pair) \subseteq S
    OBVIOUS
  <2>2. pair[1] \in S /\ pair[2] \in S
    BY <2>1 DEF ToSet
  <2>3. <<pair[1]>> \in Seq(S) /\ <<pair[1], pair[2]>> \in Seq(S)
    BY <2>2
  <2> QED
    BY <2>1, <2>3
<1>3. seqs \in Seq(Seq(S))
  <2>1. DOMAIN args = 1 .. Len(args) /\ Len(args) \in Nat /\ \A i \in 1 .. Len(args) : args[i] \in P
    BY <1>1
  <2> HIDE DEF args, P
  <2>2. \A i \in 1 .. Len(args) : seqs[i] \in Seq(S)
    BY <1>2, <2>1
  <2>3. seqs = [i \in 1 .. Len(args) |-> seqs[i]]
    BY <2>1
  <2> HIDE DEF seqs
  <2> QED
    BY <2>1, <2>2, <2>3
<1>4. QueryArgs(query) = FlattenSeq(seqs)
  BY DEF QueryArgs
<1> HIDE DEF seqs
<1> QED
  BY <1>3, <1>4, Flattened

\* The arguments of a path command are words of its request.
LEMMA PathWords ==
  ASSUME NEW q, q.path \in Seq(STRING), q.path # <<>>, q.query \in Seq(STRING \X STRING)
  PROVE  ToSet(PathCall(q).args) \subseteq Words(q)
<1> DEFINE S == Words(q)
           text == IF q.body[1] = "text" THEN q.body[2] ELSE "JSON"
<1>1. /\ \A i \in 1 .. Len(q.path) : q.path[i] \in S
      /\ text \in S
      /\ \A pair \in ToSet(q.query) : pair[1] # "_token" => ToSet(pair) \subseteq S
  BY DEF Words, ToSet
<1> HIDE DEF S
<1>2. q.path \in Seq(S)
  BY <1>1
<1>3. Tail(q.path) \in Seq(S)
  BY <1>2, Shifted
<1>4. QueryArgs(q.query) \in Seq(S)
  BY <1>1, QueryWords
<1>5. PICK body \in Seq(S) : PathCall(q).args = Tail(q.path) \o body \o QueryArgs(q.query)
  <2>1. <<>> \in Seq(S) /\ <<text>> \in Seq(S)
    BY <1>1
  <2> DEFINE body == CASE Get(q) \/ q.body[1] = "none" -> <<>>
                       [] ~Get(q) /\ q.body[1] = "text" -> <<q.body[2]>>
                       [] OTHER -> <<"JSON">>
  <2>2. body \in {<<>>, <<text>>}
    OBVIOUS
  <2>3. PathCall(q).args = Tail(q.path) \o body \o QueryArgs(q.query)
    BY DEF PathCall
  <2> HIDE DEF body
  <2> QED
    BY <2>1, <2>2, <2>3
<1>6. PathCall(q).args \in Seq(S)
  BY <1>3, <1>4, <1>5
<1>7. ToSet(PathCall(q).args) \subseteq S
  BY <1>6 DEF ToSet
<1> QED
  BY <1>7 DEF S

\* What a sequence is as a function.
LEMMA SeqDomain ==
  ASSUME NEW S, NEW s \in Seq(S)
  PROVE  Len(s) \in Nat /\ DOMAIN s = 1 .. Len(s) /\ \A i \in DOMAIN s : s[i] \in S
OBVIOUS

\* What a sequence of pairs is.
LEMMA Pairs ==
  ASSUME NEW S, NEW s \in Seq(S \X S)
  PROVE  DOMAIN s \subseteq Nat /\ \A i \in DOMAIN s : s[i] = <<s[i][1], s[i][2]>>
<1> DEFINE P == S \X S
<1>1. \A pair \in P : pair = <<pair[1], pair[2]>>
  OBVIOUS
<1> HIDE DEF P
<1>2. s \in Seq(P)
  BY DEF P
<1>3. DOMAIN s = 1 .. Len(s) /\ \A i \in DOMAIN s : s[i] \in P
  BY <1>2, SeqDomain
<1> QED
  BY <1>1, <1>3

\* An empty sequence has no elements.
LEMMA NoElements == ToSet(<<>>) = {}
<1>1. DOMAIN <<>> = {}
  OBVIOUS
<1> QED
  BY <1>1 DEF ToSet

\* A sequence of two elements.
LEMMA TwoElements == ASSUME NEW S, NEW s \in Seq(S), Len(s) = 2 PROVE s = <<s[1], s[2]>>
OBVIOUS

\* The token was found in the header or, where that is allowed, in the query.
LEMMA TokenGiven ==
  ASSUME NEW q, q.header \in Seq(STRING), q.query \in Seq(STRING \X STRING),
         Token(q) = env.token, env.token # ""
  PROVE  \/ q.header = <<"bearer", env.token>>
         \/ q.header = <<>> /\ env.allowTokenQuery /\ <<"_token", env.token>> \in ToSet(q.query)
<1>1. CASE q.header # <<>>
  <2>1. Len(q.header) = 2 /\ q.header[1] = "bearer" /\ q.header[2] = env.token
    BY <1>1 DEF Token
  <2>2. q.header = <<q.header[1], q.header[2]>>
    BY <2>1, TwoElements
  <2> QED
    BY <2>1, <2>2
<1>2. CASE q.header = <<>>
  <2> DEFINE tokens == {i \in DOMAIN q.query : q.query[i][1] = "_token"}
  <2>1. env.allowTokenQuery /\ QueryToken(q) = env.token
    BY <1>2 DEF Token
  <2>2. tokens # {} /\ q.query[Min(tokens)][2] = env.token
    BY <2>1 DEF QueryToken
  <2>3. tokens \in SUBSET Nat
    <3>1. DOMAIN q.query \subseteq Nat
      BY Pairs
    <3> QED
      BY <3>1
  <2>4. Min(tokens) \in tokens
    <3> HIDE DEF tokens
    <3>1. \E m \in tokens : \A j \in tokens : m <= j
      BY <2>2, <2>3, LeastElement
    <3> QED
      BY <3>1 DEF Min
  <2>5. PICK i \in DOMAIN q.query : q.query[i][1] = "_token" /\ q.query[i][2] = env.token
    BY <2>2, <2>4
  <2>6. q.query[i] = <<q.query[i][1], q.query[i][2]>>
    BY Pairs
  <2>7. q.query[i] = <<"_token", env.token>>
    BY <2>5, <2>6
  <2> QED
    BY <1>2, <2>1, <2>7 DEF ToSet
<1> QED
  BY <1>1, <1>2

\* Whatever the requests and the environment, Redis sees commands only from
\* requests with the token, never under a placeholder that is not allowed, never
\* with the token of a query as an argument, and no blocked ones
\* (authMiddleware, assertTokenNotPlaceholder, parsePathCommand).
THEOREM OnlyAdmittedAreSent == Spec => []Guarded
<1>1. Inv => Guarded
  <2> SUFFICES ASSUME Inv, NEW r \in Requests, calls[r] # <<>>
               PROVE  LET q == request[r] IN
                      /\ \/ q.header = <<"bearer", env.token>>
                         \/ q.header = <<>> /\ env.allowTokenQuery /\ <<"_token", env.token>> \in ToSet(q.query)
                      /\ IsPlaceholderToken(env.token) => env.allowPlaceholder
                      /\ \A i \in DOMAIN calls[r] :
                           /\ Route(q) = "path" => ToSet(calls[r][i].args) \subseteq Words(q)
                           /\ \/ calls[r][i] = NotACommand
                              \/ calls[r][i].command \notin {"SUBSCRIBE", "PSUBSCRIBE", "MULTI"}
                                                            \cup (ToSet(env.blocked) \ {""})
    BY DEF Guarded
  <2>1. Starts
    BY DEF Inv, Admitted
  <2>2. PICK q \in Inputs[r] :
          /\ request[r] = q /\ Token(q) = env.token /\ calls[r] = SentCalls(q)
          /\ Route(q) = "path" => q.path # <<>>
    BY DEF Inv, Admitted, Sent
  <2>3. q.path \in Seq(STRING) /\ q.header \in Seq(STRING) /\ q.query \in Seq(STRING \X STRING)
    BY InputsAssumption
  <2>4. env.token # "" /\ (IsPlaceholderToken(env.token) => env.allowPlaceholder)
    BY <2>1 DEF Starts
  <2>5. \/ q.header = <<"bearer", env.token>>
        \/ q.header = <<>> /\ env.allowTokenQuery /\ <<"_token", env.token>> \in ToSet(q.query)
    BY <2>2, <2>3, <2>4, TokenGiven
  <2>6. ASSUME NEW i \in DOMAIN calls[r]
        PROVE  /\ Route(q) = "path" => ToSet(calls[r][i].args) \subseteq Words(q)
               /\ \/ calls[r][i] = NotACommand
                  \/ calls[r][i].command \notin {"SUBSCRIBE", "PSUBSCRIBE", "MULTI"}
                                                \cup (ToSet(env.blocked) \ {""})
    <3> DEFINE call == calls[r][i]
    <3>1. \/ call = NotACommand
          \/ Sendable(call) /\ i \in DOMAIN ParsedCalls(q) /\ call = ParsedCalls(q)[i]
      BY <2>2 DEF SentCalls
    <3>2. call = NotACommand \/ call.command \notin {"SUBSCRIBE", "PSUBSCRIBE", "MULTI"}
                                                      \cup (ToSet(env.blocked) \ {""})
      BY <3>1 DEF Sendable, BLOCKED_COMMANDS, ParseCommandList
    <3>3. ASSUME Route(q) = "path" PROVE ToSet(call.args) \subseteq Words(q)
      <4>1. CASE call = NotACommand
        <5>1. NotACommand.args = <<>>
          BY DEF NotACommand
        <5> QED
          BY <4>1, <5>1, NoElements
      <4>2. CASE call # NotACommand
        <5>1. ParsedCalls(q) = <<PathCall(q)>>
          BY <3>3 DEF ParsedCalls
        <5>2. call = PathCall(q)
          BY <3>1, <4>2, <5>1
        <5> QED
          BY <2>2, <2>3, <3>3, <5>2, PathWords
      <4> QED
        BY <4>1, <4>2
    <3> QED
      BY <3>2, <3>3
  <2> QED
    BY <2>2, <2>4, <2>5, <2>6
<1> QED
  BY <1>1, InvHolds, PTL

-----------------------------------------------------------------------------
(* What is answered *)

\* The translation is right for each reply of the table, read as its request
\* says; a handler for PUBLISH never encodes.
TableFaithful ==
  \A p \in Protocol : \A base64, decoded \in BOOLEAN :
    base64 = decoded \/ (p.command = "PUBLISH" /\ ~base64) =>
      \/ p.resp3[1] = "err" \/ TooDeep(p.resp3)
      \/ LET v == Shape(p, p.resp3, base64)[2] IN (IF decoded THEN SdkDecode(v) ELSE v) = p.resp2

\* The entry for a reply, and what EntryFaithful asks of it.
Entry(call, v, base64) ==
  IF v[1] = "err" \/ TooDeep(v) THEN <<"error">> ELSE Shape(call, v, base64)

EntryRight(q, call, v, entry) ==
  IF v[1] = "err" \/ TooDeep(v) THEN entry = <<"error">>
  ELSE \E p \in Protocol :
         /\ p.command = call.command /\ p.args = call.args /\ p.resp3 = v
         /\ entry[1] = "result" /\ (IF q.base64 THEN SdkDecode(entry[2]) ELSE entry[2]) = p.resp2

\* One entry is right if the table is.
LEMMA EntriesRight ==
  ASSUME TableFaithful, NEW q, q.base64 \in BOOLEAN, NEW i \in DOMAIN ParsedCalls(q),
         NEW v \in Redis(SentCalls(q)[i]), NEW base64 \in BOOLEAN,
         base64 = q.base64 \/ (ParsedCalls(q)[i].command = "PUBLISH" /\ ~base64)
  PROVE  EntryRight(q, SentCalls(q)[i], v, Entry(ParsedCalls(q)[i], v, base64))
<1> DEFINE call == ParsedCalls(q)[i]
           sent == SentCalls(q)[i]
<1>0. sent = IF Sendable(call) THEN call ELSE NotACommand
  BY DEF SentCalls
<1>1. CASE v[1] = "err" \/ TooDeep(v)
  BY <1>1 DEF EntryRight, Entry
<1>2. CASE ~(v[1] = "err" \/ TooDeep(v))
  <2>1. v # Lost /\ v # <<"err", "rejected">>
    BY <1>2 DEF Lost
  <2>2. sent # NotACommand /\ sent = call
    BY <1>0, <2>1 DEF Redis
  <2>3. PICK p \in Protocol : p.command = call.command /\ p.args = call.args /\ p.resp3 = v
    BY <2>1, <2>2 DEF Redis
  <2>4. Shape(call, v, base64) = Shape(p, v, base64)
    BY <2>3 DEF Shape
  <2>5. LET w == Shape(p, v, base64)[2] IN (IF q.base64 THEN SdkDecode(w) ELSE w) = p.resp2
    BY <1>2, <2>3 DEF TableFaithful
  <2>6. Shape(p, v, base64)[1] = "result"
    BY DEF Shape
  <2> QED
    BY <1>2, <2>2, <2>3, <2>4, <2>5, <2>6 DEF EntryRight, Entry
<1> QED
  BY <1>1, <1>2

\* The entries of a request, in the places of its calls.
LEMMA ShapedEntries ==
  ASSUME NEW q, NEW rs \in RedisReplies(q, SentCalls(q)), NEW base64
  PROVE  /\ DOMAIN rs = DOMAIN ParsedCalls(q) /\ DOMAIN SentCalls(q) = DOMAIN ParsedCalls(q)
         /\ \A i \in DOMAIN ParsedCalls(q) : rs[i] \in Redis(SentCalls(q)[i])
         /\ DOMAIN ShapeExecResults(ParsedCalls(q), rs, base64) = DOMAIN ParsedCalls(q)
         /\ \A i \in DOMAIN ParsedCalls(q) :
              ShapeExecResults(ParsedCalls(q), rs, base64)[i] = Entry(ParsedCalls(q)[i], rs[i], base64)
<1>1. DOMAIN SentCalls(q) = DOMAIN ParsedCalls(q)
  BY DEF SentCalls
<1>2. DOMAIN rs = DOMAIN SentCalls(q) /\ \A i \in DOMAIN SentCalls(q) : rs[i] \in Redis(SentCalls(q)[i])
  BY DEF RedisReplies
<1> QED
  BY <1>1, <1>2 DEF ShapeExecResults, Entry

\* The entries of a batch are as many as its calls.
LEMMA SameLength ==
  ASSUME NEW n \in Nat, NEW s, NEW t, DOMAIN s = 1 .. n, DOMAIN t = 1 .. n,
         s = [i \in 1 .. n |-> s[i]], t = [i \in 1 .. n |-> t[i]]
  PROVE  Len(s) = Len(t)
<1> DEFINE S == {s[j] : j \in 1 .. n} \cup {t[j] : j \in 1 .. n}
<1>1. \A i \in 1 .. n : s[i] \in S /\ t[i] \in S
  OBVIOUS
<1> HIDE DEF S
<1>2. s \in Seq(S) /\ t \in Seq(S)
  BY <1>1
<1> QED
  BY <1>2

\* What a batch or a single command answers with 200.
LEMMA BatchAnswer ==
  ASSUME NEW q, NEW rs, Route(q) \in Batches, NEW response \in Responses(q, rs), response.status = 200
  PROVE  response.body = <<"entries", ShapeExecResults(ParsedCalls(q), rs, q.base64)>>
<1> DEFINE cs == ParsedCalls(q)
<1>0. Error(400).status = 400 /\ Error(500).status = 500
  BY DEF Error
<1>1. CASE Route(q) = "pipeline"
  <2>1. response = PipelineResponse(cs, rs, q.base64)
    BY <1>1 DEF Responses
  <2> QED
    BY <1>0, <2>1 DEF PipelineResponse, Ok
<1>2. CASE Route(q) = "multi-exec"
  <2>1. response \in {Error(400), Error(500)} \/ response = ExecResponse(cs, rs, q.base64)
    BY <1>2 DEF Responses
  <2> QED
    BY <1>0, <2>1 DEF ExecResponse, Ok
<1> QED
  BY <1>1, <1>2 DEF Batches

\* A single command is one call, and its body the only entry; only PUBLISH by
\* its route disregards the encoding.
LEMMA SingleAnswer ==
  ASSUME NEW q, NEW rs, Route(q) \in Singles, q.base64 \in BOOLEAN,
         NEW response \in Responses(q, rs), response.status = 200
  PROVE  /\ DOMAIN ParsedCalls(q) = {1}
         /\ \E base64 \in BOOLEAN :
              /\ base64 = q.base64 \/ (ParsedCalls(q)[1].command = "PUBLISH" /\ ~base64)
              /\ response.body = ShapeExecResults(ParsedCalls(q), rs, base64)[1]
<1> DEFINE cs == ParsedCalls(q)
<1>0. \A entry : Single(entry).status = 200 => Single(entry).body = entry
  BY DEF Single, Error, Ok
<1>1. CASE Route(q) = "publish"
  <2>1. cs = << [command |-> "PUBLISH", args |-> Tail(q.path)] >>
    BY <1>1 DEF ParsedCalls
  <2>2. response = Single(ShapeExecResults(cs, rs, FALSE)[1])
    BY <1>1 DEF Responses
  <2>3. DOMAIN cs = {1} /\ cs[1].command = "PUBLISH"
    BY <2>1
  <2> QED
    BY <1>0, <2>2, <2>3
<1>2. CASE Route(q) \in {"command", "path"}
  <2>1. PICK call : cs = <<call>>
    BY <1>2 DEF ParsedCalls
  <2>2. response = Single(ShapeExecResults(cs, rs, q.base64)[1])
    BY <1>2 DEF Responses
  <2>3. DOMAIN cs = {1}
    BY <2>1
  <2> QED
    BY <1>0, <2>2, <2>3
<1> QED
  BY <1>1, <1>2 DEF Singles

\* The invariant, with a table that is right, gives right answers.
LEMMA InvFaithful == ASSUME TableFaithful, Inv PROVE Faithful
<1> SUFFICES ASSUME Inv, NEW r \in Requests,
                    answer[r].status = 200, calls[r] # <<>>, answer[r].body # <<"none">>
             PROVE  LET body == answer[r].body IN
                    IF body[1] = "entries"
                      THEN Len(body[2]) = Len(calls[r]) /\ \A i \in DOMAIN calls[r] : EntryFaithful(r, i, body[2][i])
                      ELSE EntryFaithful(r, 1, body)
  BY DEF Faithful, EntriesFaithful
<1>1. Progress(r) /\ Admitted(r) /\ Shaped(r)
  BY DEF Inv
<1>2. pc[r] = "done"
  BY <1>1 DEF Progress, None
<1>3. PICK q, rs, response :
        /\ q \in Inputs[r] /\ rs \in RedisReplies(q, SentCalls(q)) /\ response \in Responses(q, rs)
        /\ request[r] = q /\ replies[r] = rs /\ answer[r] = response
  BY <1>1, <1>2 DEF Shaped
<1>4. calls[r] = SentCalls(q) /\ Sent(q)
  BY <1>1, <1>3 DEF Admitted
<1>5. q.base64 \in BOOLEAN
  BY <1>3, InputsAssumption
<1> DEFINE cs == ParsedCalls(q)
           results(base64) == ShapeExecResults(cs, rs, base64)
<1>6. ASSUME NEW i \in DOMAIN cs, NEW base64 \in BOOLEAN,
             base64 = q.base64 \/ (cs[i].command = "PUBLISH" /\ ~base64)
      PROVE  EntryFaithful(r, i, results(base64)[i])
  <2>1. rs[i] \in Redis(SentCalls(q)[i]) /\ results(base64)[i] = Entry(cs[i], rs[i], base64)
    BY <1>3, ShapedEntries
  <2>2. EntryRight(q, SentCalls(q)[i], rs[i], results(base64)[i])
    BY <1>5, <1>6, <2>1, EntriesRight
  <2> HIDE DEF results
  <2> QED
    BY <1>3, <1>4, <2>2 DEF EntryFaithful, EntryRight
<1>7. CASE Route(q) \in Batches
  <2>1. answer[r].body = <<"entries", results(q.base64)>>
    BY <1>3, <1>7, BatchAnswer
  <2>2. PICK n \in Nat : DOMAIN cs = 1 .. n
    <3>1. PICK n \in Nat : DOMAIN q.body[2] = 1 .. n
      BY <1>3, <1>4, <1>7, InputsAssumption DEF Sent
    <3>2. DOMAIN cs = DOMAIN q.body[2]
      BY <1>7 DEF ParsedCalls, Batches
    <3> QED
      BY <3>1, <3>2
  <2>3. DOMAIN SentCalls(q) = 1 .. n /\ SentCalls(q) = [i \in 1 .. n |-> SentCalls(q)[i]]
    BY <2>2 DEF SentCalls
  <2>4. DOMAIN results(q.base64) = 1 .. n /\ results(q.base64) = [i \in 1 .. n |-> results(q.base64)[i]]
    BY <1>3, <2>2, ShapedEntries DEF ShapeExecResults
  <2>5. Len(results(q.base64)) = Len(calls[r])
    BY <1>4, <2>3, <2>4, SameLength
  <2>6. \A i \in DOMAIN calls[r] : EntryFaithful(r, i, results(q.base64)[i])
    BY <1>4, <1>5, <1>6, <2>2, <2>3
  <2> HIDE DEF results
  <2> QED
    BY <2>1, <2>5, <2>6
<1>8. CASE Route(q) \in Singles
  <2>1. PICK base64 \in BOOLEAN :
          /\ base64 = q.base64 \/ (cs[1].command = "PUBLISH" /\ ~base64)
          /\ answer[r].body = results(base64)[1]
          /\ 1 \in DOMAIN cs
    BY <1>3, <1>5, <1>8, SingleAnswer
  <2>2. EntryFaithful(r, 1, answer[r].body)
    BY <1>6, <2>1
  <2>3. answer[r].body[1] # "entries"
    <3>1. answer[r].body = Entry(cs[1], rs[1], base64)
      BY <1>3, <2>1, ShapedEntries
    <3> QED
      BY <3>1 DEF Entry, Shape
  <2> QED
    BY <2>2, <2>3
<1> QED
  BY <1>4, <1>7, <1>8 DEF Sent

\* If the translation of each reply in the table is right, every successful
\* answer is: however many commands it is for, by whatever route, and whatever
\* replies are errors, lost or too deep (shapeExecResults, executeCommand,
\* handlePublish).
THEOREM AnswersAreFaithful == ASSUME TableFaithful PROVE Spec => []Faithful
BY InvFaithful, InvHolds, PTL

\* What OwnEntryOnly becomes with the exception that the code makes.
OwnEntryButForDepth ==
  \A r \in Requests : BatchRan(r) =>
    \/ EntriesAnswered(r)
    \/ Route(request[r]) = "pipeline" /\ \E i \in DOMAIN replies[r] : TooDeep(replies[r][i])

\* If the translation of each reply in the table is right, a pipeline with a
\* reply that is too deep is the only way to break OwnEntryOnly: every other
\* batch that ran, a transaction with such a reply included, is answered with
\* the error or the RESP2 value of each command in the place of that command
\* (pipeline.ts:71-83, shapeExecResults).
THEOREM OnlyDepthSpreads == ASSUME TableFaithful PROVE Spec => []OwnEntryButForDepth
<1>1. Inv => OwnEntryButForDepth
  <2> SUFFICES ASSUME Inv, NEW r \in Requests, BatchRan(r),
                      ~(Route(request[r]) = "pipeline" /\ \E i \in DOMAIN replies[r] : TooDeep(replies[r][i]))
               PROVE  EntriesAnswered(r)
    BY DEF OwnEntryButForDepth
  <2>1. Progress(r) /\ Admitted(r) /\ Shaped(r) /\ Faithful
    BY InvFaithful DEF Inv
  <2>2. PICK q, rs, response :
          /\ response \in Responses(q, rs) /\ request[r] = q /\ replies[r] = rs
          /\ answer[r].status = response.status
          /\ answer[r] = response \/ (q.method = "HEAD" /\ answer[r].body = <<"none">>)
    BY <2>1 DEF Shaped, BatchRan
  <2> DEFINE cs == ParsedCalls(q)
             entries == ShapeExecResults(cs, rs, q.base64)
  <2>3. response = Ok(<<"entries", entries>>)
    <3>1. CASE Route(q) = "pipeline"
      BY <2>2, <3>1 DEF Responses, PipelineResponse, PipelineThrows
    <3>2. CASE Route(q) = "multi-exec" /\ ~Failed(rs)
      BY <2>2, <3>2 DEF Responses, ExecResponse
    <3> QED
      BY <2>2, <3>1, <3>2 DEF BatchRan
  <2>4. answer[r] = response
    <3>1. Route(q) \in {"pipeline", "multi-exec"}
      BY <2>2 DEF BatchRan
    <3>2. q.method = "POST"
      BY <3>1 DEF Route
    <3> QED
      BY <2>2, <3>2
  <2> QED
    BY <2>1, <2>3, <2>4 DEF Faithful, BatchRan, EntriesAnswered, Ok
<1> QED
  BY <1>1, InvHolds, PTL
=============================================================================
