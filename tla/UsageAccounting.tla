-------------------------- MODULE UsageAccounting --------------------------
(***************************************************************************)
(* Token usage from a provider's response to the administrator's report.   *)
(*                                                                         *)
(* The counters a response reports (responseanalysis/tokenusage) are       *)
(* overlaid within one HTTP response and added up over the responses of a  *)
(* WebSocket session, written to request_logs, and read back by two        *)
(* reports: token analytics (tokenanalytics), which projects, classifies   *)
(* and aggregates rows in SQL inside one read transaction and checks the   *)
(* result in Go, and request statistics (store/sqlite_logs.go), which      *)
(* reads in separate queries.  Requests keep logging while a report is     *)
(* being read.  Rows are never deleted, so a snapshot is a prefix of the   *)
(* table.  Instants are whole seconds, and one report is asked for: a      *)
(* report changes nothing another could see.                               *)
(***************************************************************************)
EXTENDS Integers, Sequences, FiniteSets, FiniteSetsExt, SequencesExt

CONSTANTS
    RankedProviders, Models,  \* numbers: SQL ranks ties by name
    ResponseKeys,       \* the names responses carry in usage events
    Samples,            \* usages a response may report: api type |-> set
    StoredUsages,       \* usages of the rows an old database may hold
    Times,              \* instants a request may be logged at
    Ends,               \* ends of the windows asked for
    Periods,            \* lengths of the fixed windows
    Granularity,
    MaxBucketCount,     \* analyticswindow.MaxBucketCount
    TopRankLimit,
    MaxInt,             \* math.MaxInt64; the integers are -MaxInt-1..MaxInt
    MaxLogs,            \* bound on the rows logged
    MaxResponses,       \* bound on the responses of a session
    Missing

ASSUME UsageAssumption ==
    /\ MaxBucketCount \in Nat \ {0} /\ TopRankLimit \in Nat \ {0}
    /\ MaxInt \in Nat \ {0} /\ Granularity \in Nat \ {0} /\ Periods \subseteq Nat \ {0}

VARIABLES
    exchange,   \* the response or session being observed, or None
    requestLogs,\* the table, in insertion order
    logsLeft,   \* requests that may still be logged
    analysis,   \* the token report being computed
    stats       \* the request statistics being computed

usageVars == <<exchange, requestLogs, logsLeft, analysis, stats>>

Counters == {"prompt", "completion", "total", "reasoning", "read", "creation"}
NoUsage == [f \in Counters |-> Missing]
Known(x) == x # Missing
AllKnown(u, S) == \A f \in S : Known(u[f])

-----------------------------------------------------------------------------
(* Observed counters. *)

(* Go's signed addition. *)
Wrapped(n) == ((n + MaxInt + 1) % (2 * MaxInt + 2)) - MaxInt - 1

Overlaid(u, later) ==
    [f \in Counters |-> IF Known(later[f]) THEN later[f] ELSE u[f]]

(* An absent counter contributes nothing, an explicit zero is a fact. *)
Accumulated(u, addition) ==
    [f \in Counters |-> CASE ~Known(addition[f]) -> u[f]
                          [] ~Known(u[f])        -> addition[f]
                          [] OTHER               -> Wrapped(u[f] + addition[f])]

-----------------------------------------------------------------------------
(* The SQL projection of one row with usage u under the semantics s of its *)
(* API type.                                                               *)

PositiveTotal(u) == Known(u.total) /\ u.total > 0

TotalContradicts(u) ==
    AllKnown(u, {"total", "prompt", "completion"}) /\ u.total # u.prompt + u.completion

Exceeds(u, part, whole) == AllKnown(u, {part, whole}) /\ u[part] > u[whole]

Invalid(u, s) ==
    \/ \E f \in Counters : Known(u[f]) /\ u[f] < 0
    \/ s \in {"anthropic", "openai"} /\ TotalContradicts(u)
    \/ /\ s = "openai"
       /\ \/ Exceeds(u, "read", "prompt") \/ Exceeds(u, "creation", "prompt")
          \/ AllKnown(u, {"prompt", "read", "creation"}) /\ u.read + u.creation > u.prompt
          \/ Exceeds(u, "reasoning", "completion")
    \/ /\ s = "google"
       /\ \/ PositiveTotal(u) /\ Exceeds(u, "prompt", "total")
          \/ /\ PositiveTotal(u) /\ AllKnown(u, {"prompt", "completion"})
             /\ u.total < u.prompt + u.completion
          \/ Exceeds(u, "read", "prompt")

CanonicalInput(u, s) ==
    CASE s = "anthropic" /\ AllKnown(u, {"prompt", "read", "creation"}) ->
            u.prompt + u.read + u.creation
      [] s \in {"openai", "google"} -> u.prompt
      [] OTHER -> Missing

CanonicalOutput(u, s) ==
    CASE s \in {"anthropic", "openai"} -> u.completion
      [] s = "google" /\ PositiveTotal(u) ->
            IF Known(u.prompt) THEN u.total - u.prompt ELSE Missing
      [] s = "google" /\ ~PositiveTotal(u) -> u.completion
      [] OTHER -> Missing

CanonicalTotal(u, s) ==
    LET both == AllKnown(u, {"prompt", "completion"})
    IN  CASE s = "anthropic" /\ both /\ AllKnown(u, {"read", "creation"}) ->
                u.prompt + u.read + u.creation + u.completion
          [] s = "openai" /\ both ->
                IF Known(u.total) THEN u.total ELSE u.prompt + u.completion
          [] s = "google" /\ PositiveTotal(u) /\ Known(u.prompt) -> u.total
          [] s = "google" /\ ~PositiveTotal(u) /\ both -> u.prompt + u.completion
          [] OTHER -> Missing

InputSegments(u, s) ==
    LET cached == AllKnown(u, {"read", "creation"})
        split  == CASE s = "openai" -> Known(u.prompt) /\ cached
                    [] s = "google" -> AllKnown(u, {"prompt", "read"})
                    [] OTHER        -> FALSE
    IN  [fresh |-> CASE s = "anthropic" /\ cached /\ Known(u.prompt) -> u.prompt
                     [] s = "openai" /\ split -> u.prompt - u.read - u.creation
                     [] s = "google" /\ split -> u.prompt - u.read
                     [] OTHER -> 0,
         read  |-> IF split \/ (s = "anthropic" /\ Known(u.read)) THEN u.read ELSE 0,
         creation |-> IF \/ s = "openai" /\ split
                         \/ s = "anthropic" /\ Known(u.creation)
                      THEN u.creation ELSE 0,
         unclassifiedInput |-> IF s \in {"openai", "google"} /\ Known(u.prompt) /\ ~split
                               THEN u.prompt ELSE 0]

OutputSegments(u, s) ==
    LET positive == s = "google" /\ PositiveTotal(u) /\ Known(u.prompt)
        reasoned == s = "openai" /\ AllKnown(u, {"completion", "reasoning"})
    IN  [standard  |-> CASE reasoned -> u.completion - u.reasoning
                         [] \/ positive /\ Known(u.completion)
                            \/ s = "google" /\ ~PositiveTotal(u) /\ Known(u.completion) ->
                               u.completion
                         [] OTHER -> 0,
         reasoning |-> CASE reasoned -> u.reasoning
                         [] positive /\ Known(u.completion) ->
                               u.total - u.prompt - u.completion
                         [] OTHER -> 0,
         unclassifiedOutput |->
             CASE \/ s = "anthropic" /\ Known(u.completion)
                  \/ s = "openai" /\ Known(u.completion) /\ ~Known(u.reasoning) ->
                     u.completion
               [] positive /\ ~Known(u.completion) -> u.total - u.prompt
               [] OTHER -> 0]

Parts == {"total", "input", "output", "fresh", "read", "creation",
          "unclassifiedInput", "standard", "reasoning", "unclassifiedOutput"}

Breakdown(u, s) ==
    [total |-> CanonicalTotal(u, s), input |-> CanonicalInput(u, s),
     output |-> CanonicalOutput(u, s)] @@ InputSegments(u, s) @@ OutputSegments(u, s)

Class(u, s) ==
    CASE \A f \in {"prompt", "completion", "total"} : ~Known(u[f]) -> "without_usage"
      [] Invalid(u, s) -> "invalid"
      [] s = "unknown" -> "unknown_semantics"
      [] Missing \in {CanonicalInput(u, s), CanonicalOutput(u, s), CanonicalTotal(u, s)} ->
            "partial"
      [] OTHER -> "comparable"

Classes == {"without_usage", "invalid", "unknown_semantics", "partial", "comparable"}

-----------------------------------------------------------------------------
(* Windows and buckets. *)

Quotient(n, d) == IF n >= 0 THEN n \div d ELSE -((-n) \div d)

(* bucket_start_unix in SQL. *)
BucketStart(at) ==
    (Quotient(at, Granularity) - IF at < 0 /\ at % Granularity # 0 THEN 1 ELSE 0)
      * Granularity

(* alignUTC in Go. *)
AlignUTC(at) ==
    LET remainder == at - Granularity * Quotient(at, Granularity)
    IN  at - IF remainder < 0 THEN remainder + Granularity ELSE remainder

BucketCount(start, end) ==
    IF start < end THEN Cardinality({n \in AlignUTC(start)..(end - 1) : n % Granularity = 0})
    ELSE 0

(* Every aligned bucket that meets [start, end), clipped to it. *)
BucketBounds(start, end) ==
    [k \in 1..BucketCount(start, end) |->
        LET aligned == AlignUTC(start) + (k - 1) * Granularity
        IN  [aligned |-> aligned,
             start   |-> IF aligned < start THEN start ELSE aligned,
             end     |-> IF aligned + Granularity > end THEN end ELSE aligned + Granularity]]

-----------------------------------------------------------------------------
(* Aggregates over a set of row numbers. *)

SumOver(f(_), S) == FoldSet(LAMBDA i, acc : f(i) + acc, 0, S)

ClassOf(i) == Class(requestLogs[i].usage, requestLogs[i].api)
Comparable(S) == {i \in S : ClassOf(i) = "comparable"}

Aggregate(S) ==
    [p \in Parts |-> SumOver(LAMBDA i : Breakdown(requestLogs[i].usage, requestLogs[i].api)[p],
                             Comparable(S))]

(* SQLite leaves the integers, or fails, on overflow: the text it returns  *)
(* is refused by parseExactInt64.                                          *)
Overflows(b) == \E p \in Parts : b[p] > MaxInt

Conserves(b) ==
    /\ \A p \in Parts : b[p] >= 0
    /\ b.input + b.output = b.total
    /\ b.fresh + b.read + b.creation + b.unclassifiedInput = b.input
    /\ b.standard + b.reasoning + b.unclassifiedOutput = b.output

(* The rows a query selects from the first n of the table. *)
Selected(n, q, start) ==
    {i \in 1..n : /\ requestLogs[i].at < q.end
                  /\ Known(start) => requestLogs[i].at >= start
                  /\ Known(q.provider) => requestLogs[i].provider = q.provider}

Summary(S) ==
    [breakdown |-> Aggregate(S),
     total     |-> Cardinality(S),
     counts    |-> [c \in Classes |-> Cardinality({i \in S : ClassOf(i) = c})],
     earliest  |-> IF S = {} THEN Missing ELSE Min({requestLogs[i].at : i \in S})]

ValidSummary(summary, resolvingAll) ==
    /\ Conserves(summary.breakdown)
    /\ SumOver(LAMBDA c : summary.counts[c], Classes) = summary.total
    /\ resolvingAll => ((summary.total = 0) <=> (summary.earliest = Missing))

BucketRecord(S, aligned) ==
    [aligned |-> aligned, breakdown |-> Aggregate(S), total |-> Cardinality(S),
     comparable |-> Cardinality(Comparable(S))]

BucketRecords(S) ==
    {BucketRecord({i \in S : BucketStart(requestLogs[i].at) = a}, a) :
        a \in {BucketStart(requestLogs[i].at) : i \in S}}

(* Rank records: grouped, ordered by tokens, requests and name, cut. *)
RankRecord(S, key, k) ==
    LET group == {i \in Comparable(S) : key[i] = k}
    IN  [key |-> k, breakdown |-> Aggregate(group), requests |-> Cardinality(group)]

RecordBefore(l, r) ==
    CASE l.breakdown.total # r.breakdown.total -> l.breakdown.total > r.breakdown.total
      [] l.requests # r.requests -> l.requests > r.requests
      [] OTHER -> l.key < r.key

RankRecords(S, key) ==
    LET all    == {RankRecord(S, key, k) : k \in {key[i] : i \in Comparable(S)}}
        ranked == SetToSortSeq(all, RecordBefore)
    IN  IF Len(ranked) <= TopRankLimit THEN ranked ELSE SubSeq(ranked, 1, TopRankLimit)

ValidBuckets(bounds, records) ==
    \A r \in records :
        /\ r.comparable <= r.total /\ Conserves(r.breakdown)
        /\ \E k \in DOMAIN bounds : bounds[k].aligned = r.aligned

ValidRanks(records, total) ==
    /\ \A k \in DOMAIN records : Conserves(records[k].breakdown)
    /\ SumOver(LAMBDA k : records[k].breakdown.total, DOMAIN records) <= total
    /\ \A k \in 1..(Len(records) - 1) : RecordBefore(records[k], records[k + 1])

-----------------------------------------------------------------------------
(* Requests: a response reports usage as it streams, and is logged. *)

OpenExchange(kind, api) ==
    /\ exchange = Missing /\ logsLeft > 0
    /\ (kind = "session") => api = "openai"
    /\ exchange' = [kind |-> kind, api |-> api, usage |-> NoUsage,
                    seenUsageKeys |-> {}, parts |-> <<>>]
    /\ UNCHANGED <<requestLogs, logsLeft, analysis, stats>>

Sample(key, usage) == [key |-> key, usage |-> usage]

hasSeenUsageKey(key) == key # Missing /\ key \in exchange.seenUsageKeys

(* One sample of an HTTP response, or one usage event of a session: an     *)
(* event names its response, or has no key and is always counted.          *)
ObserveUsage(key, usage) ==
    /\ exchange # Missing /\ Len(exchange.parts) < MaxResponses
    /\ usage \in Samples[exchange.api]
    /\ (exchange.kind = "response") => key = Missing
    /\ exchange' = [exchange EXCEPT
          !.usage = CASE exchange.kind = "response" -> Overlaid(@, usage)
                      [] hasSeenUsageKey(key)       -> @
                      [] OTHER                      -> Accumulated(@, usage),
          !.seenUsageKeys = @ \cup ({key} \ {Missing}),
          !.parts = Append(@, Sample(key, usage))]
    /\ UNCHANGED <<requestLogs, logsLeft, analysis, stats>>

(* logRequest: the log may fail to be written, which nobody retries. *)
LogRequest(provider, model, at, ok) ==
    /\ exchange # Missing
    /\ exchange' = Missing
    /\ requestLogs' = IF ok THEN Append(requestLogs,
                                   [provider |-> provider, model |-> model, at |-> at,
                                    api |-> exchange.api, usage |-> exchange.usage])
                      ELSE requestLogs
    /\ logsLeft' = logsLeft - 1
    /\ UNCHANGED <<analysis, stats>>

-----------------------------------------------------------------------------
(* The token report.  The first SELECT pins the snapshot. *)

NoAnalysis == [phase |-> "idle", query |-> Missing, pinned |-> 0, start |-> Missing,
               summary |-> Missing, buckets |-> Missing, providers |-> Missing, models |-> Missing,
               outcome |-> Missing]

Fail(code) == analysis' = [analysis EXCEPT !.phase = "answered", !.outcome = code]

AskUsage(end, period, provider) ==
    /\ analysis.phase = "idle" /\ stats.phase = "idle"
    /\ LET start == IF period = Missing THEN Missing ELSE end - period
       IN  IF period # Missing /\ BucketCount(start, end) > MaxBucketCount
           THEN Fail("too_many_buckets")
           ELSE analysis' = [analysis EXCEPT
                    !.phase = "summary", !.start = start,
                    !.query = [end |-> end, provider |-> provider, all |-> period = Missing]]
    /\ UNCHANGED <<exchange, requestLogs, logsLeft, stats>>

ReadSummary ==
    /\ analysis.phase = "summary"
    /\ LET q       == analysis.query
           summary == Summary(Selected(Len(requestLogs), q, analysis.start))
           start   == CASE ~q.all -> analysis.start
                        [] summary.earliest = Missing -> q.end
                        [] OTHER -> summary.earliest
       IN  CASE Overflows(summary.breakdown) -> Fail("overflow")
             [] ~ValidSummary(summary, q.all) -> Fail("summary_validation")
             [] q.all /\ summary.earliest # Missing /\ start >= q.end -> Fail("invalid_range")
             [] BucketCount(start, q.end) > MaxBucketCount -> Fail("too_many_buckets")
             [] OTHER -> analysis' = [analysis EXCEPT
                            !.phase = "buckets", !.pinned = Len(requestLogs),
                            !.start = start, !.summary = summary]
    /\ UNCHANGED <<exchange, requestLogs, logsLeft, stats>>

(* Mutant: each query sees the table as it is. *)
MutSnapshot == Selected(Len(requestLogs), analysis.query, analysis.start)

Snapshot == Selected(analysis.pinned, analysis.query, analysis.start)

ReadBuckets ==
    /\ analysis.phase = "buckets"
    /\ analysis' = [analysis EXCEPT !.phase = "ranks", !.buckets = BucketRecords(Snapshot)]
    /\ UNCHANGED <<exchange, requestLogs, logsLeft, stats>>

ReadRanks ==
    /\ analysis.phase = "ranks"
    /\ analysis' = [analysis EXCEPT
          !.phase = "mapping",
          !.providers = RankRecords(Snapshot, [i \in Snapshot |-> requestLogs[i].provider]),
          !.models    = RankRecords(Snapshot, [i \in Snapshot |-> requestLogs[i].model])]
    /\ UNCHANGED <<exchange, requestLogs, logsLeft, stats>>

MapReport ==
    /\ analysis.phase = "mapping"
    /\ LET total  == analysis.summary.breakdown.total
           bounds == BucketBounds(analysis.start, analysis.query.end)
       IN  CASE ~ValidBuckets(bounds, analysis.buckets) -> Fail("bucket_validation")
             [] ~ValidRanks(analysis.providers, total) \/ ~ValidRanks(analysis.models, total) ->
                   Fail("rank_validation")
             [] OTHER -> Fail("report")
    /\ UNCHANGED <<exchange, requestLogs, logsLeft, stats>>

-----------------------------------------------------------------------------
(* Request statistics: totals and time series are two statements. *)

InWindow(n, start, end) == {i \in 1..n : requestLogs[i].at >= start /\ requestLogs[i].at < end}

AskStats(end, period) ==
    /\ analysis.phase = "idle" /\ stats.phase = "idle"
    /\ BucketCount(end - period, end) <= MaxBucketCount
    /\ stats' = [phase |-> "series", start |-> end - period, end |-> end,
                 total |-> InWindow(Len(requestLogs), end - period, end), series |-> {}]
    /\ UNCHANGED <<exchange, requestLogs, logsLeft, analysis>>

(* The points generated run up to the bucket that holds the end, which is  *)
(* left out.                                                               *)
ReadTimeSeries ==
    /\ stats.phase = "series"
    /\ stats' = [stats EXCEPT
          !.phase  = "answered",
          !.series = {i \in InWindow(Len(requestLogs), stats.start, stats.end) :
                        BucketStart(requestLogs[i].at)
                          < Quotient(stats.end, Granularity) * Granularity}]
    /\ UNCHANGED <<exchange, requestLogs, logsLeft, analysis>>

-----------------------------------------------------------------------------
StoredRow(api, u) ==
    [provider |-> Min(RankedProviders), model |-> Min(Models), at |-> Min(Times),
     api |-> api, usage |-> u]

UsageInit ==
    /\ exchange = Missing
    /\ \/ requestLogs = <<>> /\ logsLeft = MaxLogs
       \/ /\ \E api \in {"anthropic", "openai", "google", "unknown"}, u \in StoredUsages :
               requestLogs = <<StoredRow(api, u)>>
          /\ logsLeft = 0
    /\ analysis = NoAnalysis
    /\ stats = [phase |-> "idle"]

UsageNext ==
    \/ \E kind \in {"response", "session"}, api \in DOMAIN Samples : OpenExchange(kind, api)
    \/ \E key \in ResponseKeys \cup {Missing}, usage \in UNION {Samples[api] : api \in DOMAIN Samples} :
          ObserveUsage(key, usage)
    \/ \E provider \in RankedProviders, model \in Models, at \in Times, ok \in BOOLEAN :
          LogRequest(provider, model, at, ok)
    \/ \E end \in Ends, period \in Periods \cup {Missing}, provider \in RankedProviders \cup {Missing} :
          AskUsage(end, period, provider)
    \/ ReadSummary
    \/ ReadBuckets
    \/ ReadRanks
    \/ MapReport
    \/ \E end \in Ends, period \in Periods : AskStats(end, period)
    \/ ReadTimeSeries

UsageSpec == UsageInit /\ [][UsageNext]_usageVars

-----------------------------------------------------------------------------
(* A token report is refused only because a sum left the 64-bit integers   *)
(* or because the window has too many buckets: what the SQL projects never *)
(* contradicts what the Go side checks, whatever counters the rows hold    *)
(* and whatever is logged meanwhile.  A report that is shown adds up: its  *)
(* buckets tile the window and sum to the summary, and its ranks account   *)
(* for all of it unless the limit cut some off.                            *)
ReportHolds ==
    analysis.phase = "answered" =>
        \/ analysis.outcome \in {"overflow", "too_many_buckets"}
        \/ /\ analysis.outcome = "report"
           /\ LET b      == analysis.summary.breakdown
                  bounds == BucketBounds(analysis.start, analysis.query.end)
                  Ranked(ranks) == SumOver(LAMBDA k : ranks[k].breakdown.total, DOMAIN ranks)
              IN  /\ \A p \in Parts :
                        FoldSet(LAMBDA r, acc : r.breakdown[p] + acc, 0, analysis.buckets) = b[p]
                  /\ FoldSet(LAMBDA r, acc : r.total + acc, 0, analysis.buckets)
                       = analysis.summary.total
                  /\ bounds # <<>> => /\ bounds[1].start = analysis.start
                                      /\ bounds[Len(bounds)].end = analysis.query.end
                  /\ \A k \in 1..(Len(bounds) - 1) : bounds[k].end = bounds[k + 1].start
                  /\ \A ranks \in {analysis.providers, analysis.models} :
                        Len(ranks) < TopRankLimit => Ranked(ranks) = b.total

(* The usage events of a session that stand for a response of their own:   *)
(* the first of each key.                                                  *)
Responses(parts) ==
    {k \in DOMAIN parts : parts[k].key = Missing \/ \A j \in 1..(k - 1) : parts[j].key # parts[k].key}

(* A WebSocket session whose responses each report the same counters in    *)
(* comparable form is counted as the sum of its responses, each counted    *)
(* once although its usage event may arrive again, while the sums fit.     *)
SessionAdds ==
    (exchange # Missing /\ exchange.kind = "session" /\ exchange.parts # <<>>) =>
        LET parts == exchange.parts
            each  == Responses(parts)
            Of(k) == parts[k].usage
        IN  (/\ \A k \in each : /\ Class(Of(k), exchange.api) = "comparable"
                                /\ \A f \in Counters : Known(Of(k)[f]) <=> Known(Of(1)[f])
             /\ \A f \in Counters : Known(Of(1)[f]) => SumOver(LAMBDA k : Of(k)[f], each) <= MaxInt)
            => /\ Class(exchange.usage, exchange.api) = "comparable"
               /\ \A p \in Parts : Breakdown(exchange.usage, exchange.api)[p] =
                                     SumOver(LAMBDA k : Breakdown(Of(k), exchange.api)[p], each)

\* Reports are exact over what was logged, and a session's usage over what its
\* responses reported.
UsageReported == ReportHolds /\ SessionAdds
=============================================================================
