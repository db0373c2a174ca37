------------------------------ MODULE Counters -------------------------------
(***************************************************************************)
(* The metrics of marshalld (struct Metrics): handlers add to several      *)
(* relaxed atomics and to a mutex-guarded map, and GET /metrics reads them *)
(* one by one.  No order holds between relaxed atomics: the additions of   *)
(* one observation become visible in any order.  The sum of the durations  *)
(* is left out.                                                            *)
(***************************************************************************)
EXTENDS Naturals, Sequences, FiniteSets, Functions

CONSTANTS
  Observers,      \* handlers
  Buckets,        \* the buckets of the histogram, as 1..n
  MaxCounted,     \* bound: requests
  MaxObserved,    \* bound: observations
  MaxScrapes      \* bound: scrapes

ASSUME CountersAssumption ==
  /\ IsFiniteSet(Observers) /\ Buckets \in Nat \ {0}
  /\ MaxCounted \in Nat /\ MaxObserved \in Nat /\ MaxScrapes \in Nat

VARIABLES
  counter,  \* series -> its value
  adding,   \* observer -> series its observation has still to add to
  observed, \* observations begun
  page,     \* the scrape: series read so far -> the value it shows
  last,     \* the scrape before it
  quiet,    \* ghost: no observation was under way since the scrape began
  scrapes   \* scrapes begun

countersVars == <<counter, adding, observed, page, last, quiet, scrapes>>

Requested == <<"requests", 0>>
Total(ok) == <<IF ok THEN "success" ELSE "failure", 0>>
Tool(ok) == <<IF ok THEN "tool success" ELSE "tool failure", 0>>
Bucket(i) == <<"bucket", i>>
Histogram == {Bucket(i) : i \in 1..Buckets}
\* In the order in which exposition reads them.
Exposed == <<Requested, Total(TRUE), Total(FALSE)>> \o [i \in 1..Buckets |-> Bucket(i)]
             \o <<Tool(TRUE), Tool(FALSE)>>
Series == Range(Exposed)

CountersInit ==
  /\ counter = [s \in Series |-> 0]
  /\ adding = [o \in Observers |-> {}]
  /\ observed = 0
  /\ page = << >> /\ last = [s \in Series |-> 0]
  /\ quiet = TRUE /\ scrapes = 0

\* inc_request, by a handler before its call or its batch.
IncRequest(o) ==
  /\ adding[o] = {} /\ counter[Requested] < MaxCounted
  /\ counter' = [counter EXCEPT ![Requested] = @ + 1]
  /\ UNCHANGED <<adding, observed, page, last, quiet, scrapes>>

\* Faulty variant of Additions: a refused request, which took no time, gets no bucket.
Additions_NoBucket(named, ok, i) ==
  {Total(ok)} \cup (IF named THEN {Bucket(i), Tool(ok)} ELSE {})

\* observe_with_tool: the total, the bucket of the duration, and the tool if there is one.
Additions(named, ok, i) ==
  {Total(ok), Bucket(i)} \cup (IF named THEN {Tool(ok)} ELSE {})

\* A handler observes its outcome, each outcome of a batch or a sequence, or,
\* with no tool and in the first bucket, a refusal or an error.
Observe(o) ==
  /\ adding[o] = {} /\ observed < MaxObserved /\ observed' = observed + 1
  /\ \/ \E ok \in BOOLEAN, i \in 1..Buckets :
          adding' = [adding EXCEPT ![o] = Additions(TRUE, ok, i)]
     \/ adding' = [adding EXCEPT ![o] = Additions(FALSE, FALSE, 1)]
  /\ quiet' = FALSE
  /\ UNCHANGED <<counter, page, last, scrapes>>

Add(o) ==
  /\ \E s \in adding[o] :
       /\ adding' = [adding EXCEPT ![o] = @ \ {s}]
       /\ counter' = [counter EXCEPT ![s] = @ + 1]
  /\ UNCHANGED <<observed, page, last, quiet, scrapes>>

\* exposition, one load after the other; the map of the tools is one load.
BeginScrape ==
  /\ DOMAIN page \in {{}, Series} /\ scrapes < MaxScrapes
  /\ scrapes' = scrapes + 1
  /\ last' = IF DOMAIN page = {} THEN last ELSE page
  /\ page' = [s \in {Requested} |-> counter[s]]
  /\ quiet' = (\A o \in Observers : adding[o] = {})
  /\ UNCHANGED <<counter, adding, observed>>

\* Buckets are shown cumulatively.
Shown(s) ==
  IF s \in Histogram /\ s[2] > 1 THEN page[Bucket(s[2] - 1)] + counter[s] ELSE counter[s]

Load ==
  /\ \E i \in 2..Len(Exposed) :
       LET read == IF Exposed[i] = Tool(TRUE) THEN {Tool(TRUE), Tool(FALSE)} ELSE {Exposed[i]} IN
       /\ DOMAIN page = {Exposed[j] : j \in 1..(i - 1)}
       /\ page' = [s \in DOMAIN page \cup read |-> IF s \in read THEN Shown(s) ELSE page[s]]
  /\ UNCHANGED <<counter, adding, observed, last, quiet, scrapes>>

CountersNext ==
  \/ BeginScrape \/ Load
  \/ \E o \in Observers : IncRequest(o) \/ Observe(o) \/ Add(o)

CountersSpec == CountersInit /\ [][CountersNext]_countersVars

\* le="+Inf", the bucket with the highest bound
Infinity == Bucket(Buckets)

-----------------------------------------------------------------------------
\* Counters are numbers, and an observation adds to known series.
CountersTypeOK ==
  /\ counter \in [Series -> Nat] /\ adding \in [Observers -> SUBSET Series]
  /\ observed \in 0..MaxObserved /\ scrapes \in 0..MaxScrapes
  /\ DOMAIN page \subseteq Series /\ quiet \in BOOLEAN

(* A finished scrape never shows a series below the scrape before it; and  *)
(* one that no observation overlaps adds up: every outcome is in exactly   *)
(* one bucket, and those of the tools are among them.                      *)
QuietScrapesAgree ==
  DOMAIN page = Series =>
    /\ \A s \in Series : page[s] >= last[s]
    /\ quiet => /\ page[Total(TRUE)] + page[Total(FALSE)] = page[Infinity]
                /\ \A ok \in BOOLEAN : page[Tool(ok)] <= page[Total(ok)]
=============================================================================
