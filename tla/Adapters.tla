-------------------------------- MODULE Adapters --------------------------------
(***************************************************************************)
(* What a live worker makes of its vendors' answers (providers/live_*.py,  *)
(* the contracts beneath them, identity/validation.py, live/rate_limit.py  *)
(* and person_relevance.py): one lead after the other, a walk asks         *)
(* Abstract, Hunter and Apollo in that order; each HTTP exchange becomes a *)
(* result with a status, an error kind, a cost and canonical fields, and a *)
(* person's fields count only if the answer is about that person.          *)
(*                                                                         *)
(* LiveAcquisition has the guards, the ledger and the crashes around these *)
(* calls; here every guard lets the call through.  Texts are Taxonomy's.   *)
(* Money is in units of 0.0001 USD.                                        *)
(***************************************************************************)
EXTENDS Taxonomy, FiniteSetsExt, SequencesExt

CONSTANTS
  Walks,          \* what a walk is for: [config, wanted, check], a requested
                  \* identity being [name, mail, company]
  Identities,     \* what a vendor may say of whom it found: [name, mail, employer]
  Shorter,        \* <<a, b>>: first name a is a prefix of b, three letters at least
  Titles, Ranks, Departments, \* texts: job titles, seniority enums, pairs of departments
  Headcounts, Industries,     \* what Abstract's two fields say
  MinInterval,    \* min_request_interval_seconds
  RetryAfters,    \* seconds a 429 may ask for
  MaxWalks, MaxSeconds        \* bounds: leads, and the monotonic clock

VARIABLES
  seconds,        \* the monotonic clock
  pacer,          \* [next, retry]: MinIntervalPacer of the Abstract adapter
  calledAt,       \* history: when Abstract was called
  askedToWait,    \* history: [at, until] of the Retry-After answers
  walk            \* the lead being worked on

\* A company is named by its domain; "free" is a class of addresses.
ASSUME AdaptersAssumption ==
  /\ \A w \in Walks : /\ ConfigIsSound(w.config)
                      /\ w.wanted.name \in Seq(STRING) /\ w.wanted.company # "free"
  /\ \A i \in Identities : i.name \in Seq(STRING)
  /\ {MinInterval} \cup RetryAfters \subseteq Nat

adapterVars == <<seconds, pacer, calledAt, askedToWait, walk>>

\* REGISTERED_LIVE_PROVIDER_NAMES, in order, with what they sell.
VENDORS ==
  << [name |-> "abstract", entity |-> "company", cost |-> 16,
      sells |-> {"employee_count", "industry"}],
     [name |-> "hunter", entity |-> "person", cost |-> 49,
      sells |-> {"title_seniority", "title_function"}],
     [name |-> "apollo", entity |-> "person", cost |-> 196,
      sells |-> {"title_seniority", "title_function"}] >>

-----------------------------------------------------------------------------
(* The contracts: which part of an answer speaks for a field.              *)

\* The first that says something (Python's or).
FirstSaid(said) ==
  LET there == {i \in DOMAIN said : said[i] # Silence}
  IN  IF there = {} THEN Silence ELSE said[Min(there)]

\* Apollo: its enum, else the parsed title, else what it said, to be unmapped.
PreferEnumThenTitle(enum, meaning, title, parsed) ==
  IF meaning # Unmapped THEN enum
  ELSE IF parsed # Unmapped THEN {parsed}
  ELSE FirstSaid(<<enum, title>>)
PreferDepartment(person) ==
  LET said == FirstSaid(person.departments)
  IN  PreferEnumThenTitle(said, NormalizeFunction(said),
                          person.title, FunctionFromTitle(person.title))

ExtractApollo(person) ==
  [title_seniority |->
     PreferEnumThenTitle(person.seniority, NormalizeSeniority(person.seniority),
                         person.title, SeniorityFromTitle(person.title)),
   title_function  |-> PreferDepartment(person)]

\* Hunter: the title before the enum for seniority, after it for the function.
ExtractHunter(person) ==
  [title_seniority |->
     IF SeniorityFromTitle(person.title) # Unmapped
     THEN {SeniorityFromTitle(person.title)}
     ELSE FirstSaid(<<person.seniority, person.title>>),
   title_function |-> PreferDepartment(person)]

-----------------------------------------------------------------------------
(* The adapters: an exchange is [got |-> "timeout" or "transport"], or     *)
(* [got |-> "status", code], or [got |-> "body", ...] for a 200, where a    *)
(* matched person may still have nothing to say.                            *)

\* Who refused, and why: the vendors do not agree on their codes.
StatusErrorKind(seller, code) ==
  CASE code = 401 -> "authentication_failed"
    [] code = 402 -> IF seller = "apollo" THEN "quota_exhausted" ELSE "unexpected_status"
    [] code = 403 -> IF seller = "hunter" THEN "rate_limited" ELSE "authentication_failed"
    [] code = 422 -> IF seller = "abstract" THEN "insufficient_credits"
                     ELSE "unprocessable_request"
    [] code = 429 -> IF seller = "hunter" THEN "quota_exhausted" ELSE "rate_limited"
    [] code >= 500 -> "server_error"
    [] OTHER -> "unexpected_status"

Refused(status, kind) ==
  [status |-> status, kind |-> kind, cost |-> 0, fields |-> << >>, unmapped |-> {}]
FreeMiss == Refused("MISS", "none")

\* A record was delivered, and paid for: nothing it says maps, or something does.
Delivered(seller, raw) ==
  LET report == NormalizeProviderFields(raw)
  IN  [status |-> IF report.fields = << >> THEN "MISS" ELSE "SUCCESS", kind |-> "none",
       cost |-> seller.cost, fields |-> report.fields, unmapped |-> report.unmapped]

FetchAbstract(seller, x) ==
  Delivered(seller, [employee_count |-> x.employee_count, industry |-> x.industry])

\* No person, no credit.
FetchApollo(seller, x) ==
  IF x.matched THEN Delivered(seller, ExtractApollo(x.person)) ELSE FreeMiss

\* Neither half, no credit; a company alone is delivered, and paid.
FetchHunter(seller, x) ==
  IF x.matched THEN Delivered(seller, ExtractHunter(x.person))
  ELSE IF x.company THEN Delivered(seller, << >>) ELSE FreeMiss

Result(seller, x) ==
  CASE x.got = "timeout" -> Refused("TIMEOUT", "timeout")
    [] x.got = "transport" -> Refused("ERROR", "transport_error")
    [] x.got = "malformed" -> Refused("ERROR", "malformed_response")
    [] x.got = "status" ->
         IF seller.name = "hunter" /\ x.code = 404 THEN FreeMiss
         ELSE Refused("ERROR", StatusErrorKind(seller.name, x.code))
    [] x.got = "body" ->
         CASE seller.name = "abstract" -> FetchAbstract(seller, x)
           [] seller.name = "hunter" -> FetchHunter(seller, x)
           [] seller.name = "apollo" -> FetchApollo(seller, x)

People ==
  [title : Titles, seniority : Ranks, departments : Departments]
Nobody == [title |-> Silence, seniority |-> Silence, departments |-> <<Silence, Silence>>]

Exchanges(seller) ==
  {[got |-> g] : g \in {"timeout", "transport", "malformed"}}
  \cup [got : {"status"}, code : {401, 402, 403, 404, 422, 429, 500}]
  \cup IF seller = "abstract"
       THEN [got : {"body"}, employee_count : Headcounts, industry : Industries]
       ELSE [got : {"body"}, matched : {TRUE}, person : People, company : {TRUE}]
            \cup [got : {"body"}, matched : {FALSE}, person : {Nobody}, company : BOOLEAN]

-----------------------------------------------------------------------------
(* identity/validation.py: a name is the sequence of its words.            *)

NameKey(name) == IF Len(name) < 2 THEN << >> ELSE <<name[1], name[Len(name)]>>
Variant(a, b) == <<a, b>> \in Shorter \/ <<b, a>> \in Shorter

NameSignal(wanted, found) ==
  LET a == NameKey(wanted)
      b == NameKey(found)
  IN  IF a = << >> \/ b = << >> THEN "unknown"
      ELSE IF a = b THEN "match"
      ELSE IF a[2] = b[2] /\ Variant(a[1], b[1]) THEN "unknown"
      ELSE "mismatch"

\* The company's own domain, else the address's unless it is free mail.
ExpectedDomain(wanted) ==
  IF wanted.company # "none" THEN wanted.company
  ELSE IF wanted.mail = "free" THEN "none" ELSE wanted.mail

DomainSignal(wanted, found) ==
  IF found.employer \in {"none", "garbled"} \/ ExpectedDomain(wanted) = "none" THEN "unknown"
  ELSE IF found.employer = ExpectedDomain(wanted) THEN "match" ELSE "mismatch"

\* Every lookup is by address: agreeing on it corroborates nothing.
EmailSignal(wanted, found) ==
  IF found.mail \in {"none", "garbled"} THEN "unknown"
  ELSE IF found.mail = "asked" THEN "match" ELSE "mismatch"

ValidateIdentity(wanted, found) ==
  LET domain == DomainSignal(wanted, found)
      person == NameSignal(wanted.name, found.name)
  IN  IF "mismatch" \in {domain, person, EmailSignal(wanted, found)} THEN "MISMATCH"
      ELSE IF domain = "match" /\ person = "match" THEN "VERIFIED"
      ELSE IF "match" \in {domain, person} THEN "PROBABLE"
      ELSE "UNVERIFIABLE"

\* _validate_person_match: the record stays, the fields do not.
Scoreable_NoMismatch(verdict) == verdict # "MISMATCH"
Scoreable(verdict) == verdict = "VERIFIED"

-----------------------------------------------------------------------------
(* The walk.                                                               *)

\* best_case_value: only the categorical fields have one.
BestCase(config, facts, fields) ==
  LET lifted == {f \in fields \ DOMAIN facts : f \in {"industry", "title_seniority",
                                                      "title_function"}}
      best(f) == CHOOSE v \in DOMAIN config.points[f] :
                   config.points[f][v] = MaxFieldPoints(config, f)
  IN  [f \in DOMAIN facts \cup lifted |-> IF f \in DOMAIN facts THEN facts[f] ELSE best(f)]

\* person_evidence_is_decision_relevant, on a score that is not settled.
Relevant(config, facts, fields) ==
  /\ fields \ DOMAIN facts # {}
  /\ DecisionFor(config, ScoreFacts(config, BestCase(config, facts, fields)))
       # DecisionFor(config, ScoreFacts(config, facts))

NextVendor == VENDORS[walk.index]

\* _enough_evidence or, in an experiment, _option_c_stop_check.
StopBefore(seller, confident) ==
  IF Settled(walk.config, walk.facts) THEN "decision_settled"
  ELSE IF walk.check = "default"
  THEN IF walk.facts # << >> /\ confident THEN "confidence_reached" ELSE "none"
  ELSE IF seller.entity = "person" /\ ~Relevant(walk.config, walk.facts, seller.sells)
  THEN "person_evidence_not_material"
  ELSE "none"

AdaptersInit ==
  /\ seconds = 0 /\ pacer = [next |-> 0, retry |-> 0]
  /\ calledAt = << >> /\ askedToWait = {}
  /\ walk = [at |-> "rest", walks |-> 0]

WalkStays == UNCHANGED walk
PacerStays == UNCHANGED <<pacer, calledAt, askedToWait>>

BeginWalk(w) ==
  /\ walk.at = "rest" /\ walk.walks < MaxWalks
  /\ walk' = [at |-> "next", walks |-> walk.walks + 1, config |-> w.config,
              wanted |-> w.wanted, check |-> w.check, index |-> 1, facts |-> << >>]
  /\ UNCHANGED <<seconds, pacer, calledAt, askedToWait>>

\* MinIntervalPacer.wait: the thread sleeps until both floors are past.
Deadline(now) == Max({now, pacer.next, pacer.retry})

StopWalk(confident) ==
  /\ walk.at = "next"
  /\ \/ walk.index > Len(VENDORS)
     \/ walk.index <= Len(VENDORS) /\ StopBefore(NextVendor, confident) # "none"
  /\ walk' = [at |-> "stopped", walks |-> walk.walks, config |-> walk.config,
              facts |-> walk.facts, index |-> walk.index,
              stop |-> IF walk.index > Len(VENDORS) THEN "all_providers_called"
                       ELSE StopBefore(NextVendor, confident)]
  /\ UNCHANGED <<seconds, pacer, calledAt, askedToWait>>

CallVendor(confident) ==
  /\ walk.at = "next" /\ walk.index <= Len(VENDORS)
  /\ StopBefore(NextVendor, confident) = "none"
  /\ walk' = [walk EXCEPT !.at = "calling"]
  /\ IF NextVendor.name = "abstract"
     THEN /\ seconds' = Deadline(seconds) /\ seconds' <= MaxSeconds
          /\ pacer' = [pacer EXCEPT !.next = Deadline(seconds) + MinInterval]
          /\ calledAt' = Append(calledAt, seconds')
          /\ UNCHANGED askedToWait
     ELSE UNCHANGED seconds /\ PacerStays

\* note_retry_after never shortens a later deadline.
NoteRetryAfter(until) == Max({pacer.retry, until})

\* The exchange ends; a person's answer is still to be compared.
Answer(x, wait) ==
  /\ walk.at = "calling" /\ x \in Exchanges(NextVendor.name)
  /\ walk' = [at |-> "answered", walks |-> walk.walks, config |-> walk.config,
              wanted |-> walk.wanted, check |-> walk.check, index |-> walk.index,
              facts |-> walk.facts, exchange |-> x, result |-> Result(NextVendor, x)]
  /\ IF /\ NextVendor.name = "abstract" /\ x.got = "status" /\ x.code = 429 /\ wait # 0
     THEN /\ pacer' = [pacer EXCEPT !.retry = NoteRetryAfter(seconds + wait)]
          /\ askedToWait' = askedToWait \cup {[at |-> Len(calledAt), until |-> seconds + wait]}
          /\ UNCHANGED <<seconds, calledAt>>
     ELSE wait = 0 /\ UNCHANGED seconds /\ PacerStays

\* The fields that count join the facts, and the walk goes on; of two vendors
\* that sell a field the first is kept, as their declared confidences agree.
TakeAnswer(found) ==
  /\ walk.at = "answered"
  /\ LET person == NextVendor.entity = "person" /\ walk.result.status = "SUCCESS"
         verdict == IF person THEN ValidateIdentity(walk.wanted, found) ELSE "none"
         taken == IF ~person \/ Scoreable(verdict) THEN walk.result.fields ELSE << >>
     IN  /\ person \/ found = CHOOSE i \in Identities : TRUE
         /\ walk' = [at |-> "next", walks |-> walk.walks, config |-> walk.config,
                     wanted |-> walk.wanted, check |-> walk.check, index |-> walk.index + 1,
                     facts |-> [f \in DOMAIN walk.facts \cup DOMAIN taken |->
                                  IF f \in DOMAIN walk.facts THEN walk.facts[f] ELSE taken[f]],
                     judged |-> IF person /\ taken # << >>
                                THEN {[wanted |-> walk.wanted, found |-> found]} ELSE {}]
  /\ UNCHANGED seconds /\ PacerStays

Rest ==
  /\ walk.at = "stopped"
  /\ walk' = [at |-> "rest", walks |-> walk.walks]
  /\ UNCHANGED seconds /\ PacerStays

SecondPasses ==
  /\ seconds < MaxSeconds /\ walk.at = "rest"
  /\ seconds' = seconds + 1 /\ PacerStays /\ WalkStays

AdaptersNext ==
  \/ \E w \in Walks : BeginWalk(w)
  \/ \E confident \in BOOLEAN : StopWalk(confident) \/ CallVendor(confident)
  \/ walk.at = "calling" /\ \E x \in Exchanges(NextVendor.name),
                               wait \in RetryAfters \cup {0} : Answer(x, wait)
  \/ \E found \in Identities : TakeAnswer(found)
  \/ Rest \/ SecondPasses

-----------------------------------------------------------------------------
\* Cost and evidence follow the vendors' metering: what failed or matched
\* nobody is free and says nothing, whatever was delivered is paid, and only
\* canonical values of what the vendor sells pass.
PaidIffDelivered ==
  walk.at = "answered" =>
    LET x == walk.exchange
        r == walk.result
        delivered == /\ x.got = "body"
                     /\ \/ NextVendor.name = "abstract" \/ x.matched
                        \/ NextVendor.name = "hunter" /\ x.company
    IN  /\ (r.cost > 0) <=> delivered
        /\ r.fields # << >> => r.status = "SUCCESS" /\ delivered
        /\ DOMAIN r.fields \subseteq NextVendor.sells
        /\ \A f \in DOMAIN r.fields : r.fields[f] \in CANONICAL_BY_FIELD[f]

\* What any part of a person's answer says in our vocabulary is not lost (but
\* for a department listed behind one that does not map), and what is lost is
\* reported for the tables to learn.
NothingMappableLost ==
  /\ walk.at = "answered" /\ walk.exchange.got = "body" /\ NextVendor.entity = "person"
  /\ walk.exchange.matched
  => LET p == walk.exchange.person
         dept == FirstSaid(p.departments)
         known == DOMAIN walk.result.fields
         says == [title_seniority |-> {NormalizeSeniority(p.seniority),
                                       SeniorityFromTitle(p.title)},
                  title_function |-> {NormalizeFunction(dept), FunctionFromTitle(p.title)}]
         silent == [title_seniority |-> {p.seniority, p.title} = {Silence},
                    title_function |-> {dept, p.title} = {Silence}]
     IN  /\ known = {f \in DOMAIN says : says[f] # {Unmapped}}
         /\ walk.result.unmapped = {f \in DOMAIN says \ known : ~silent[f]}
         /\ \A f \in known : walk.result.fields[f] \in says[f]

\* taxonomy.py:344-357: a company of a regulated trade that also says
\* technology, and none of the X-tech families, is read as of that trade, and
\* earns nothing for the technology.
TradeBeforeTechnology ==
  /\ walk.at = "answered" /\ NextVendor.name = "abstract"
  /\ "industry" \in DOMAIN walk.result.fields
  /\ walk.exchange.industry \cap {"medical", "banking"} # {}
  /\ walk.exchange.industry \cap {"financial technology", "health tech"} = {}
  => FieldPoints(REFERENCE_CONFIG, "industry", walk.result.fields.industry) = 0

\* taxonomy.py:38-41: whatever the trade, where a text is ambiguous the reading
\* that scores nothing wins.  The rules do not keep this: see the README.
ReadConservatively ==
  /\ walk.at = "answered" /\ NextVendor.name = "abstract"
  /\ "industry" \in DOMAIN walk.result.fields
  => \A p \in walk.exchange.industry :
       NormalizeIndustry({p}) # Unmapped
         /\ FieldPoints(REFERENCE_CONFIG, "industry", NormalizeIndustry({p})) = 0
       => FieldPoints(REFERENCE_CONFIG, "industry", walk.result.fields.industry) = 0

\* Person evidence that scores is of the person asked for: employer and full
\* name agree, the address does not disagree.
EvidenceIsOfThePerson ==
  walk.at = "next" /\ walk.index > 1 =>
    \A j \in walk.judged :
      /\ Len(j.found.name) > 1 /\ Len(j.wanted.name) > 1
      /\ Last(j.found.name) = Last(j.wanted.name) /\ j.found.name[1] = j.wanted.name[1]
      /\ j.found.employer \in {j.wanted.company, j.wanted.mail} \ {"none", "free"}
      /\ j.wanted.company # "none" => j.found.employer = j.wanted.company
      /\ j.found.mail \in {"asked", "none", "garbled"}

\* A person lookup is skipped as immaterial only if no answer of the remaining
\* vendors, who sell the same fields, could change the decision.
SkippedIsImmaterial ==
  walk.at = "stopped" /\ walk.stop = "person_evidence_not_material" =>
    LET missing == NextVendor.sells \ DOMAIN walk.facts
        now == DecisionFor(walk.config, ScoreFacts(walk.config, walk.facts))
        values(f) == DOMAIN walk.config.points[f]
    IN  \A s \in values("title_seniority"), t \in values("title_function") :
          LET told == [title_seniority |-> s, title_function |-> t]
              facts == [f \in DOMAIN walk.facts \cup missing |->
                          IF f \in DOMAIN walk.facts THEN walk.facts[f] ELSE told[f]]
          IN  DecisionFor(walk.config, ScoreFacts(walk.config, facts)) = now

\* MinIntervalPacer: whatever the vendor and the walks do, calls keep their
\* distance, and none starts before a Retry-After answered earlier is over.
CallsArePaced ==
  \A i \in DOMAIN calledAt :
    /\ i > 1 => calledAt[i] >= calledAt[i - 1] + MinInterval
    /\ \A a \in askedToWait : a.at < i => calledAt[i] >= a.until
=============================================================================
