-------------------------------- MODULE Taxonomy --------------------------------
(***************************************************************************)
(* normalization/taxonomy.py and contract.py: what a vendor's words mean   *)
(* in the scorer's vocabulary.  A text is the set of the phrases in it,    *)
(* folded by canonical_key; a text that is one phrase may be an alias.     *)
(* The tables have the entries whose order or meaning a property can tell  *)
(* apart; "gibberish" stands for every phrase they do not list.  A head    *)
(* count is the lower end of what was written: a number and its unit.      *)
(***************************************************************************)
EXTENDS Scoring, Functions, SequencesExt

Silence == {}                  \* nothing was said

\* The first rule that has a phrase of the text (a stem is a phrase here).
FirstMatch(text, rules) ==
  LET found == {i \in DOMAIN rules : rules[i].phrases \cap text # {}}
  IN  IF found = {} THEN Unmapped ELSE rules[Min(found)].value

Rule(phrases, value) == [phrases |-> phrases, value |-> value]

\* A text that is one alias, or UNKNOWN.
ByAlias(text, aliases) ==
  IF \E p \in DOMAIN aliases : text = {p}
  THEN aliases[CHOOSE p \in DOMAIN aliases : text = {p}] ELSE Unmapped
AliasThenRules(text, aliases, rules) ==
  IF ByAlias(text, aliases) # Unmapped THEN ByAlias(text, aliases)
  ELSE FirstMatch(text, rules)

-----------------------------------------------------------------------------
(* Industry: the X-tech families before their parents, and the parents      *)
(* before what merely says technology.                                      *)

INDUSTRY_ALIASES ==
  [software |-> "software", retail |-> "retail", banking |-> "financial_services"]
INDUSTRY_RULES ==
  << Rule({"financial technology"}, "fintech"), Rule({"health tech"}, "healthtech"),
     Rule({"medical", "hospital"}, "healthcare"),
     Rule({"banking", "insurance"}, "financial_services"),
     Rule({"software"}, "software"), Rule({"technology"}, "software"),
     Rule({"education", "training"}, "education"), Rule({"retail"}, "retail") >>
NormalizeIndustry(text) == AliasThenRules(text, INDUSTRY_ALIASES, INDUSTRY_RULES)

-----------------------------------------------------------------------------
(* Seniority: a vendor's enum by alias only, a title by the highest rung.   *)

SENIORITY_ALIASES ==
  [executive |-> "c_level", founder |-> "c_level", c_level |-> "c_level", vp |-> "vp",
   director |-> "director", manager |-> "manager", senior |-> "ic", ic |-> "ic"]
SENIORITY_TITLE_RULES ==
  << Rule({"vice president"}, "vp"), Rule({"founder", "chief", "president"}, "c_level"),
     Rule({"vp"}, "vp"), Rule({"head", "director"}, "director"),
     Rule({"manager", "lead"}, "manager"), Rule({"engineer", "analyst"}, "ic") >>
NormalizeSeniority(text) == ByAlias(text, SENIORITY_ALIASES)
SeniorityFromTitle(text) ==
  AliasThenRules(text, SENIORITY_ALIASES, SENIORITY_TITLE_RULES)

-----------------------------------------------------------------------------
(* Function: a title's operations before its data, engineering and sales.   *)

FUNCTION_ALIASES ==
  [sales |-> "sales", revops |-> "operations", operations |-> "operations",
   data |-> "data", engineering |-> "engineering", marketing |-> "marketing",
   finance |-> "finance", rest |-> "rest"]
FUNCTION_TITLE_RULES ==
  << Rule({"revops", "operations"}, "operations"), Rule({"data", "analyst"}, "data"),
     Rule({"engineer", "software"}, "engineering"), Rule({"growth"}, "marketing"),
     Rule({"sales", "revenue"}, "sales"), Rule({"finance"}, "finance"),
     Rule({"people", "design"}, "rest") >>
NormalizeFunction(text) == ByAlias(text, FUNCTION_ALIASES)
FunctionFromTitle(text) == AliasThenRules(text, FUNCTION_ALIASES, FUNCTION_TITLE_RULES)

-----------------------------------------------------------------------------
(* Head counts: << >> is silence, <<n, u>> is n units or a band from there. *)

UNITS == [one |-> 1, k |-> 1000, m |-> 1000000]
ParseToken(raw) == raw[1] * UNITS[raw[2]]

EMPLOYEE_COUNT_MAX == 10000000
SizeClass(n) ==
  IF n <= 10 THEN "e10" ELSE IF n <= 50 THEN "e50" ELSE IF n <= 200 THEN "e200"
  ELSE IF n <= 1000 THEN "e1000" ELSE "more"

\* The lower end of a band, as its size class; nobody and everybody say nothing.
NormalizeEmployeeCount(raw) ==
  IF raw = << >> \/ ParseToken(raw) \notin 1..EMPLOYEE_COUNT_MAX THEN Unmapped
  ELSE SizeClass(ParseToken(raw))

-----------------------------------------------------------------------------
(* contract.py.                                                            *)

CANONICAL_BY_FIELD ==
  [employee_count |-> DOMAIN REFERENCE_CONFIG.points.employee_count,
   industry |-> {r.value : r \in Range(INDUSTRY_RULES)},
   title_seniority |-> Range(SENIORITY_ALIASES),
   title_function |-> {r.value : r \in Range(FUNCTION_TITLE_RULES)}]

IsSilent(field, raw) == IF field = "employee_count" THEN raw = << >> ELSE raw = Silence
Meaning(field, raw) ==
  CASE field = "employee_count" -> NormalizeEmployeeCount(raw)
    [] field = "industry" -> NormalizeIndustry(raw)
    [] field = "title_seniority" -> NormalizeSeniority(raw)
    [] field = "title_function" -> NormalizeFunction(raw)

\* What was said and means something, and what was said and does not map.
NormalizeProviderFields(raw) ==
  LET told == {f \in DOMAIN raw : ~IsSilent(f, raw[f])}
      clear == {f \in told : Meaning(f, raw[f]) # Unmapped}
  IN  [fields |-> [f \in clear |-> Meaning(f, raw[f])], unmapped |-> told \ clear]
=============================================================================
