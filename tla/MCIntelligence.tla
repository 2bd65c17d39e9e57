--------------------------- MODULE MCIntelligence ---------------------------
(* Two model calls, one of them for a batch; a run that finds two companies  *)
(* and a directory and may promote one, beside one reader and a foreign lead; *)
(* two requests that research two fields of a lead; two leads of one company  *)
(* that three sources answer for.                                             *)
EXTENDS Intelligence, TLC
\* One service runs at a time, so the same two values are its calls, companies,
\* requests or leads.
CONSTANTS n1, n2, j1, s1, a1, a2
MCLimits ==
  { [calls |-> 1, batchCost |-> 6, monthCost |-> 6],
    [calls |-> 0, batchCost |-> 0, monthCost |-> 0] }
MCLive == {Domains \cup {s1}}
MCReceipts ==
  { [score |-> s, lower |-> l, upper |-> u, known |-> k] :
      <<s, l, u, k>> \in
        {<<50, 50, 80, {}>>, <<30, 30, 90, {"industry"}>>, <<75, 75, 90, {}>>,
         <<50, 0, 80, {}>>, <<45, 45, 69, {}>>, <<10, 10, 39, {}>>} }
MCCeilings ==
  { [industry |-> 25, employee_count |-> 20], [industry |-> 5, employee_count |-> 30],
    [industry |-> 20, employee_count |-> 20] }
MCAcquired ==
  {{}, {"internal_crm", "firmographics_basic"}, {"firmographics_premium", "contact_enrich"}}
\* A company whose sources agree little, and one that deep research blocks.
MCWorlds ==
  << [inbound_payload |->
       [found |-> [title_seniority |-> "vp", title_function |-> "data"], billed |-> FALSE],
     internal_crm |-> [found |-> [industry |-> "nonprofit"], billed |-> FALSE],
     firmographics_premium |->
       [found |-> [industry |-> "software", employee_count |-> "e200"], billed |-> FALSE],
     intent_signals |-> [found |-> << >>, billed |-> TRUE],
     deep_research |->
       [found |-> [buying_intent |-> "full", disqualifying_flag |-> "no",
                   employee_count |-> "e200", industry |-> "fintech"], billed |-> TRUE]],
     [inbound_payload |->
       [found |-> [title_seniority |-> "ic", title_function |-> "other"], billed |-> FALSE],
     internal_crm |->
       [found |-> [industry |-> "nonprofit", employee_count |-> "unknown"], billed |-> FALSE],
     firmographics_premium |-> [found |-> << >>, billed |-> FALSE],
     intent_signals |->
       [found |-> [buying_intent |-> "half", recent_trigger_event |-> "yes"], billed |-> TRUE],
     deep_research |->
       [found |-> [buying_intent |-> "half", recent_trigger_event |-> "yes",
                   disqualifying_flag |-> "yes", employee_count |-> "e200",
                   industry |-> "software"], billed |-> TRUE]],
     [inbound_payload |->
       [found |-> [title_seniority |-> "c_level", title_function |-> "data"], billed |-> FALSE],
     internal_crm |->
       [found |-> [industry |-> "software", employee_count |-> "e200"], billed |-> FALSE],
     firmographics_premium |->
       [found |-> [industry |-> "software", employee_count |-> "e10"], billed |-> FALSE],
     intent_signals |-> [found |-> [recent_trigger_event |-> "yes"], billed |-> TRUE],
     deep_research |-> [found |-> << >>, billed |-> TRUE]] >>
MCProfiles ==
  << REFERENCE_CONFIG,
     [REFERENCE_CONFIG EXCEPT !.disqualifier = FALSE, !.qualify = 45, !.reject = 30] >>
\* Results that say something new of sizes and industries, and a full list.
Nothing == [dim \in Listed |-> {}]
MCDrafts ==
  { [bands |-> b, preferred |-> p, acceptable |-> a, levels |-> l] :
      b \in {<< >>, [e200 |-> "preferred"], [e50 |-> "avoid", e200 |-> "avoid", e10 |-> "avoid"]},
      p \in {Nothing, [Nothing EXCEPT !["industry"] = {"retail", "media"}]},
      a \in {[Nothing EXCEPT !["industry"] = {"retail", "software"}]},
      l \in {<< >>, [industry |-> "critical", title_seniority |-> "low", buying_intent |-> "none"]} }
G(d, k, p, n) == [dim |-> d, key |-> k, pos |-> p, neg |-> n]
MCOutcomeFiles ==
  << [pos |-> 30, neg |-> 34, groups |->
       {G("employee_count", "e200", 22, 4), G("employee_count", "e50", 8, 30),
        G("industry", "software", 10, 3), G("industry", "retail", 4, 10)}],
     [pos |-> 60, neg |-> 40, groups |->
       {G("employee_count", "e50", 45, 3), G("employee_count", "e200", 15, 37),
        G("industry", "fintech", 14, 1), G("industry", "retail", 6, 1)}],
     [pos |-> 30, neg |-> 30, groups |->
       {G("employee_count", "e200", 4, 14), G("industry", "retail", 5, 10),
        G("industry", "fintech", 19, 14)}] >>
\* Two leads of one company, and one that a gate abandons before one in the band.
Lead(w, v, o) == [world |-> w, value |-> v, oracle |-> o]
MCCorpora ==
  { <<Lead(1, "large", "auto_route"), Lead(1, "small", "auto_route")>>,
    <<Lead(2, "small", "reject"), Lead(3, "medium", "escalate_human")>> }
MCStrategies ==
  { [kind |-> "full"], [kind |-> "tune", depth |-> 3], [kind |-> "tune", depth |-> 4],
    [kind |-> "adaptive", cap |-> 2500, scale |-> 100, review |-> 0],
    [kind |-> "adaptive", cap |-> 4000, scale |-> 1, review |-> 0],
    [kind |-> "escalation", cap |-> 4000, scale |-> 10, review |-> 50000],
    [kind |-> "escalation", cap |-> 1500, scale |-> 10, review |-> 0] }
Gate(m, g) == [mode |-> m, gate |-> g]
MCGateGrid ==
  << Gate("upper_bound", 0), Gate("upper_bound", 40), Gate("upper_bound", 50),
     Gate("upper_bound", 55), Gate("upper_bound", 65), Gate("upper_bound", 80),
     Gate("current_score", 10), Gate("current_score", 20), Gate("current_score", 30),
     Gate("current_score", 40) >>
\* Three leads of live workers, and six people a vendor may find.
MCWalks ==
  { [config |-> REFERENCE_CONFIG, check |-> "option_c",
     wanted |-> [name |-> <<"tobias", "klein">>, mail |-> "acme", company |-> "none"]],
    [config |-> MCProfiles[2],
     check |-> "option_c",
     wanted |-> [name |-> <<"tobias", "klein">>, mail |-> "free", company |-> "acme"]],
    [config |-> REFERENCE_CONFIG, check |-> "default",
     wanted |-> [name |-> <<"tobias">>, mail |-> "free", company |-> "none"]] }
Person(n, m, e) == [name |-> n, mail |-> m, employer |-> e]
MCIdentities ==
  { Person(<<"tobias", "m", "klein">>, "asked", "acme"),
    Person(<<"tobias", "m", "klein">>, "none", "acme"),
    Person(<<"tobi", "klein">>, "garbled", "acme"), Person(<<"anna", "klein">>, "asked", "acme"),
    Person(<<"tobias", "klein">>, "other", "acme"), Person(<< >>, "asked", "evil") }
MCShorter == {<<"tobi", "tobias">>}
MCTitles == { {}, {"gibberish"}, {"vice president", "engineer"}, {"vp", "sales", "revops"} }
MCRanks == { {}, {"gibberish"}, {"senior"} }
MCDepartments ==
  { <<{}, {}>>, <<{}, {"sales"}>>, <<{"gibberish"}, {"sales"}>>, <<{"sales"}, {"data"}>> }
MCHeadcounts == { << >>, <<0, "one">>, <<180, "one">>, <<10, "k">> }
MCIndustries == { {}, {"gibberish"}, {"medical", "technology"}, {"retail", "technology"} }
\* A lead whose "no" another fact could still change, one for which it could not,
\* one whose contact is unknown, and one that is nearly routed.
MCClients == <<a1, a2>>
MCHoldings ==
  a1 :> { [employee_count |-> "e200", title_seniority |-> "vp", title_function |-> "sales",
           buying_intent |-> "half", recent_trigger_event |-> "no", disqualifying_flag |-> "no"],
          [employee_count |-> "e10", industry |-> "nonprofit", title_seniority |-> "ic",
           buying_intent |-> "no", disqualifying_flag |-> "no"],
          [employee_count |-> "e200", industry |-> "software", title_function |-> "data",
           buying_intent |-> "full", recent_trigger_event |-> "yes",
           disqualifying_flag |-> "no"] }
  @@ a2 :> { [employee_count |-> "e50", industry |-> "software", title_seniority |-> "vp",
              buying_intent |-> "half", recent_trigger_event |-> "no",
              disqualifying_flag |-> "no"] }
Sure(b, a) == [band |-> b, autonomous |-> a]
MCSureties == { Sure("high", TRUE), Sure("low", FALSE) }
MCProfileHistory ==
  << REFERENCE_CONFIG, [REFERENCE_CONFIG EXCEPT !.qualify = 72, !.reject = 40] >>
Plan(i, o, s, n) == [intent |-> i, only |-> o, sort |-> s, limit |-> n]
MCPlans ==
  { Plan("work_today", {}, "priority", 1), Plan("work_today", {}, "priority", 5),
    Plan("work_today", {"review"}, "priority", 5), Plan("needs_research", {}, "score", 5),
    Plan("missing_decision_maker", {}, "priority", 5),
    Plan("low_confidence", {"review"}, "recent", 5), Plan("top_leads", {}, "score", 1),
    Plan("feedback_summary", {}, "priority", 0), Plan("compare_leads", {}, "priority", 5) }
CsvFile(h, r) == [headers |-> h, rows |-> r]
MCCsvFiles ==
  { CsvFile(<<"email", "contact">>, "some"), CsvFile(<<"email", "contact">>, "none"),
    CsvFile(<<"email", "work_email", "">>, "some"), CsvFile(<<"contact", "name">>, "some"),
    CsvFile(<<"email", "company", "business">>, "some"),
    CsvFile(<<"work_email", "business", "employees">>, "some"), CsvFile(<<"email">>, "many"),
    CsvFile(<< >>, "none") }
MCReadings ==
  { [field |-> f, confident |-> c] : <<f, c>> \in
      {<<"none", FALSE>>, <<"email", TRUE>>, <<"email", FALSE>>, <<"company_name", TRUE>>} }
MCCorrections ==
  { [email |-> "contact"], [email |-> "email"], [email |-> "email", company_name |-> "email"],
    [email |-> "email", company_name |-> "contact"], [email |-> "work_email", employee_count |-> "name"],
    [email |-> "work_email", full_name |-> "phone"], [full_name |-> "name"] }
Symmetry == Permutations({n1, n2})
=============================================================================
