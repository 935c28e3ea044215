---------------------------- MODULE MCPretrial ----------------------------
(***************************************************************************)
(* Instances of Pretrial for TLC.                                          *)
(***************************************************************************)
EXTENDS Pretrial

(* The rosters the case generator writes, for a bench and a jury trial in  *)
(* a court that screens its jurisdiction.                                  *)
BenchRoster ==
  {<<"plaintiff", t>> : t \in {"file_amended_complaint", "withdraw_or_correct_filing",
     "serve_initial_disclosures", "serve_interrogatories", "serve_request_for_production",
     "serve_requests_for_admission", "file_rule37_motion", "oppose_rule12_motion",
     "oppose_rule56_motion", "submit_technical_report"}} \cup
  {<<"defendant", t>> : t \in {"file_answer", "file_rule12_motion", "reply_rule12_motion",
     "serve_rule11_safe_harbor_notice", "file_rule11_motion", "serve_initial_disclosures",
     "respond_interrogatories", "respond_request_for_production",
     "respond_requests_for_admission", "file_rule56_motion", "reply_rule56_motion",
     "import_case_file", "produce_case_file", "submit_technical_report"}} \cup
  {<<"judge", t>> : t \in {"resolve_trial_mode", "transition_case", "decide_rule11_motion",
     "decide_rule12_motion", "decide_rule37_motion", "decide_rule56_motion",
     "enter_pretrial_order", "dismiss_for_lack_of_subject_matter_jurisdiction"}} \cup
  {<<"clerk", "set_last_pleading_served_on">>}

JuryRoster == BenchRoster \cup {<<"clerk", "record_jury_demand">>}

Ending == {<<"plaintiff", "accept_rule68_offer">>, <<"plaintiff", "dismiss_case_rule41">>,
           <<"judge", "enter_settlement">>}

(* Every tool but those that end a case by themselves; then with each of   *)
(* them; and a defendant who cannot answer.                                *)
FullRoster == Tools \ Ending

CaseOf(tools, given, motions, stops) ==
  [tools |-> tools, given |-> given, motions |-> motions, stops |-> stops]

MCCases ==
  {CaseOf(BenchRoster, {"case file"}, 2, TRUE),
   CaseOf(JuryRoster, {"jury demand", "defective"}, 2, TRUE),
   CaseOf(FullRoster, {"defective", "rule 11 screening"}, 1, FALSE),
   CaseOf(FullRoster \ {<<"plaintiff", "withdraw_or_correct_filing">>},
          {"rule 11 screening"}, 2, FALSE),
   CaseOf(FullRoster \ {<<"defendant", "file_answer">>}, {"case file"}, 2, FALSE)} \cup
  {CaseOf(FullRoster \cup {tool}, {"case file"}, 2, FALSE) : tool \in Ending}
==============================================================================
