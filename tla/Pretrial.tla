------------------------------ MODULE Pretrial ------------------------------
(***************************************************************************)
(* A case of the civil court (src/adc) from the filed complaint to trial,  *)
(* to the opportunities that follow an early judgment, or to its close.    *)
(* The engine keeps an agenda for each status of the case; what a case has *)
(* behind it (its docket, traces, offers and dates) decides which items    *)
(* are open, and the runner takes the first.  JurySelection and JuryTrial  *)
(* continue a case that goes to trial.                                     *)
(*                                                                         *)
(* The record of the case is the set of facts the agendas read.            *)
(***************************************************************************)
EXTENDS Naturals, Sequences, FiniteSets, FiniteSetsExt, Functions

CONSTANT Cases    \* the cases considered: rosters, complaints and policies

Roles == {"plaintiff", "defendant", "judge", "clerk"}

(* What is known before the first turn.                                    *)
Settings == {"rule 11 screening", "jury demand", "case file", "defective"}

-----------------------------------------------------------------------------
(* Agendas.  An item is open once the facts in "after" are known and none  *)
(* in "unless" is.  An optional item may be passed; the runner carries an  *)
(* automatic one out itself, and a required one waits for its role.        *)

Item(kind, role, tool, after, unless) ==
  [kind |-> kind, role |-> role, tool |-> tool, after |-> after, unless |-> unless]

FiledAgenda ==
  <<Item("optional", "defendant", "file_rule12_motion", {}, {"rule 12 motion", "answer"}),
    Item("optional", "plaintiff", "oppose_rule12_motion",
         {"rule 12 motion"}, {"rule 12 opposition"}),
    Item("optional", "defendant", "reply_rule12_motion",
         {"rule 12 opposition"}, {"rule 12 reply"}),
    Item("required", "judge", "decide_rule12_motion", {"rule 12 motion"}, {"rule 12 order"}),
    Item("required", "defendant", "file_answer", {}, {"answer", "leave pending"}),
    Item("required", "plaintiff", "file_amended_complaint", {"rule 12 order"}, {"amended"}),
    Item("automatic", "defendant", "serve_rule11_safe_harbor_notice",
         {"rule 11 screening"}, {"rule 11 notice"}),
    Item("automatic", "plaintiff", "withdraw_or_correct_filing",
         {"rule 11 screening", "rule 11 notice"}, {"rule 11 correction"}),
    Item("automatic", "defendant", "file_rule11_motion",
         {"rule 11 screening", "rule 11 notice"}, {"rule 11 correction", "rule 11 motion"}),
    Item("automatic", "judge", "decide_rule11_motion",
         {"rule 11 screening", "rule 11 motion"}, {"rule 11 order"}),
    Item("optional", "judge", "enter_default", {}, {"answer", "default"}),
    Item("optional", "judge", "enter_default_judgment", {"default"}, {"default judgment"}),
    Item("automatic", "defendant", "make_rule68_offer", {"answer"}, {"offer"}),
    Item("automatic", "plaintiff", "accept_rule68_offer", {"offer pending"}, {}),
    Item("automatic", "clerk", "expire_rule68_offers", {"offer pending"}, {}),
    Item("automatic", "judge", "evaluate_rule68_cost_shift",
         {"offer expired"}, {"cost shift"}),
    Item("automatic", "clerk", "set_last_pleading_served_on", {"answer"}, {"served"}),
    Item("optional", "clerk", "record_jury_demand", {"served"}, {"jury demand"}),
    Item("automatic", "judge", "resolve_trial_mode", {}, {"jury trial", "bench trial"}),
    Item("automatic", "judge", "transition_case", {}, {})>>

PretrialAgenda ==
  <<Item("automatic", "judge", "enter_protective_order", {}, {"protective order"}),
    Item("automatic", "judge", "enter_partial_judgment", {}, {"partial judgment"}),
    Item("automatic", "plaintiff", "serve_initial_disclosures", {}, {"disclosures"}),
    Item("automatic", "defendant", "serve_initial_disclosures", {}, {"disclosures"}),
    Item("optional", "plaintiff", "submit_technical_report", {}, {"plaintiff report"}),
    Item("optional", "defendant", "submit_technical_report", {}, {"defendant report"}),
    Item("automatic", "defendant", "import_case_file", {}, {"case file"}),
    Item("automatic", "plaintiff", "serve_interrogatories", {}, {"interrogatories"}),
    Item("automatic", "defendant", "respond_interrogatories",
         {"interrogatories"}, {"interrogatory responses"}),
    Item("automatic", "plaintiff", "serve_request_for_production", {}, {"production request"}),
    Item("automatic", "defendant", "produce_case_file",
         {"imported", "production request"}, {"produced"}),
    Item("automatic", "defendant", "respond_request_for_production",
         {"production request"}, {"production responses"}),
    Item("automatic", "plaintiff", "serve_requests_for_admission", {}, {"admission requests"}),
    Item("automatic", "defendant", "respond_requests_for_admission",
         {"admission requests"}, {"admission responses"}),
    Item("automatic", "plaintiff", "file_rule37_motion", {}, {"rule 37 motion"}),
    Item("automatic", "judge", "decide_rule37_motion", {"rule 37 motion"}, {"rule 37 order"}),
    Item("optional", "defendant", "file_rule56_motion",
         {"interrogatory responses", "production responses", "admission responses"},
         {"rule 56 motion", "rule 56 order", "pretrial order", "rule 37 pending",
          "rule 56 declined"}),
    Item("optional", "plaintiff", "oppose_rule56_motion",
         {"rule 56 motion"}, {"rule 56 opposition"}),
    Item("optional", "defendant", "reply_rule56_motion",
         {"rule 56 opposition"}, {"rule 56 reply"}),
    Item("required", "judge", "decide_rule56_motion", {"rule 56 motion"}, {"rule 56 order"}),
    Item("optional", "judge", "lift_protective_order",
         {"protective order", "production responses", "admission responses"}, {"lifted"}),
    Item("automatic", "plaintiff", "dismiss_case_rule41", {"answer"}, {"dismissed"}),
    Item("automatic", "judge", "enter_settlement", {"answer"}, {}),
    Item("automatic", "judge", "enter_pretrial_order", {}, {"pretrial order"}),
    Item("automatic", "judge", "transition_case", {}, {})>>

PostJudgmentAgenda ==
  <<Item("automatic", "defendant", "file_rule59_motion", {}, {"rule 59 motion"}),
    Item("automatic", "judge", "resolve_rule59_motion", {"rule 59 motion"}, {"rule 59 order"}),
    Item("automatic", "defendant", "file_rule60_motion", {}, {"rule 60 motion"}),
    Item("required", "judge", "resolve_rule60_motion", {"rule 60 motion"}, {"rule 60 order"}),
    Item("automatic", "judge", "post_supersedeas_bond", {}, {"bond"}),
    Item("automatic", "judge", "order_discretionary_stay", {"bond"}, {"stay"}),
    Item("automatic", "judge", "lift_stay", {"stay"}, {"stay lifted"})>>

(* Offered before anything else while the complaint pleads no jurisdiction.*)
JurisdictionDismissal ==
  Item("optional", "judge", "dismiss_for_lack_of_subject_matter_jurisdiction",
       {"defective"}, {"jurisdiction dismissal"})

(* The fact a tool leaves on the record, where it is a single one.         *)
FactOf ==
  [file_rule12_motion |-> "rule 12 motion", oppose_rule12_motion |-> "rule 12 opposition",
   reply_rule12_motion |-> "rule 12 reply", decide_rule12_motion |-> "rule 12 order",
   file_amended_complaint |-> "amended", serve_rule11_safe_harbor_notice |-> "rule 11 notice",
   withdraw_or_correct_filing |-> "rule 11 correction",
   file_rule11_motion |-> "rule 11 motion", decide_rule11_motion |-> "rule 11 order",
   enter_default |-> "default", enter_default_judgment |-> "default judgment",
   make_rule68_offer |-> "offer", accept_rule68_offer |-> "offer accepted",
   expire_rule68_offers |-> "offer expired", evaluate_rule68_cost_shift |-> "cost shift",
   set_last_pleading_served_on |-> "served", record_jury_demand |-> "jury demand",
   enter_protective_order |-> "protective order", lift_protective_order |-> "lifted",
   enter_partial_judgment |-> "partial judgment", serve_initial_disclosures |-> "disclosures",
   serve_interrogatories |-> "interrogatories",
   respond_interrogatories |-> "interrogatory responses",
   serve_request_for_production |-> "production request", produce_case_file |-> "produced",
   respond_request_for_production |-> "production responses",
   serve_requests_for_admission |-> "admission requests",
   respond_requests_for_admission |-> "admission responses",
   file_rule37_motion |-> "rule 37 motion", decide_rule37_motion |-> "rule 37 order",
   file_rule56_motion |-> "rule 56 motion", oppose_rule56_motion |-> "rule 56 opposition",
   reply_rule56_motion |-> "rule 56 reply", decide_rule56_motion |-> "rule 56 order",
   dismiss_case_rule41 |-> "dismissed", enter_settlement |-> "settled",
   enter_pretrial_order |-> "pretrial order", file_rule59_motion |-> "rule 59 motion",
   resolve_rule59_motion |-> "rule 59 order", file_rule60_motion |-> "rule 60 motion",
   resolve_rule60_motion |-> "rule 60 order", post_supersedeas_bond |-> "bond",
   order_discretionary_stay |-> "stay", lift_stay |-> "stay lifted",
   dismiss_for_lack_of_subject_matter_jurisdiction |-> "jurisdiction dismissal"]

Items == Range(FiledAgenda) \cup Range(PretrialAgenda) \cup Range(PostJudgmentAgenda)
           \cup {JurisdictionDismissal}

Tools == {<<item.role, item.tool>> : item \in Items}

Case ==
  [tools : SUBSET Tools,         \* the legal tools of each role
   given : SUBSET Settings,
   motions : Nat,                \* dispositive motions a side may file
   stops : BOOLEAN]              \* does the run end at judgment?

(* Whoever can be moved against by a motion or a request finds a role that *)
(* can rule on it or answer it, and the court can set the trial mode.      *)
Answerable ==
  {<<<<"defendant", "file_rule12_motion">>, <<"judge", "decide_rule12_motion">>>>,
   <<<<"plaintiff", "file_rule37_motion">>, <<"judge", "decide_rule37_motion">>>>,
   <<<<"defendant", "file_rule56_motion">>, <<"judge", "decide_rule56_motion">>>>,
   <<<<"defendant", "file_rule59_motion">>, <<"judge", "resolve_rule59_motion">>>>,
   <<<<"defendant", "file_rule60_motion">>, <<"judge", "resolve_rule60_motion">>>>,
   <<<<"plaintiff", "serve_interrogatories">>, <<"defendant", "respond_interrogatories">>>>,
   <<<<"plaintiff", "serve_request_for_production">>,
     <<"defendant", "respond_request_for_production">>>>,
   <<<<"plaintiff", "serve_requests_for_admission">>,
     <<"defendant", "respond_requests_for_admission">>>>,
   <<<<"judge", "transition_case">>, <<"judge", "resolve_trial_mode">>>>}

ASSUME PretrialAssumption ==
  \A c \in Cases : /\ c \in Case
                   /\ \A pair \in Answerable : pair[1] \in c.tools => pair[2] \in c.tools

VARIABLES
  case,     \* rosters, settings and policy; these never change
  status,
  facts,    \* what the docket, the traces, the offers and the dates show
  passed    \* items passed since the case last changed

pretrialVars == <<case, status, facts, passed>>

-----------------------------------------------------------------------------
Known ==
  facts
    \cup {f \in {"rule 37 pending"} : "rule 37 motion" \in facts /\ "rule 37 order" \notin facts}
    \cup {f \in {"leave pending"} : "leave to amend" \in facts /\ "amended" \notin facts}
    \cup {f \in {"offer pending"} :
            "offer" \in facts /\ facts \cap {"offer accepted", "offer expired"} = {}}

Agenda ==
  CASE status = "filed"            -> FiledAgenda
    [] status = "pretrial"         -> PretrialAgenda
    [] status = "judgment_entered" -> PostJudgmentAgenda
    [] OTHER                       -> <<>>

Open(item, known) ==
  /\ <<item.role, item.tool>> \in case.tools
  /\ item.after \subseteq known
  /\ item.unless \cap known = {}
  /\ item \notin passed

OpenItems(known) == {i \in DOMAIN Agenda : Open(Agenda[i], known)}

Nothing == Item("none", "none", "none", {}, {})

(* The runner stops at trial's door (which is not modelled here), once the *)
(* case is closed, at judgment if it is told to, or when nothing is open.  *)
Halted == \/ status \in {"trial", "closed"}
          \/ status = "judgment_entered" /\ case.stops

DismissalOpen(known) ==
  status # "judgment_entered" /\ Open(JurisdictionDismissal, known)

(* Deviation: what must be done comes before what may be done.             *)
RequiredFirst(known) ==
  LET open == OpenItems(known)
      due == {i \in open : Agenda[i].kind = "required"} IN
  IF DismissalOpen(known) THEN JurisdictionDismissal
  ELSE IF due # {} THEN Agenda[Min(due)]
  ELSE IF open # {} THEN Agenda[Min(open)] ELSE Nothing

FirstOpen(known) ==
  LET open == OpenItems(known) IN
  IF DismissalOpen(known) THEN JurisdictionDismissal
  ELSE IF open # {} THEN Agenda[Min(open)] ELSE Nothing

CurrentItem ==
  LET known == Known IN IF Halted THEN Nothing ELSE FirstOpen(known)

-----------------------------------------------------------------------------
(* Acts.  The step of a tool checks on its own whether it accepts the act; *)
(* a refused act changes nothing, and the role acts otherwise or passes.   *)

DispositiveMotions == {"rule 12 motion", "rule 56 motion"}

StepAccepts(tool) ==
  CASE tool \in {"file_rule12_motion", "file_rule56_motion"} ->
         Cardinality(facts \cap DispositiveMotions) < case.motions
    [] tool \in {"oppose_rule12_motion", "reply_rule12_motion"} ->
         "rule 12 order" \notin facts
    [] tool \in {"oppose_rule56_motion", "reply_rule56_motion"} ->
         "rule 56 order" \notin facts
    [] OTHER -> TRUE

(* What an act may leave: the facts it adds and the status that follows.   *)
Leaves(added, next) == [added |-> added, status |-> next]

EffectsOf(turn) ==
  LET tool == turn.tool IN
  CASE tool = "file_answer" ->          \* served_on may come empty
         {Leaves({"answer"}, status), Leaves({"answer", "served"}, status)}
    [] tool = "decide_rule12_motion" ->
         {Leaves({"rule 12 order"}, status), Leaves({"rule 12 order", "granted"}, "closed"),
          Leaves({"rule 12 order", "granted", "leave to amend"}, "closed")}
    [] tool = "resolve_trial_mode" ->
         {Leaves({IF "jury demand" \in facts THEN "jury trial" ELSE "bench trial"}, status)}
    [] tool = "transition_case" ->
         {Leaves({}, IF status = "filed" THEN "pretrial" ELSE "trial")}
    [] tool = "import_case_file" -> {Leaves({"case file", "imported"}, status)}
    [] tool = "submit_technical_report" ->
         {Leaves({IF turn.role = "plaintiff" THEN "plaintiff report"
                  ELSE "defendant report"}, status)}
    [] tool \in {"accept_rule68_offer", "enter_default_judgment", "enter_settlement"} ->
         {Leaves({FactOf[tool]}, "judgment_entered")}
    [] tool \in {"dismiss_case_rule41",
                 "dismiss_for_lack_of_subject_matter_jurisdiction"} ->
         {Leaves({FactOf[tool]}, "closed")}
    [] OTHER -> {Leaves({FactOf[tool]}, status)}

(* An amended complaint opens the Rule 56 window again.                    *)
Reopened(tool) ==
  IF tool = "file_amended_complaint" THEN {"rule 56 declined"} ELSE {}

PretrialInit ==
  /\ case \in Cases
  /\ status = "filed"
  /\ facts = case.given
  /\ passed = {}

Act ==
  \E turn \in {CurrentItem} \ {Nothing} : \E effect \in EffectsOf(turn) :
    /\ StepAccepts(turn.tool)
    /\ facts' = (facts \ Reopened(turn.tool)) \cup effect.added
    /\ status' = effect.status
    /\ passed' = {}
    /\ UNCHANGED case

(* Deviation: whatever the runner does not do by itself may be passed.     *)
NotAutomatic(item) == item.kind \in {"optional", "required"}

MayPass(item) == item.kind = "optional"

(* Deviation: passing a Rule 56 motion changes the case but does not close *)
(* the movant's window.                                                    *)
WindowLeftOpen(item) ==
  IF item.tool = "file_rule56_motion" THEN [facts |-> facts, passed |-> {}]
  ELSE [facts |-> facts, passed |-> passed \cup {item}]

(* A pass is remembered until the case changes.  Passing a Rule 56 motion  *)
(* changes it: the movant's window closes.                                 *)
AfterPass(item) ==
  IF item.tool = "file_rule56_motion"
  THEN [facts |-> facts \cup {"rule 56 declined"}, passed |-> {}]
  ELSE [facts |-> facts, passed |-> passed \cup {item}]

Pass ==
  \E turn \in {CurrentItem} :
    /\ MayPass(turn)
    /\ facts' = AfterPass(turn).facts
    /\ passed' = AfterPass(turn).passed
    /\ UNCHANGED <<case, status>>

Stop == CurrentItem = Nothing /\ UNCHANGED pretrialVars

PretrialNext == Act \/ Pass \/ Stop

PretrialSpec == PretrialInit /\ [][PretrialNext]_pretrialVars

(* The runner takes turn after turn until nothing is open to it.           *)
FairPretrialSpec == PretrialSpec /\ WF_pretrialVars(PretrialNext)

-----------------------------------------------------------------------------
(* Properties.                                                             *)

(* The state is well formed, and no side has more dispositive motions on   *)
(* the docket than its policy allows.                                      *)
PretrialTypeOK ==
  /\ case \in Cases
  /\ status \in {"filed", "pretrial", "trial", "judgment_entered", "closed"}
  /\ facts \subseteq Range(FactOf) \cup Settings \cup
       {"answer", "granted", "leave to amend", "jury trial", "bench trial", "imported",
        "plaintiff report", "defendant report", "rule 56 declined"}
  /\ passed \subseteq {item \in Items : item.kind = "optional"}
  /\ Cardinality(facts \cap DispositiveMotions) <= case.motions

Followed(first, second) == first \in facts => second \in facts

(* No motion is left undecided and no request unanswered when the case     *)
(* goes to trial or the runner stops after judgment, and a case goes to    *)
(* trial with one trial mode.                                              *)
NothingLeftUndecided ==
  /\ status = "trial" =>
       /\ Followed("rule 12 motion", "rule 12 order")
       /\ Followed("rule 37 motion", "rule 37 order")
       /\ Followed("rule 56 motion", "rule 56 order")
       /\ Followed("interrogatories", "interrogatory responses")
       /\ Followed("production request", "production responses")
       /\ Followed("admission requests", "admission responses")
       /\ Cardinality(facts \cap {"jury trial", "bench trial"}) = 1
  /\ status = "judgment_entered" /\ CurrentItem = Nothing /\ ~case.stops =>
       /\ Followed("rule 59 motion", "rule 59 order")
       /\ Followed("rule 60 motion", "rule 60 order")

Heard(role, tool) ==
  \/ FactOf[tool] \in facts
  \/ <<role, tool>> \notin case.tools
  \/ \E item \in passed : item.tool = tool

(* The judge rules on a Rule 12 or Rule 56 motion only after the opponent  *)
(* has opposed it or declined to since the case last changed, and then the *)
(* movant has replied or declined to.                                      *)
RulingsAreHeard ==
  [][\A rule \in {<<"rule 12 order", "oppose_rule12_motion", "reply_rule12_motion">>,
                  <<"rule 56 order", "oppose_rule56_motion", "reply_rule56_motion">>} :
       rule[1] \in facts' \ facts =>
         /\ Heard("plaintiff", rule[2])
         /\ FactOf[rule[2]] \in facts => Heard("defendant", rule[3])]_pretrialVars

(* Whatever is passed and offered again, the runner comes to rest: at      *)
(* trial, after judgment, at the close of the case or with nothing open.   *)
PretrialEnds == <>(CurrentItem = Nothing)
==============================================================================
