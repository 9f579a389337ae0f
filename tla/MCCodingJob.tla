---------------------------- MODULE MCCodingJob ----------------------------
(* A small instance of CodingJob for TLC. *)
EXTENDS CodingJob

Git(sub, options, refs) ==
  [sub |-> sub, options |-> options, refs |-> refs, plus |-> FALSE, override |-> "none",
   elsewhere |-> FALSE]

(* One command or two for every rule: one it lets through, one it does not. *)
GitCommands ==
  {Git("commit", {}, {}), Git("merge", {}, {"other"}), Git("rebase", {}, {"default"}),
   Git("rebase", {"interactive"}, {"default"}), Git("reset", {"hard"}, {}),
   Git("branch", {"force"}, {"task"}), Git("branch", {"delete"}, {"default"}),
   Git("ref-write", {}, {"default"}), Git("push", {}, {"task"}), Git("push", {"force"}, {"default"}),
   Git("gc", {"prune"}, {}), Git("history", {}, {}), Git("inspect", {}, {}),
   [Git("inspect", {}, {}) EXCEPT !.elsewhere = TRUE, !.override = "hooks-off"],
   [Git("commit", {}, {}) EXCEPT !.override = "protected"]}
  \cup {Git("checkout", options, {b}) : options \in {{}, {"create"}}, b \in BRANCHES}

(* What is on record: an entry of the run's own, and entries that differ from it in one way. *)
Entry(kind, terms) ==
  [kind |-> kind, project |-> "project", task |-> "task", run |-> "earlier", version |-> 1,
   revision |-> "bound", sure |-> 100, grounded |-> TRUE, decision |-> "answered",
   terms |-> terms]

OnRecord ==
  {Entry("constraints", {"csv", "header"}), [Entry("assumptions", {"csv"}) EXCEPT !.sure = 50],
   [Entry("desiredBehaviour", {"csv", "header"}) EXCEPT !.version = 2],
   Entry("outOfScope", {"header"}), [Entry("mustNotChange", {"header"}) EXCEPT !.task = "other"],
   Entry("task", {"header"}), [Entry("task", {"csv"}) EXCEPT !.task = "other"],
   Entry("project", {"csv"}), [Entry("project", {"csv"}) EXCEPT !.project = "other"],
   Entry("global", {"csv", "header"}), Entry("readme", {"csv"}), Entry("commit", {"header"}),
   Entry("company", {"csv"}), [Entry("company", {"csv"}) EXCEPT !.revision = "active"],
   Entry("item", {"header"})}
  \cup {[Entry("answer", {"csv", "header"}) EXCEPT !.run = r, !.grounded = g, !.decision = d] :
          <<r, g, d>> \in {<<"earlier", TRUE, "answered">>, <<"earlier", FALSE, "answered">>,
                           <<"earlier", TRUE, "assumed">>, <<"this", TRUE, "answered">>}}

TwoOnRecord == {S \in SUBSET OnRecord : Cardinality(S) <= 2}

Subject(terms) ==
  [terms |-> terms, context |-> {}, sensitive |-> FALSE, irreversible |-> FALSE,
   architectural |-> FALSE]

SubjectsMC ==
  UNION {{s, [s EXCEPT !.sensitive = TRUE], [s EXCEPT !.irreversible = TRUE],
          [s EXCEPT !.architectural = TRUE]} : s \in {Subject({"csv"}), Subject({"csv", "header"})}}

RunsMC == {[project |-> "project", task |-> "task", run |-> "this", version |-> 1, revision |-> "bound"]}

PoliciesMC == {Policy(600000, 800000, 800000), Policy(500000, 900000, 700000)}
ConfidencesMC == {Missing, 550000, 700000, 850000, 950000}

ChangesMC ==
  {[files |-> files, size |-> size, migrations |-> m, dependencies |-> d, words |-> {"csv"}] :
     files \in {{}, {{"import", "csv"}}}, size \in {1, 26}, m \in BOOLEAN, d \in BOOLEAN}

BriefsMC ==
  {[mustNotChange |-> forbidden, mentions |-> mentions, components |-> n, criteria |-> {criterion}] :
     forbidden \in {{}, {{"import", "format"}}}, mentions \in SUBSET {"migration", "dependency"},
     n \in {0, 3}, criterion \in {{"csv", "header"}, {"total", "tax", "csv"}}}
=============================================================================
