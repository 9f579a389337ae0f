---------------------------- MODULE MCResearch --------------------------------
(* A run whose brief may ask for a report, a section and external sources. *)
EXTENDS Research

CONSTANTS policy, page, blog

AllRefs      == {policy, page, blog}
CompanyRefs  == {policy}
ExternalRefs == {page, blog}
PrimaryRefs  == {page}
Pages        == {}

company == [tool |-> "company_context_search", argument |-> "policy"]
search  == [tool |-> "public_web_search", argument |-> "topic"]
fetch   == [tool |-> "public_doc_fetch", argument |-> "page"]

InternalLookups == {company}
WebLookups      == {search, fetch}

Returned == [c \in InternalLookups \cup WebLookups |->
                CASE c = company -> {policy}
                  [] c = search  -> {page, blog}
                  [] c = fetch   -> {page}]

\* The same claim, cited properly and with an invented source.
Claim(class, sources) == [statement |-> "s", class |-> class, sources |-> sources]

Report(findings) == [type |-> "report", sections |-> {}, findings |-> findings]

Reply(calls, findings, papers) ==
    [calls |-> calls, findings |-> findings, artefacts |-> papers]

ModelAnswersMC ==
    {Reply(<<fetch, search, company>>, {Claim("external_fact", {page, policy})}, <<>>),
     Reply(<<>>, {Claim("pac_fact", {policy})}, <<Report({})>>)}

WriteUpsMC == {Reply(<<>>, {Claim("pac_fact", {page})}, <<Report({}), Report({Claim("project_fact", {policy})})>>),
               Reply(<<>>, {}, <<>>)}

RemediesMC == {<<[type |-> "report", sections |-> {"cost"}, findings |-> {}]>>}

WantedMC == {"report", "cost"}

BriefsMC ==
    {{[kind |-> "artefact_type", want |-> "report", minimum |-> 2],
      [kind |-> "external_sources", want |-> "any", minimum |-> 1],
      [kind |-> "named_section", want |-> "cost", minimum |-> 1]}}
===============================================================================
