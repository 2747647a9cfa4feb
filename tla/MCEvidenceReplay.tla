-------------------------- MODULE MCEvidenceReplay --------------------------
(***************************************************************************)
(* TLC instance of EvidenceReplay: one answer for every way a page can go, *)
(* and specifications that name all pages, some of them, or one per group; *)
(* the second page exists only in captures of two pages.                   *)
(***************************************************************************)
EXTENDS EvidenceReplay

Good == [got |-> "answer", status |-> 200, size |-> 1, text |-> "plain",
         headers |-> "plain", cut |-> FALSE, parses |-> TRUE, more |-> FALSE,
         link |-> "none", checks |-> 1]

MCAnswers == {
    Good,
    [Good EXCEPT !.link = "same"],
    [Good EXCEPT !.link = "same", !.checks = 0, !.size = 2],
    [Good EXCEPT !.link = "elsewhere"],
    [Good EXCEPT !.link = "same", !.text = "escaped"],
    [Good EXCEPT !.headers = "secret"],
    [Good EXCEPT !.status = 500, !.link = "same"],
    [Good EXCEPT !.size = 3],
    [Good EXCEPT !.cut = TRUE],
    [Good EXCEPT !.parses = FALSE],
    [Good EXCEPT !.more = TRUE],
    [Good EXCEPT !.size = NoBody],
    [Good EXCEPT !.got = "raised"] }

NoGroup == [ids |-> {}, complete |-> TRUE]
All(complete) == [ids |-> {1, 2}, complete |-> complete]
Only(id) == [ids |-> {id}, complete |-> FALSE]

MCSpecs == {
    [groups |-> <<All(TRUE), NoGroup>>, check_runs |-> {1, 2}],
    [groups |-> <<Only(1), Only(2)>>, check_runs |-> {1, 2}],
    [groups |-> <<Only(1), All(FALSE)>>, check_runs |-> {1}] }
=============================================================================
