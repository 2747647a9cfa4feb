------------------------ MODULE MCRemediationVerify ------------------------
(***************************************************************************)
(* A small instance of RemediationVerify: two files and a third that may   *)
(* appear, two chains of commits, and one Template for every way a         *)
(* candidate can differ from its Base.                                     *)
(***************************************************************************)
EXTENDS RemediationVerify, TLC

MCLogicalIds == {"7", "07", "Role"}
MCCanon == ("7" :> "int 7") @@ ("07" :> "int 7") @@ ("Role" :> "Role")
MCTypes == {"AWS::IAM::Role", "AWS::S3::Bucket"}
MCProps == {"Policies", "Path"}

\* Values of Policies: what the rules and the statement comparison see in them.
\* fnif is an Fn::If in the place of the list: cfn-guard finds no statement
\* below it, and verify._statements cannot read it.  iflist is a list with an
\* Fn::If further down.
MCStatementsOf ==
    [broad |-> <<"keep">>, narrow |-> <<"keep">>, dropped |-> <<>>,
     altered |-> <<"kept">>, fnif |-> Unreadable, iflist |-> <<"keep">>, dynamic |-> <<"keep">>,
     twice |-> <<"keep">>]
MCLeaves == DOMAIN MCStatementsOf
MCPasses ==
    [no_overbroad |-> {"narrow", "dropped", "altered", "fnif", "iflist", "dynamic", "twice"},
     statement_present |-> {"broad", "narrow", "altered", "iflist", "dynamic", "twice"}]

-----------------------------------------------------------------------------
\* Templates

Role(policies) ==
    [type |-> "AWS::IAM::Role", attributes |-> <<>>, hasProperties |-> TRUE,
     properties |-> "Policies" :> policies]
Whole(resources) == [resources |-> resources, other |-> "broad", transform |-> FALSE]

BaseTemplate == Whole(("Role" :> Role("broad")) @@ ("7" :> Role("broad")))
With(id, r) == Whole((id :> r) @@ BaseTemplate.resources)
Twins(a, b) == Whole(("7" :> Role(a)) @@ ("07" :> Role(b)))

MCDoc ==
    [base |-> BaseTemplate,
     fixed |-> With("Role", Role("narrow")),
     dropped |-> With("Role", Role("dropped")),
     altered |-> With("Role", Role("altered")),
     fnif |-> With("Role", Role("fnif")),
     iflist |-> With("Role", Role("iflist")),
     dynamic |-> With("Role", Role("dynamic")),
     twice |-> With("Role", Role("twice")),
     path |-> With("Role", [Role("narrow") EXCEPT
                 !.properties = @ @@ ("Path" :> "narrow")]),
     emptied |-> With("Role", [Role("narrow") EXCEPT !.properties = <<>>]),
     bare |-> With("Role", [Role("narrow") EXCEPT
                 !.properties = <<>>, !.hasProperties = FALSE]),
     depends |-> With("Role", [Role("narrow") EXCEPT
                 !.attributes = "DependsOn" :> "narrow"]),
     retyped |-> With("Role", [Role("narrow") EXCEPT !.type = "AWS::S3::Bucket"]),
     renamed |-> Whole(("07" :> Role("narrow")) @@ ("7" :> Role("broad"))),
     removed |-> Whole("Role" :> Role("narrow")),
     added |-> With("07", Role("narrow")),
     described |-> [With("Role", Role("narrow")) EXCEPT !.other = "narrow"],
     transformed |-> [With("Role", Role("narrow")) EXCEPT !.transform = TRUE],
     fixed7 |-> With("7", Role("narrow")),
     twins |-> Twins("broad", "broad"),
     twin7 |-> Twins("narrow", "broad"),
     twin07 |-> Twins("broad", "narrow"),
     bad_lint |-> With("Role", Role("narrow"))]

-----------------------------------------------------------------------------
\* Contracts, commits and working trees

Grants(id, allowed) == [resource |-> id, edits |-> allowed, path |-> "tmpl"]
MCScope ==
    [k |-> Grants("Role", "Policies" :> {"replace"}),
     k7 |-> Grants("7", "Policies" :> {"replace"}),
     kwide |-> Grants("Role", ("Policies" :> {"replace", "remove"})
                              @@ ("Path" :> {"add", "replace"}))]

MCContents == DOMAIN MCDoc \cup DOMAIN MCScope \cup {"junk"}
MCLintClean == MCContents \ {"bad_lint"}
MCPaths == <<"contract", "extra", "tmpl">>

File(oid) == [mode |-> FileMode, oid |-> oid]
TreeFor(k, t) == ("contract" :> File(k)) @@ ("tmpl" :> File(t))

\* A commit is its contract, the first Template of its chain and its own.
MainRoot == <<"k", "base", "base">>
SevenRoot == <<"k7", "base", "base">>
TwinRoot == <<"k7", "twins", "twins">>
MCCommits ==
    {<<"k", "base", t>> : t \in (DOMAIN MCDoc \ {"twins", "twin7", "twin07"}) \cup {"junk"}}
    \cup {<<"k7", "base", t>> : t \in {"base", "fixed7", "fixed"}}
    \cup {<<"k7", "twins", t>> : t \in {"twins", "twin7", "twin07"}}
    \cup {<<"kwide", "base", "path">>, <<"junk", "base", "base">>}
MCTree == [c \in MCCommits |-> TreeFor(c[1], c[3])]
MCAncestors ==
    {<<a, d>> \in MCCommits \X MCCommits :
        a = d \/ (a[2] = d[2] /\ a[3] = a[2] /\ d[3] # d[2]
                  /\ (a[1] = d[1] \/ d[1] = "kwide"))}

At(c, b, h) == ("config" :> c) @@ ("base" :> b) @@ ("head" :> h)
MCCheckouts ==
    {At(MainRoot, MainRoot, h) : h \in {c \in MCCommits : c[2] = "base"}}
    \cup {At(SevenRoot, SevenRoot, h) : h \in {c \in MCCommits : c[1] = "k7"}}
    \cup {At(TwinRoot, TwinRoot, h) : h \in {c \in MCCommits : c[2] = "twins"}}
    \cup {At(<<"kwide", "base", "path">>, MainRoot, <<"kwide", "base", "path">>),
          At(<<"junk", "base", "base">>, MainRoot, <<"k", "base", "fixed">>)}

Command(source, draft, head) == [source |-> source, draft |-> draft, head |-> head]
Start(command, checkout, tree) ==
    [request |-> command, refs |-> checkout, disk |-> tree,
     tracked |-> {"contract", "tmpl"} \cap DOMAIN tree]

\* --head of every commit, --contract-file, and --worktree on three trees.
MCStarts ==
    {Start(Command("git_revision", "k", "commit"), c, <<>>) : c \in MCCheckouts}
    \cup {Start(Command("draft_file", d, "commit"), At(MainRoot, MainRoot, <<"k", "base", h>>), <<>>) :
            d \in {"k", "kwide", "junk"}, h \in {"fixed", "path"}}
    \cup {Start(Command("git_revision", "k", "worktree"), At(MainRoot, MainRoot, MainRoot), w) :
            w \in {TreeFor("k", "fixed"), TreeFor("k", "path"),
                   TreeFor("k", "fixed") @@ ("extra" :> File("junk"))}}

MCMoveTo == {NoCommit, <<"kwide", "base", "path">>, <<"k", "base", "fixed">>}
MCWriteEntries == {File("fixed"), File("path"), [mode |-> "100755", oid |-> "fixed"]}
=============================================================================
