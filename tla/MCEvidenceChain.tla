---------------------------- MODULE MCEvidenceChain ----------------------------
\* A small chain: a reviewer, the author and a deleted account review a pull
\* request with two heads, captured one review per page.
EXTENDS EvidenceChain

MCAccounts == {"author", "alice", "bob", "deleted"}
MCCommits == <<"c1", "c2">>
================================================================================
