------------------------------ MODULE PullRequest ------------------------------
(***************************************************************************)
(* The outside world of the Human Gate: a pull request on GitHub whose     *)
(* reviews are opened, submitted and dismissed and whose head moves, and   *)
(* the capture of it into the evidence store, one page per request, with   *)
(* everything else going on in between.  Time stamps have the resolution   *)
(* of the clock, so two events may carry the same one; order is what really*)
(* happened and is in no captured page.                                    *)
(***************************************************************************)
EXTENDS HumanGate, SequencesExt

CONSTANTS Accounts,    \* the accounts that review; Nothing is a deleted one
          Author,      \* the account that opened the pull request
          Viewer,      \* the account whose token captures
          Commits,     \* the heads of the pull request, in the order pushed
          PageSize,    \* reviews per page
          MaxReviews,  \* bound on the reviews ever opened
          MaxOdd,      \* bound on the unusual things that happen (Odd)
          MaxTime      \* bound on the clock

VARIABLES
  reviews,   \* reviews[i]: the review with id i
  head,      \* index of the current head in Commits
  clock,
  happened,  \* how many reviews were submitted so far
  capture,   \* what was captured: [pull, number, pages, complete]
  truth      \* history of what the pages cannot show.  inForce: the reviews that
             \* were in force when their page was captured and not overridden when
             \* a later one was; objections: the requests for changes that stood
             \* when the last page so far was captured

prVars == <<reviews, head, clock, happened, capture, truth>>

ASSUME PullRequestAssumption ==
  /\ Author \in Accounts /\ PageSize \in Nat \ {0}
  /\ MaxReviews \in Nat /\ MaxOdd \in Nat /\ MaxTime \in Nat
  /\ Commits \in Seq(Range(Commits)) /\ Commits # <<>>

\* Accounts whose data GitHub no longer returns show as null.
User(u) == IF u = "deleted" THEN Nothing ELSE u

Pulls == {Nothing} \cup
         [number : {1, 2}, author : {User(Author), Nothing},
          head : Range(Commits) \cup {Nothing}, state : {"open", "merged", "closed", "UNKNOWN"}]

\* The reviews in the order GitHub lists them: by the time they were submitted,
\* those not submitted yet last and only for the account that opened them.
Listed == {i \in DOMAIN reviews : reviews[i].state # "PENDING" \/ reviews[i].user = Viewer}

Stamp(i) == IF reviews[i].state = "PENDING" THEN MaxTime + 1 ELSE reviews[i].at

Earlier(i, j) == Stamp(i) < Stamp(j) \/ (Stamp(i) = Stamp(j) /\ i < j)

Position(i) == 1 + Cardinality({j \in Listed : Earlier(j, i)})

Listing == [n \in 1..Cardinality(Listed) |-> CHOOSE i \in Listed : Position(i) = n]

Raw(i) == [id |-> i, user |-> User(reviews[i].user), state |-> reviews[i].state,
           at |-> reviews[i].at, commit |-> reviews[i].commit]

\* The truth the gate cannot see: a review is in force when it is submitted, not
\* dismissed, and its account did not ask for changes after it.
Later(i, states) ==
  \E j \in DOMAIN reviews : /\ reviews[j].user = reviews[i].user
                            /\ reviews[j].state \in states
                            /\ reviews[j].order > reviews[i].order

Overridden(i) == Later(i, {"CHANGES_REQUESTED"})

InForce(i) == reviews[i].state = "APPROVED" /\ ~Overridden(i)

\* A request for changes stands until its account approves; it may be dismissed,
\* and what the dismissal of a later approval does to it is not known.
Objection(i) == /\ reviews[i].state = "CHANGES_REQUESTED"
                /\ ~Later(i, {"APPROVED", "DISMISSED"})

Captured == capture.pages # <<>> /\ ~Last(capture.pages).next

PRInit ==
  /\ reviews = <<>>
  /\ head = 1
  /\ clock = 0
  /\ happened = 0
  /\ truth = [inForce |-> {}, objections |-> {}]
  /\ capture = [pull |-> Nothing, number |-> 1, pages |-> <<>>, complete |-> TRUE]

Push ==
  /\ head < Len(Commits)
  /\ head' = head + 1
  /\ UNCHANGED <<reviews, clock, happened, capture, truth>>

UsualPull == [number |-> 1, author |-> User(Author), head |-> Commits[head], state |-> "open"]

\* What GitHub answers about the pull request: as it should be, or about another
\* pull request, without its author, or in a state the gate does not know.
PullAnswers ==
  {UsualPull, [UsualPull EXCEPT !.state = "merged"], [UsualPull EXCEPT !.state = "closed"],
   [UsualPull EXCEPT !.state = "UNKNOWN"], [UsualPull EXCEPT !.number = 2],
   [UsualPull EXCEPT !.author = Nothing], [UsualPull EXCEPT !.head = Nothing]}

\* The unusual things so far: reviews that decide nothing or whose account is gone,
\* an answer about the pull request that is not the usual one.
OddReviews ==
  {i \in DOMAIN reviews : \/ reviews[i].user = "deleted"
                          \/ reviews[i].state \in {"COMMENTED", "UNKNOWN"}}

UsualAnswer ==
  \/ capture.pull = Nothing
  \/ /\ capture.pull.state = "open"
     /\ capture.pull.number = 1
     /\ Nothing \notin {capture.pull.author, capture.pull.head}

Odd == Cardinality(OddReviews) + (IF UsualAnswer THEN 0 ELSE 1)

\* An account has at most one review that is not submitted.
Idle(u) == ~\E i \in DOMAIN reviews : reviews[i].user = u /\ reviews[i].state = "PENDING"

\* A review is about the head of the moment it is opened; the id is given then.
Open(u) ==
  /\ Len(reviews) < MaxReviews
  /\ Idle(u)
  /\ reviews' = Append(reviews, [user |-> u, state |-> "PENDING", at |-> 0,
                                 commit |-> Commits[head], order |-> 0])
  /\ UNCHANGED <<head, clock, happened, capture, truth>>

\* Time passes between two submissions, or does not.
Submit(i, state, at) ==
  /\ reviews[i].state = "PENDING"
  /\ at >= clock
  /\ clock' = at
  /\ happened' = happened + 1
  /\ reviews' = [reviews EXCEPT ![i].state = state, ![i].at = at,
                                ![i].order = happened + 1]
  /\ UNCHANGED <<head, capture, truth>>

\* Opened and submitted in one request.
Review(u, state, at) ==
  /\ Len(reviews) < MaxReviews
  /\ Idle(u)
  /\ at >= clock
  /\ clock' = at
  /\ happened' = happened + 1
  /\ reviews' = Append(reviews, [user |-> u, state |-> state, at |-> at,
                                 commit |-> Commits[head], order |-> happened + 1])
  /\ UNCHANGED <<head, capture, truth>>

Dismiss(i) ==
  /\ reviews[i].state \in {"APPROVED", "CHANGES_REQUESTED"}
  /\ reviews' = [reviews EXCEPT ![i].state = "DISMISSED"]
  /\ UNCHANGED <<head, clock, happened, capture, truth>>

CapturePull(answer) ==
  /\ capture.pull = Nothing
  /\ capture' = [capture EXCEPT !.pull = answer]
  /\ UNCHANGED <<reviews, head, clock, happened, truth>>

CapturePage ==
  /\ capture.complete /\ ~Captured
  /\ LET k     == Len(capture.pages)
         last  == IF (k + 1) * PageSize < Len(Listing) THEN (k + 1) * PageSize
                  ELSE Len(Listing)
         items == [n \in 1..(last - k * PageSize) |-> Raw(Listing[k * PageSize + n])]
     IN /\ capture' = [capture EXCEPT !.pages =
                      Append(@, [items |-> items, next |-> last < Len(Listing)])]
        /\ truth' =
             [inForce |-> {i \in truth.inForce : ~Overridden(i)}
                          \cup {i \in {items[n].id : n \in DOMAIN items} : InForce(i)},
              objections |-> {i \in DOMAIN reviews : Objection(i)}]
  /\ UNCHANGED <<reviews, head, clock, happened>>

\* The capture stops after a page that announced another one.
CaptureFails ==
  /\ capture.pages # <<>> /\ ~Captured /\ capture.complete
  /\ capture' = [capture EXCEPT !.complete = FALSE]
  /\ UNCHANGED <<reviews, head, clock, happened, truth>>

\* Both captures are over: there is nothing left to capture.
CaptureEnded == capture.pull # Nothing /\ (Captured \/ ~capture.complete)

PRNext ==
  /\ ~CaptureEnded
  /\ \/ Push
     \/ \E u \in Accounts : Open(u)
     \/ \E u \in Accounts, s \in {"APPROVED", "CHANGES_REQUESTED", "COMMENTED", "UNKNOWN"},
          t \in 0..MaxTime : Review(u, s, t)
     \/ \E i \in DOMAIN reviews, s \in {"APPROVED", "CHANGES_REQUESTED"}, t \in 0..MaxTime :
          Submit(i, s, t)
     \/ \E i \in DOMAIN reviews : Dismiss(i)
     \/ \E answer \in PullAnswers : CapturePull(answer)
     \/ CapturePage
     \/ CaptureFails
  /\ Odd' <= MaxOdd
================================================================================
