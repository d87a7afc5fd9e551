---------------------------- MODULE PullRequest ----------------------------
(* The GitHub side of one pull request and the background tasks that scan    *)
(* its lockfiles and keep a comment on it.                                   *)
(*                                                                           *)
(* Source: src/src/palisade/github_app/webhook.py.                           *)
(*                                                                           *)
(* Every call to GitHub is an action, for every call is an await at which    *)
(* other tasks run.  A listing of several pages is one action, that of its   *)
(* last page: comments are added at the end and none is deleted here, so an  *)
(* earlier page of them has not changed by then.  Signatures are verified,   *)
(* and other events than a pull request's opened, synchronize and reopened   *)
(* are ignored, before there is a task.                                      *)

EXTENDS Naturals, Sequences, FiniteSets

CONSTANTS Tasks,          \* runs of handle_pull_request
          Lockfiles,      \* paths at which there may be a lockfile
          Heads,          \* what a head of the pull request may be
          MaxLockfiles,   \* _MAX_LOCKFILES
          MaxListed,      \* _PER_PAGE * _MAX_PAGES
          MaxPushes,      \* bound: heads the pull request goes through
          MaxComments     \* bound: comments people leave

(* Of a head: the lockfiles in its tree, those of them that the pull request *)
(* changes (a removed one is not in the tree, changed_lockfiles leaves it    *)
(* out), and those larger than _MAX_LOCKFILE_BYTES.                          *)
AllHeads ==
  {h \in [tree : SUBSET Lockfiles, changed : SUBSET Lockfiles, big : SUBSET Lockfiles] :
     h.changed \subseteq h.tree /\ h.big \subseteq h.tree}

ASSUME LimitsAssumption ==
  /\ Heads \subseteq AllHeads
  /\ MaxLockfiles \in Nat /\ MaxListed \in Nat
  /\ MaxPushes \in Nat /\ MaxComments \in Nat

VARIABLES
  heads,      \* GitHub: the heads there have been, the latest one last
  comments,   \* GitHub: the comments, oldest first
  task        \* task[t]: where a task is, and its locals

vars == <<heads, comments, task>>

(* A task's locals: head is its delivery's, todo and done are the lockfiles  *)
(* it has still to scan and has a report on, mine is the comment it found to *)
(* update, 0 for none.  History: listed, the latest head when it listed the  *)
(* files; asked, those it was given and did not find oversized; saw, the     *)
(* number of comments when it listed them.                                   *)
Blank == [pc |-> "idle", head |-> 0, todo |-> {}, done |-> {}, mine |-> 0,
          listed |-> 0, asked |-> {}, saw |-> 0]
Active == {"scheduled", "reading", "writing"}

(* A comment has MARKER on top and reports on some lockfiles, or is          *)
(* somebody's.  History: head, listed and asked, those of the task that      *)
(* wrote it last; after, what its creator saw.                               *)
Marked == [head : 1 .. MaxPushes, listed : 1 .. MaxPushes,
           covers : SUBSET Lockfiles, asked : SUBSET Lockfiles, after : Nat]
Person == [by |-> "person"]
IsMarked(c) == c # Person

Init == heads = <<>> /\ comments = <<>> /\ task = [t \in Tasks |-> Blank]

----------------------------------------------------------------------------
(* GitHub and the web server                                                *)

(* The pull request is opened, or commits are pushed to it.                  *)
Push ==
  /\ Len(heads) < MaxPushes
  /\ \E h \in Heads : heads' = Append(heads, h)
  /\ UNCHANGED <<comments, task>>

(* Somebody comments.                                                        *)
PersonComments ==
  /\ Cardinality({i \in DOMAIN comments : ~IsMarked(comments[i])}) < MaxComments
  /\ comments' = Append(comments, Person)
  /\ UNCHANGED <<heads, task>>

(* The webhook is delivered: a task is scheduled and GitHub gets its 202.    *)
(* Deliveries come late, out of order, repeatedly or not at all.             *)
Deliver(t) ==
  /\ task[t].pc = "idle"
  /\ \E h \in DOMAIN heads :
       task' = [task EXCEPT ![t].pc = "scheduled", ![t].head = h]
  /\ UNCHANGED <<heads, comments>>

Gone == [Blank EXCEPT !.pc = "over"]
End(t) == task' = [task EXCEPT ![t] = Gone]

(* The server restarts, and with it go the tasks it has acknowledged.        *)
Restart ==
  /\ \E t \in Tasks : task[t].pc \in Active
  /\ task' = [t \in Tasks |-> IF task[t].pc \in Active THEN Gone ELSE task[t]]
  /\ UNCHANGED <<heads, comments>>

----------------------------------------------------------------------------
(* handle_pull_request                                                      *)

(* Of S the first MaxLockfiles are taken, whichever those are in GitHub's    *)
(* order.                                                                    *)
Taken(S) ==
  IF Cardinality(S) <= MaxLockfiles THEN {S}
  ELSE {F \in SUBSET S : Cardinality(F) = MaxLockfiles}

(* pr_files gives what the pull request changes now, at its latest head;     *)
(* with no lockfile the task is done.                                        *)
ListFiles(t) ==
  /\ task[t].pc = "scheduled"
  /\ LET now == heads[Len(heads)].changed
     IN IF now = {} THEN End(t)
        ELSE \E F \in Taken(now) :
          task' = [task EXCEPT ![t].pc = "reading", ![t].todo = F, ![t].asked = F,
                               ![t].listed = Len(heads)]
  /\ UNCHANGED <<heads, comments>>

Reading(t, f) == task[t].pc = "reading" /\ f \in task[t].todo

\* Variant of ReadFile: the content is read at the latest head.
ReadLatestFile(t, f) ==
  /\ Reading(t, f)
  /\ f \in heads[Len(heads)].tree \ heads[Len(heads)].big
  /\ task' = [task EXCEPT ![t].todo = @ \ {f}, ![t].done = @ \cup {f}]
  /\ UNCHANGED <<heads, comments>>

(* file_content at the head of the delivery gives any file of that head's    *)
(* tree, whether the pull request changes it there or not; and the scan.     *)
ReadFile(t, f) ==
  /\ Reading(t, f)
  /\ f \in heads[task[t].head].tree \ heads[task[t].head].big
  /\ task' = [task EXCEPT ![t].todo = @ \ {f}, ![t].done = @ \cup {f}]
  /\ UNCHANGED <<heads, comments>>

(* That content is larger than _MAX_LOCKFILE_BYTES.                          *)
SkipFile(t, f) ==
  /\ Reading(t, f)
  /\ f \in heads[task[t].head].big
  /\ task' = [task EXCEPT ![t].todo = @ \ {f}, ![t].asked = @ \ {f}]
  /\ UNCHANGED <<heads, comments>>

(* No lockfile is left to read, and there is no report.                      *)
NothingToReport(t) ==
  /\ task[t].pc = "reading" /\ task[t].todo = {} /\ task[t].done = {}
  /\ End(t)
  /\ UNCHANGED <<heads, comments>>

\* Variant of Fail: a lockfile that cannot be read or scanned is left out.
FailOneFile(t) ==
  /\ \E f \in task[t].todo : task' = [task EXCEPT ![t].todo = @ \ {f}]
  /\ UNCHANGED <<heads, comments>>

(* Any call raises: there is no such file at that head, the scan fails,      *)
(* GitHub refuses or does not answer.  The broad except logs it and the task *)
(* ends.                                                                     *)
Fail(t) ==
  /\ task[t].pc \in Active
  /\ End(t)
  /\ UNCHANGED <<heads, comments>>

\* Variant of OwnComments: MARKER is not looked for.
AnyComments == {i \in DOMAIN comments : i <= MaxListed}

\* Variant of OwnComments: one page too few is read.
OwnCommentsButLastPage == {i \in DOMAIN comments : IsMarked(comments[i]) /\ i < MaxListed}

(* The comments with MARKER among those that _get_all gives.                 *)
OwnComments == {i \in DOMAIN comments : IsMarked(comments[i]) /\ i <= MaxListed}

First(S) == CHOOSE i \in S : \A j \in S : i <= j
Last(S) == CHOOSE i \in S : \A j \in S : j <= i

ListWith(t, Pick(_)) ==
  /\ task[t].pc = "reading" /\ task[t].todo = {} /\ task[t].done # {}
  /\ task' = [task EXCEPT ![t].pc = "writing", ![t].saw = Len(comments),
                ![t].mine = IF OwnComments = {} THEN 0 ELSE Pick(OwnComments)]
  /\ UNCHANGED <<heads, comments>>

\* Variant of ListComments: the latest comment of its own is taken.
ListLastComment(t) == ListWith(t, Last)

(* upsert_comment, first call: which comment is to be updated, if any.       *)
ListComments(t) == ListWith(t, First)

(* upsert_comment, second call: PATCH that comment, or POST a new one.  The  *)
(* call may then still fail for the task: its answer is lost.                *)
Write(t) ==
  LET m == task[t].mine
      body == [head |-> task[t].head, listed |-> task[t].listed,
               covers |-> task[t].done, asked |-> task[t].asked,
               after |-> IF m = 0 THEN task[t].saw ELSE comments[m].after]
  IN /\ task[t].pc = "writing"
     /\ comments' = IF m = 0 THEN Append(comments, body) ELSE [comments EXCEPT ![m] = body]
     /\ End(t)
     /\ UNCHANGED heads

(* Every task has run.                                                       *)
Over == (\A t \in Tasks : task[t] = Gone) /\ UNCHANGED vars

Next ==
  \/ Push \/ PersonComments \/ Restart \/ Over
  \/ \E t \in Tasks :
       \/ Deliver(t) \/ ListFiles(t) \/ NothingToReport(t) \/ Fail(t)
       \/ ListComments(t) \/ Write(t)
       \/ \E f \in Lockfiles : ReadFile(t, f) \/ SkipFile(t, f)

Spec == Init /\ [][Next]_vars

----------------------------------------------------------------------------

Locals == [pc : Active \cup {"idle", "over"}, head : 0 .. MaxPushes,
           todo : SUBSET Lockfiles, done : SUBSET Lockfiles, mine : Nat,
           listed : 0 .. MaxPushes, asked : SUBSET Lockfiles, saw : Nat]

(* The head of a task's locals k has been pushed, and the comment it is to   *)
(* update is one of its own.                                                 *)
InPlace(k) ==
  /\ k.pc \in Active => k.head \in DOMAIN heads
  /\ k.mine # 0 => k.mine \in DOMAIN comments /\ IsMarked(comments[k.mine])

TypeOK ==
  /\ heads \in Seq(Heads) /\ Len(heads) <= MaxPushes
  /\ comments \in Seq(Marked \cup {Person})
  /\ task \in [Tasks -> Locals]
  /\ \A t \in Tasks : InPlace(task[t])

(* The comment is found again from push to push: another one is created only *)
(* by a task that listed the comments before the first was there, or if the  *)
(* first is beyond the last page that is read.                               *)
DuplicatesOnlyFromRaces ==
  \A i, j \in DOMAIN comments :
    i < j /\ i <= MaxListed /\ IsMarked(comments[i]) /\ IsMarked(comments[j]) =>
      comments[j].after < i

(* Of several comments only the first is ever updated again, unless it is    *)
(* beyond the last page: a duplicate is stale for good after the next push.  *)
DuplicatesAreFrozen ==
  [][\A i, j \in DOMAIN comments :
       i < j /\ i <= MaxListed /\ IsMarked(comments[i]) /\ IsMarked(comments[j])
       => comments'[j] = comments[j]]_vars

(* A comment reports on every lockfile its task was given and did not find   *)
(* oversized: when one of several fails, nothing is posted.                  *)
ReportsAreWhole ==
  \A i \in DOMAIN comments : IsMarked(comments[i]) =>
    comments[i].covers = comments[i].asked /\ comments[i].covers # {}

(* A report joins two heads: which lockfiles it is on was settled by what    *)
(* the pull request changed at one, the latest when its task listed them;    *)
(* their contents are from the head of the delivery, which may be older.     *)
(* All of them are there, changed or not, none is oversized there, and none  *)
(* that was listed is missing unless it is.                                  *)
ReportsJoinTwoHeads ==
  \A i \in DOMAIN comments : IsMarked(comments[i]) =>
    LET c == comments[i]
    IN /\ c.head <= c.listed
       /\ \E F \in Taken(heads[c.listed].changed) :
            F \subseteq heads[c.head].tree /\ c.covers = F \ heads[c.head].big

(* webhook.py:136: "upsert a single report comment".                         *)
SingleComment ==
  \A i, j \in DOMAIN comments :
    i < j /\ IsMarked(comments[i]) => ~IsMarked(comments[j])

----------------------------------------------------------------------------
(* What makes these inductive.  With locals k, a task has a report on each   *)
(* of its lockfiles, or has still to read it; of those it was given, all but *)
(* the oversized ones of its delivery's head; the comment it is to update is *)
(* the first there is, and if it found none there was none when it listed    *)
(* them.                                                                     *)
ReadsSoFar(k) ==
  /\ k.pc \in {"idle", "scheduled"} => k.done = {} /\ k.mine = 0
  /\ k.pc = "reading" => k.todo \cap k.done = {} /\ k.todo \cup k.done = k.asked
  /\ k.pc = "writing" => k.done = k.asked /\ k.done # {} /\ k.todo = {}

GivenSoFar(k) ==
  k.pc \in {"reading", "writing"} =>
    /\ k.listed \in DOMAIN heads /\ k.head <= k.listed
    /\ \E F \in Taken(heads[k.listed].changed) :
         /\ k.todo \subseteq F /\ F \ k.todo \subseteq heads[k.head].tree
         /\ k.done = (F \ k.todo) \ heads[k.head].big

ListedSoFar(k) ==
  k.pc = "writing" =>
    /\ k.saw <= Len(comments)
    /\ \A i \in OwnComments : IF k.mine = 0 THEN k.saw < i ELSE k.mine <= i

TaskInv(k) == InPlace(k) /\ ReadsSoFar(k) /\ GivenSoFar(k) /\ ListedSoFar(k)

CommentsSoFar ==
  /\ DuplicatesOnlyFromRaces /\ ReportsAreWhole /\ ReportsJoinTwoHeads
  /\ \A i \in DOMAIN comments : IsMarked(comments[i]) =>
       comments[i].head \in DOMAIN heads /\ comments[i].listed \in DOMAIN heads

IInv == TypeOK /\ CommentsSoFar /\ \A t \in Tasks : TaskInv(task[t])
=============================================================================
