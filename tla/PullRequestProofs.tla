-------------------------- MODULE PullRequestProofs --------------------------
(* Proofs about PullRequest, for any number of deliveries, lockfiles, pushes *)
(* and comments, and any limits.                                             *)
EXTENDS PullRequest, WellFoundedInduction, TLAPS

(* Person is not one of the comments the app makes.                          *)
LEMMA PersonIsNotMarked == \A c \in Marked : IsMarked(c)
<1> SUFFICES ASSUME NEW c \in Marked PROVE c # Person
  BY DEF IsMarked
<1>1. DOMAIN c = {"head", "listed", "covers", "asked", "after"}
  BY DEF Marked
<1>2. DOMAIN Person = {"by"}
  BY DEF Person
<1>3. "head" \in DOMAIN c /\ "head" \notin DOMAIN Person
  BY <1>1, <1>2
<1> QED
  BY <1>3

(* A task of which nothing is left.                                          *)
LEMMA GoneIsTyped == Blank \in Locals /\ Gone \in Locals
  BY LimitsAssumption DEF Locals, Blank, Gone

(* Nothing has been pushed.                                                  *)
LEMMA IInvInit == Init => IInv
<1> SUFFICES ASSUME Init PROVE IInv
  OBVIOUS
<1>1. heads = <<>> /\ comments = <<>> /\ task \in [Tasks -> Locals]
  BY GoneIsTyped DEF Init
<1>2. ASSUME NEW t \in Tasks PROVE TaskInv(task[t])
  BY <1>1 DEF Init, TaskInv, InPlace, ReadsSoFar, GivenSoFar, ListedSoFar, Blank, Active
<1>3. TypeOK
  BY <1>1, <1>2, LimitsAssumption DEF TypeOK, TaskInv
<1>4. CommentsSoFar
  BY <1>1 DEF CommentsSoFar, DuplicatesOnlyFromRaces, ReportsAreWhole, ReportsJoinTwoHeads
<1> QED
  BY <1>2, <1>3, <1>4 DEF IInv

(* A step of one task that writes no comment: it is right if the new locals  *)
(* are.                                                                      *)
LEMMA TaskStep ==
  ASSUME IInv, NEW t \in Tasks, NEW k \in Locals, TaskInv(k),
         task' = [task EXCEPT ![t] = k], UNCHANGED <<heads, comments>>
  PROVE  IInv'
<1>1. ASSUME NEW u \in Tasks PROVE TaskInv(task[u])'
  <2>1. task'[u] = IF u = t THEN k ELSE task[u]
    BY DEF IInv, TypeOK
  <2>2. TaskInv(task'[u])
    BY <2>1 DEF IInv
  <2>3. OwnComments' = OwnComments
    BY DEF OwnComments, IsMarked
  <2> QED
    BY <2>2, <2>3 DEF TaskInv, InPlace, ReadsSoFar, GivenSoFar, ListedSoFar, IsMarked
<1>2. TypeOK'
  BY <1>1 DEF IInv, TypeOK, TaskInv
<1>3. CommentsSoFar'
  BY DEF IInv, CommentsSoFar, DuplicatesOnlyFromRaces, ReportsAreWhole,
         ReportsJoinTwoHeads, IsMarked
<1> QED
  BY <1>1, <1>2, <1>3 DEF IInv

(* The end of a task is always right.                                        *)
LEMMA GoneIsRight == TaskInv(Gone)
  BY DEF TaskInv, InPlace, ReadsSoFar, GivenSoFar, ListedSoFar, Gone, Blank, Active

(* Any of the steps by which a task ends.                                    *)
LEMMA EndStep ==
  ASSUME IInv, NEW t \in Tasks, NothingToReport(t) \/ Fail(t)
  PROVE  IInv'
<1>1. task' = [task EXCEPT ![t] = Gone] /\ UNCHANGED <<heads, comments>>
  BY DEF NothingToReport, Fail, End
<1> QED
  BY <1>1, TaskStep, GoneIsTyped, GoneIsRight

(* A delivery is for a head that was pushed.                                 *)
LEMMA DeliverStep ==
  ASSUME IInv, NEW t \in Tasks, Deliver(t)
  PROVE  IInv'
<1>1. PICK h \in DOMAIN heads :
         task' = [task EXCEPT ![t].pc = "scheduled", ![t].head = h]
  BY DEF Deliver
<1> DEFINE k == [task[t] EXCEPT !.pc = "scheduled", !.head = h]
<1>2. task[t] \in Locals /\ TaskInv(task[t]) /\ task[t].pc = "idle"
  BY DEF Deliver, IInv, TypeOK
<1>3. h \in 0 .. MaxPushes
  BY LimitsAssumption DEF IInv, TypeOK
<1>4. k \in Locals
  BY <1>2, <1>3 DEF Locals, Active
<1>5. /\ k.pc = "scheduled" /\ k.head = h
      /\ k.done = task[t].done /\ k.mine = task[t].mine
  BY <1>2 DEF Locals
<1>6. TaskInv(k)
  BY <1>2, <1>5 DEF TaskInv, InPlace, ReadsSoFar, GivenSoFar, ListedSoFar, Active
<1>7. task' = [task EXCEPT ![t] = k] /\ UNCHANGED <<heads, comments>>
  BY <1>1, <1>2 DEF Deliver, IInv, TypeOK
<1> QED
  BY <1>4, <1>6, <1>7, TaskStep

(* Those taken are some of them.                                             *)
LEMMA TakenAreSome == \A S : \A F \in Taken(S) : F \subseteq S
  BY DEF Taken

(* Heads are records of sets of lockfiles.                                   *)
LEMMA HeadsAreTyped ==
  ASSUME NEW h \in Heads
  PROVE  /\ h.tree \in SUBSET Lockfiles
         /\ h.changed \in SUBSET h.tree /\ h.big \in SUBSET h.tree
  BY LimitsAssumption DEF AllHeads

(* The lockfiles to read are those the task was given.                       *)
LEMMA ListFilesStep ==
  ASSUME IInv, NEW t \in Tasks, ListFiles(t)
  PROVE  IInv'
<1>1. CASE task' = [task EXCEPT ![t] = Gone]
  BY <1>1, TaskStep, GoneIsTyped, GoneIsRight DEF ListFiles
<1>2. ASSUME NEW F \in Taken(heads[Len(heads)].changed),
             task' = [task EXCEPT ![t].pc = "reading", ![t].todo = F, ![t].asked = F,
                                  ![t].listed = Len(heads)]
      PROVE  IInv'
  <2> DEFINE k == [task[t] EXCEPT !.pc = "reading", !.todo = F, !.asked = F,
                                  !.listed = Len(heads)]
  <2>1. task[t] \in Locals /\ TaskInv(task[t]) /\ task[t].pc = "scheduled"
    BY DEF ListFiles, IInv, TypeOK
  <2>2. /\ heads \in Seq(Heads) /\ Len(heads) <= MaxPushes
        /\ task[t].head \in DOMAIN heads
    BY <2>1 DEF TaskInv, InPlace, Active, IInv, TypeOK
  <2>3. Len(heads) \in DOMAIN heads /\ Len(heads) \in 0 .. MaxPushes
        /\ task[t].head <= Len(heads)
    BY <2>2, LimitsAssumption
  <2>4. F \in SUBSET Lockfiles
    <3>1. heads[Len(heads)] \in Heads
      BY <2>2, <2>3
    <3> QED
      BY <3>1, HeadsAreTyped, TakenAreSome
  <2>5. k \in Locals
    BY <2>1, <2>3, <2>4 DEF Locals, Active
  <2>6. /\ k.pc = "reading" /\ k.head = task[t].head /\ k.todo = F /\ k.asked = F
        /\ k.done = task[t].done /\ k.mine = task[t].mine /\ k.listed = Len(heads)
    BY <2>1 DEF Locals
  <2>7. task[t].done = {} /\ task[t].mine = 0
    BY <2>1 DEF TaskInv, ReadsSoFar
  <2> HIDE DEF k
  <2>8. GivenSoFar(k)
    <3>1. F \ k.todo = {} /\ k.todo \subseteq F /\ k.done = {}
      BY <2>6, <2>7
    <3>2. F \in Taken(heads[k.listed].changed)
      BY <2>6
    <3> QED
      BY <2>3, <2>6, <3>1, <3>2 DEF GivenSoFar
  <2>9. TaskInv(k)
    BY <2>2, <2>6, <2>7, <2>8 DEF TaskInv, InPlace, ReadsSoFar, ListedSoFar, Active
  <2>10. task' = [task EXCEPT ![t] = k] /\ UNCHANGED <<heads, comments>>
    BY <1>2, <2>1 DEF ListFiles, IInv, TypeOK, k
  <2> QED
    BY <2>5, <2>9, <2>10, TaskStep
<1> QED
  BY <1>1, <1>2 DEF ListFiles, End

(* One lockfile less is to be read: those that were are reported on unless   *)
(* they are oversized.                                                       *)
LEMMA OneFileLess ==
  ASSUME NEW j \in Locals, NEW k \in Locals, GivenSoFar(j),
         j.pc = "reading", k.pc = "reading", k.head = j.head, k.listed = j.listed,
         NEW f \in j.todo, f \in heads[j.head].tree,
         k.todo = j.todo \ {f},
         k.done = IF f \in heads[j.head].big THEN j.done ELSE j.done \cup {f}
  PROVE  GivenSoFar(k)
<1>1. PICK F \in Taken(heads[j.listed].changed) :
        /\ j.todo \subseteq F /\ F \ j.todo \subseteq heads[j.head].tree
        /\ j.done = (F \ j.todo) \ heads[j.head].big
  BY DEF GivenSoFar
<1>2. F \ k.todo = (F \ j.todo) \cup {f}
  BY <1>1
<1>3. k.todo \subseteq F /\ F \ k.todo \subseteq heads[k.head].tree
  BY <1>1, <1>2
<1>4. k.done = (F \ k.todo) \ heads[k.head].big
  BY <1>1, <1>2
<1> QED
  BY <1>1, <1>3, <1>4 DEF GivenSoFar

(* A lockfile is read in the head of the delivery, or is oversized.          *)
LEMMA ReadStep ==
  ASSUME IInv, NEW t \in Tasks, NEW f \in Lockfiles, ReadFile(t, f) \/ SkipFile(t, f)
  PROVE  IInv'
<1>1. /\ task[t] \in Locals /\ TaskInv(task[t]) /\ task[t].pc = "reading"
      /\ f \in task[t].todo /\ UNCHANGED <<heads, comments>>
  BY DEF ReadFile, SkipFile, Reading, IInv, TypeOK
<1>2. heads[task[t].head].big \subseteq heads[task[t].head].tree
  <2>1. heads[task[t].head] \in Heads
    BY <1>1 DEF TaskInv, InPlace, Active, IInv, TypeOK
  <2> QED
    BY <2>1, HeadsAreTyped
<1>3. CASE ReadFile(t, f)
  <2> DEFINE k == [task[t] EXCEPT !.todo = @ \ {f}, !.done = @ \cup {f}]
  <2>1. k \in Locals
    BY <1>1 DEF Locals
  <2>2. /\ k.pc = "reading" /\ k.head = task[t].head /\ k.mine = task[t].mine
        /\ k.todo = task[t].todo \ {f} /\ k.done = task[t].done \cup {f}
        /\ k.asked = task[t].asked /\ k.listed = task[t].listed
    BY <1>1 DEF Locals
  <2>3. task' = [task EXCEPT ![t] = k]
    BY <1>1, <1>3 DEF ReadFile, IInv, TypeOK
  <2> HIDE DEF k
  <2>4. f \in heads[task[t].head].tree /\ f \notin heads[task[t].head].big
    BY <1>3 DEF ReadFile
  <2>5. GivenSoFar(k)
    BY <1>1, <2>1, <2>2, <2>4, OneFileLess DEF TaskInv
  <2>6. TaskInv(k)
    BY <1>1, <2>2, <2>5 DEF TaskInv, InPlace, ReadsSoFar, ListedSoFar, Active
  <2> QED
    BY <1>1, <2>1, <2>3, <2>6, TaskStep
<1>4. CASE SkipFile(t, f)
  <2> DEFINE k == [task[t] EXCEPT !.todo = @ \ {f}, !.asked = @ \ {f}]
  <2>1. k \in Locals
    BY <1>1 DEF Locals
  <2>2. /\ k.pc = "reading" /\ k.head = task[t].head /\ k.mine = task[t].mine
        /\ k.todo = task[t].todo \ {f} /\ k.done = task[t].done
        /\ k.asked = task[t].asked \ {f} /\ k.listed = task[t].listed
    BY <1>1 DEF Locals
  <2>3. task' = [task EXCEPT ![t] = k]
    BY <1>1, <1>4 DEF SkipFile, IInv, TypeOK
  <2> HIDE DEF k
  <2>4. f \in heads[task[t].head].tree /\ f \in heads[task[t].head].big
    BY <1>2, <1>4 DEF SkipFile
  <2>5. GivenSoFar(k)
    BY <1>1, <2>1, <2>2, <2>4, OneFileLess DEF TaskInv
  <2>6. TaskInv(k)
    BY <1>1, <2>2, <2>5 DEF TaskInv, InPlace, ReadsSoFar, ListedSoFar, Active
  <2> QED
    BY <1>1, <2>1, <2>3, <2>6, TaskStep
<1> QED
  BY <1>3, <1>4

(* What listing the files, or reading one of them, makes of the locals.      *)
LEMMA ReadingLocals ==
  ASSUME task \in [Tasks -> Locals], NEW t \in Tasks,
         \/ ListFiles(t)
         \/ \E f \in Lockfiles : ReadFile(t, f) \/ SkipFile(t, f)
  PROVE  \E k : /\ task' = [task EXCEPT ![t] = k]
                /\ k = Gone \/ (k.pc = "reading" /\ k.head = task[t].head)
<1>1. task[t] \in Locals
  OBVIOUS
<1>2. CASE ListFiles(t)
  <2>1. ASSUME NEW F, task' = [task EXCEPT ![t].pc = "reading", ![t].todo = F,
                                           ![t].asked = F, ![t].listed = Len(heads)]
        PROVE  \E k : /\ task' = [task EXCEPT ![t] = k]
                      /\ k.pc = "reading" /\ k.head = task[t].head
    <3> DEFINE k == [task[t] EXCEPT !.pc = "reading", !.todo = F, !.asked = F,
                                    !.listed = Len(heads)]
    <3>1. /\ task' = [task EXCEPT ![t] = k]
          /\ k.pc = "reading" /\ k.head = task[t].head
      BY <1>1, <2>1 DEF Locals
    <3> HIDE DEF k
    <3> QED
      BY <3>1
  <2>2. \/ task' = [task EXCEPT ![t] = Gone]
        \/ \E F : task' = [task EXCEPT ![t].pc = "reading", ![t].todo = F,
                                       ![t].asked = F, ![t].listed = Len(heads)]
    BY <1>2 DEF ListFiles, End
  <2> QED
    BY <2>1, <2>2
<1>3. ASSUME NEW f \in Lockfiles, ReadFile(t, f)
      PROVE  \E k : /\ task' = [task EXCEPT ![t] = k]
                    /\ k.pc = "reading" /\ k.head = task[t].head
  <2> DEFINE k == [task[t] EXCEPT !.todo = @ \ {f}, !.done = @ \cup {f}]
  <2>1. task' = [task EXCEPT ![t] = k]
    BY <1>1, <1>3 DEF ReadFile
  <2>2. k.pc = "reading" /\ k.head = task[t].head
    BY <1>1, <1>3 DEF ReadFile, Reading, Locals
  <2> HIDE DEF k
  <2> QED
    BY <2>1, <2>2
<1>4. ASSUME NEW f \in Lockfiles, SkipFile(t, f)
      PROVE  \E k : /\ task' = [task EXCEPT ![t] = k]
                    /\ k.pc = "reading" /\ k.head = task[t].head
  <2> DEFINE k == [task[t] EXCEPT !.todo = @ \ {f}, !.asked = @ \ {f}]
  <2>1. task' = [task EXCEPT ![t] = k]
    BY <1>1, <1>4 DEF SkipFile
  <2>2. k.pc = "reading" /\ k.head = task[t].head
    BY <1>1, <1>4 DEF SkipFile, Reading, Locals
  <2> HIDE DEF k
  <2> QED
    BY <2>1, <2>2
<1> QED
  BY <1>2, <1>3, <1>4

(* Of some naturals one is the least.                                        *)
LEMMA LeastExists ==
  ASSUME NEW S \in SUBSET Nat, S # {}
  PROVE  First(S) \in S /\ \A i \in S : First(S) <= i
<1>1. PICK i \in S : \A j \in S : <<j, i>> \notin OpToRel(<, Nat)
  BY NatLessThanWellFounded, WFMin
<1>2. \A j \in S : i <= j
  <2> SUFFICES ASSUME NEW j \in S PROVE ~(j < i)
    OBVIOUS
  <2> QED
    BY <1>1 DEF OpToRel
<1> QED
  BY <1>2 DEF First

(* The comment to update is the first the app has made.                      *)
LEMMA ListStep ==
  ASSUME IInv, NEW t \in Tasks, ListComments(t)
  PROVE  IInv'
<1> DEFINE m == IF OwnComments = {} THEN 0 ELSE First(OwnComments)
           k == [task[t] EXCEPT !.pc = "writing", !.saw = Len(comments), !.mine = m]
<1>1. /\ task[t] \in Locals /\ TaskInv(task[t]) /\ task[t].pc = "reading"
      /\ task[t].todo = {} /\ task[t].done # {}
      /\ UNCHANGED <<heads, comments>>
  BY DEF ListComments, ListWith, IInv, TypeOK
<1>2. comments \in Seq(Marked \cup {Person})
  BY DEF IInv, TypeOK
<1>3. OwnComments \in SUBSET Nat /\ 0 \notin OwnComments
  BY <1>2 DEF OwnComments
<1>4. /\ m \in Nat /\ (m # 0 => m \in OwnComments)
      /\ m = 0 => OwnComments = {}
      /\ \A i \in OwnComments : m <= i
  BY <1>3, LeastExists
<1> HIDE DEF m
<1>5. k \in Locals
  <2>1. m \in Nat /\ Len(comments) \in Nat
    BY <1>2, <1>4
  <2> HIDE DEF k
  <2>2. k = [task[t] EXCEPT !.pc = "writing", !.saw = Len(comments), !.mine = m]
    BY DEF k
  <2> QED
    BY <1>1, <2>1, <2>2 DEF Locals, Active
<1>6. /\ k.pc = "writing" /\ k.head = task[t].head /\ k.mine = m
      /\ k.done = task[t].done /\ k.asked = task[t].asked /\ k.saw = Len(comments)
      /\ k.todo = task[t].todo /\ k.listed = task[t].listed
  BY <1>1 DEF Locals
<1>7. TaskInv(k)
  <2>1. InPlace(k)
    BY <1>1, <1>4, <1>6 DEF TaskInv, InPlace, OwnComments, Active
  <2>2. ReadsSoFar(k)
    BY <1>1, <1>6 DEF TaskInv, ReadsSoFar, Active
  <2>3. GivenSoFar(k)
    BY <1>1, <1>6 DEF TaskInv, GivenSoFar
  <2>4. ListedSoFar(k)
    BY <1>2, <1>4, <1>6 DEF ListedSoFar
  <2> QED
    BY <2>1, <2>2, <2>3, <2>4 DEF TaskInv
<1>8. task' = [task EXCEPT ![t] = k]
  BY <1>1 DEF ListComments, ListWith, m, IInv, TypeOK
<1> QED
  BY <1>1, <1>5, <1>7, <1>8, TaskStep

(* Older heads stay as they were pushed.                                     *)
LEMMA PushStep ==
  ASSUME IInv, Push
  PROVE  IInv'
<1>1. PICK H \in Heads : heads' = Append(heads, H)
  BY DEF Push
<1>2. /\ heads \in Seq(Heads) /\ Len(heads) < MaxPushes
      /\ UNCHANGED <<comments, task>>
  BY DEF Push, IInv, TypeOK
<1>3. /\ heads' \in Seq(Heads) /\ Len(heads') <= MaxPushes
      /\ \A h \in DOMAIN heads : h \in DOMAIN heads' /\ heads'[h] = heads[h]
  BY <1>1, <1>2, LimitsAssumption
<1>4. ASSUME NEW t \in Tasks PROVE TaskInv(task[t])'
  <2>1. TaskInv(task[t])
    BY DEF IInv
  <2>2. InPlace(task[t])' /\ ReadsSoFar(task[t])' /\ ListedSoFar(task[t])'
    BY <1>2, <1>3, <2>1 DEF TaskInv, InPlace, ReadsSoFar, ListedSoFar, OwnComments, IsMarked
  <2>3. task[t].pc \in Active => heads'[task[t].head] = heads[task[t].head]
    BY <1>3, <2>1 DEF TaskInv, InPlace
  <2>4. GivenSoFar(task[t])'
    BY <1>2, <1>3, <2>1, <2>3 DEF TaskInv, GivenSoFar, Active
  <2> QED
    BY <2>2, <2>4 DEF TaskInv
<1>5. TypeOK'
  BY <1>2, <1>3, <1>4 DEF IInv, TypeOK, TaskInv
<1>6. CommentsSoFar'
  BY <1>2, <1>3
  DEF IInv, CommentsSoFar, DuplicatesOnlyFromRaces, ReportsAreWhole,
      ReportsJoinTwoHeads, IsMarked
<1> QED
  BY <1>4, <1>5, <1>6 DEF IInv

(* Comments of others move none of the app's.                                *)
LEMMA PersonStep ==
  ASSUME IInv, PersonComments
  PROVE  IInv'
<1>1. /\ comments' = Append(comments, Person) /\ UNCHANGED <<heads, task>>
      /\ comments \in Seq(Marked \cup {Person})
  BY DEF PersonComments, IInv, TypeOK
<1>2. /\ comments' \in Seq(Marked \cup {Person})
      /\ Len(comments') = Len(comments) + 1
      /\ \A i \in DOMAIN comments : i \in DOMAIN comments' /\ comments'[i] = comments[i]
      /\ \A i \in DOMAIN comments' : i \notin DOMAIN comments => comments'[i] = Person
  BY <1>1
<1>3. \A i \in DOMAIN comments' : IsMarked(comments'[i]) => i \in DOMAIN comments
  BY <1>2 DEF IsMarked
<1>4. OwnComments' = OwnComments
  BY <1>2, <1>3 DEF OwnComments, IsMarked
<1>5. ASSUME NEW t \in Tasks PROVE TaskInv(task[t])'
  <2>1. TaskInv(task[t]) /\ task[t] \in Locals
    BY DEF IInv, TypeOK
  <2>2. InPlace(task[t])' /\ ReadsSoFar(task[t])' /\ GivenSoFar(task[t])'
    BY <1>1, <1>2, <2>1 DEF TaskInv, InPlace, ReadsSoFar, GivenSoFar, IsMarked
  <2>3. Len(comments) \in Nat /\ task[t].saw \in Nat
    BY <1>1, <2>1 DEF Locals
  <2>4. ListedSoFar(task[t])'
    BY <1>1, <1>2, <1>4, <2>1, <2>3 DEF TaskInv, ListedSoFar
  <2> QED
    BY <2>2, <2>4 DEF TaskInv
<1>6. TypeOK'
  BY <1>1, <1>2, <1>5 DEF IInv, TypeOK, TaskInv
<1>7. CommentsSoFar'
  <2>1. \A i \in DOMAIN comments' : IsMarked(comments'[i]) =>
          i \in DOMAIN comments /\ comments'[i] = comments[i] /\ IsMarked(comments[i])
    BY <1>2, <1>3
  <2>2. DuplicatesOnlyFromRaces'
    BY <2>1 DEF IInv, CommentsSoFar, DuplicatesOnlyFromRaces
  <2>3. ReportsAreWhole'
    BY <2>1 DEF IInv, CommentsSoFar, ReportsAreWhole
  <2>4. ReportsJoinTwoHeads'
    <3>1. ReportsJoinTwoHeads /\ heads' = heads
      BY <1>1 DEF IInv, CommentsSoFar
    <3> QED
      BY <2>1, <3>1 DEF ReportsJoinTwoHeads
  <2> QED
    BY <1>1, <2>1, <2>2, <2>3, <2>4 DEF IInv, CommentsSoFar
<1> QED
  BY <1>5, <1>6, <1>7 DEF IInv

(* A restart ends tasks.                                                     *)
LEMMA RestartStep ==
  ASSUME IInv, Restart
  PROVE  IInv'
<1>1. /\ \A t \in Tasks : task'[t] = Gone \/ task'[t] = task[t]
      /\ task' \in [Tasks -> Locals] /\ UNCHANGED <<heads, comments>>
  BY GoneIsTyped DEF Restart, IInv, TypeOK
<1>2. ASSUME NEW t \in Tasks PROVE TaskInv(task[t])'
  <2>1. TaskInv(task'[t])
    BY <1>1, GoneIsRight DEF IInv
  <2>2. OwnComments' = OwnComments
    BY <1>1 DEF OwnComments, IsMarked
  <2> QED
    BY <1>1, <2>1, <2>2 DEF TaskInv, InPlace, ReadsSoFar, GivenSoFar, ListedSoFar, IsMarked
<1>3. TypeOK'
  BY <1>1, <1>2 DEF IInv, TypeOK, TaskInv
<1>4. CommentsSoFar'
  BY <1>1 DEF IInv, CommentsSoFar, DuplicatesOnlyFromRaces, ReportsAreWhole,
              ReportsJoinTwoHeads, IsMarked
<1> QED
  BY <1>2, <1>3, <1>4 DEF IInv

(* What a task posts or updates.                                             *)
Body(t) ==
  [head |-> task[t].head, listed |-> task[t].listed,
   covers |-> task[t].done, asked |-> task[t].asked,
   after |-> IF task[t].mine = 0 THEN task[t].saw ELSE comments[task[t].mine].after]
Place(t) == IF task[t].mine = 0 THEN Len(comments) + 1 ELSE task[t].mine

(* What changes when a comment is posted or updated.                         *)
LEMMA Written ==
  ASSUME IInv, NEW t \in Tasks, Write(t)
  PROVE  /\ Body(t) \in Marked /\ comments' \in Seq(Marked \cup {Person})
         /\ Place(t) \in DOMAIN comments' /\ comments'[Place(t)] = Body(t)
         /\ \A i \in DOMAIN comments' :
              i # Place(t) => i \in DOMAIN comments /\ comments'[i] = comments[i]
         /\ \A i \in DOMAIN comments :
              i \in DOMAIN comments' /\ (IsMarked(comments'[i]) <=> IsMarked(comments[i]))
         /\ Len(comments) <= Len(comments')
         /\ \A i \in DOMAIN comments : i \in Nat /\ i <= Len(comments)
         /\ Len(comments) \in Nat
<1>1. /\ task[t] \in Locals /\ TaskInv(task[t]) /\ task[t].pc = "writing"
      /\ comments \in Seq(Marked \cup {Person}) /\ heads \in Seq(Heads)
      /\ Len(heads) <= MaxPushes
  BY DEF Write, IInv, TypeOK
<1>2. task[t].mine # 0 =>
        /\ task[t].mine \in DOMAIN comments
        /\ comments[task[t].mine] \in Marked /\ IsMarked(comments[task[t].mine])
  BY <1>1 DEF TaskInv, InPlace, IsMarked
<1>3. Body(t) \in Marked
  <2>1. task[t].head \in 1 .. MaxPushes /\ task[t].listed \in 1 .. MaxPushes
    BY <1>1, LimitsAssumption DEF TaskInv, InPlace, GivenSoFar, Active
  <2>2. /\ task[t].done \in SUBSET Lockfiles /\ task[t].asked \in SUBSET Lockfiles
        /\ task[t].saw \in Nat
    BY <1>1 DEF Locals
  <2>3. task[t].mine # 0 => comments[task[t].mine].after \in Nat
    BY <1>2 DEF Marked
  <2> QED
    BY <2>1, <2>2, <2>3 DEF Body, Marked
<1>4. IsMarked(Body(t))
  BY <1>3, PersonIsNotMarked
<1>5. CASE task[t].mine = 0
  <2>1. comments' = Append(comments, Body(t)) /\ Place(t) = Len(comments) + 1
    BY <1>5 DEF Write, Body, Place
  <2>2. /\ \A i \in DOMAIN comments : i \in DOMAIN comments' /\ comments'[i] = comments[i]
        /\ \A i \in DOMAIN comments' : i # Place(t) => i \in DOMAIN comments
        /\ Place(t) \in DOMAIN comments' /\ comments'[Place(t)] = Body(t)
        /\ Len(comments') = Len(comments) + 1
        /\ comments' \in Seq(Marked \cup {Person})
    BY <1>1, <1>3, <2>1
  <2> QED
    BY <1>1, <1>3, <2>2
<1>6. CASE task[t].mine # 0
  <2>1. comments' = [comments EXCEPT ![Place(t)] = Body(t)] /\ Place(t) = task[t].mine
    BY <1>6 DEF Write, Body, Place
  <2>2. /\ DOMAIN comments' = DOMAIN comments /\ Len(comments') = Len(comments)
        /\ \A i \in DOMAIN comments' : i # Place(t) => comments'[i] = comments[i]
        /\ Place(t) \in DOMAIN comments /\ comments'[Place(t)] = Body(t)
        /\ comments' \in Seq(Marked \cup {Person})
    BY <1>1, <1>2, <1>3, <1>6, <2>1
  <2> QED
    BY <1>1, <1>2, <1>3, <1>4, <1>6, <2>1, <2>2
<1> QED
  BY <1>5, <1>6

(* A comment that is posted or updated is about a whole head, and follows    *)
(* the comments its task could see.                                          *)
LEMMA WriteStep ==
  ASSUME IInv, NEW t \in Tasks, Write(t)
  PROVE  IInv'
<1> DEFINE p == Place(t)
           body == Body(t)
           m == task[t].mine
<1>1. /\ body \in Marked /\ comments' \in Seq(Marked \cup {Person})
      /\ p \in DOMAIN comments' /\ comments'[p] = body /\ IsMarked(body)
      /\ Len(comments) \in Nat /\ Len(comments) <= Len(comments')
      /\ \A i \in DOMAIN comments : i \in Nat /\ i <= Len(comments)
  BY Written, PersonIsNotMarked
<1>2. /\ \A i \in DOMAIN comments' :
           i # p => i \in DOMAIN comments /\ comments'[i] = comments[i]
      /\ \A i \in DOMAIN comments :
           i \in DOMAIN comments' /\ (IsMarked(comments'[i]) <=> IsMarked(comments[i]))
  BY Written
<1>3. /\ task[t] \in Locals /\ TaskInv(task[t]) /\ task[t].pc = "writing"
      /\ task' = [task EXCEPT ![t] = Gone] /\ heads' = heads
      /\ TypeOK /\ CommentsSoFar
  BY DEF Write, End, IInv, TypeOK
<1>4. /\ body.head = task[t].head /\ body.covers = task[t].done
      /\ body.asked = task[t].asked /\ body.listed = task[t].listed
      /\ body.after = IF m = 0 THEN task[t].saw ELSE comments[m].after
  BY DEF Body
<1>5. /\ m = 0 => p = Len(comments) + 1
      /\ m # 0 => p = m /\ m \in DOMAIN comments /\ IsMarked(comments[m])
  BY <1>3 DEF Place, TaskInv, InPlace
<1> HIDE DEF p, body, m
<1>6. ASSUME NEW u \in Tasks PROVE TaskInv(task[u])'
  <2>1. CASE u = t
    <3>1. task'[u] = Gone
      BY <1>3, <2>1 DEF TypeOK
    <3> QED
      BY <3>1 DEF TaskInv, InPlace, ReadsSoFar, GivenSoFar, ListedSoFar, Gone, Blank, Active
  <2>2. CASE u # t
    <3>1. task'[u] = task[u] /\ TaskInv(task[u]) /\ task[u] \in Locals
      BY <1>3, <2>2 DEF IInv, TypeOK
    <3>2. InPlace(task[u])' /\ ReadsSoFar(task[u])' /\ GivenSoFar(task[u])'
      BY <1>2, <1>3, <3>1 DEF TaskInv, InPlace, ReadsSoFar, GivenSoFar
    <3>3. ASSUME task[u].pc = "writing", NEW i \in OwnComments'
          PROVE  IF task[u].mine = 0 THEN task[u].saw < i ELSE task[u].mine <= i
      <4>1. CASE i \in DOMAIN comments
        <5>1. i \in OwnComments
          BY <1>2, <3>3, <4>1 DEF OwnComments
        <5> QED
          BY <3>1, <3>3, <5>1 DEF TaskInv, ListedSoFar
      <4>2. CASE i \notin DOMAIN comments
        <5>1. i = Len(comments) + 1
          BY <1>2, <1>5, <3>3, <4>2 DEF OwnComments
        <5>2. task[u].saw \in Nat /\ task[u].saw <= Len(comments)
          BY <3>1, <3>3 DEF TaskInv, ListedSoFar, Locals
        <5>3. task[u].mine # 0 => task[u].mine \in Nat /\ task[u].mine <= Len(comments)
          BY <1>1, <3>1 DEF TaskInv, InPlace
        <5> QED
          BY <1>1, <5>1, <5>2, <5>3
      <4> QED
        BY <4>1, <4>2
    <3>4. task[u].pc = "writing" => task[u].saw <= Len(comments')
      <4>1. task[u].saw \in Nat /\ Len(comments') \in Nat
        BY <1>1, <3>1 DEF Locals
      <4> QED
        BY <1>1, <3>1, <4>1 DEF TaskInv, ListedSoFar
    <3>5. ListedSoFar(task[u])'
      BY <3>1, <3>3, <3>4 DEF ListedSoFar
    <3> QED
      BY <3>2, <3>5 DEF TaskInv
  <2> QED
    BY <2>1, <2>2
<1>7. TypeOK'
  BY <1>1, <1>3, <1>6, GoneIsTyped DEF TypeOK, TaskInv
<1>8. ASSUME NEW i \in DOMAIN comments', IsMarked(comments'[i])
      PROVE  /\ comments'[i].covers = comments'[i].asked /\ comments'[i].covers # {}
             /\ comments'[i].head \in DOMAIN heads /\ comments'[i].listed \in DOMAIN heads
             /\ comments'[i].head <= comments'[i].listed
             /\ \E F \in Taken(heads[comments'[i].listed].changed) :
                  /\ F \subseteq heads[comments'[i].head].tree
                  /\ comments'[i].covers = F \ heads[comments'[i].head].big
  <2>1. CASE i = p
    <3>1. /\ comments'[i].head = task[t].head /\ comments'[i].listed = task[t].listed
          /\ comments'[i].covers = task[t].done /\ comments'[i].asked = task[t].asked
      BY <1>1, <1>4, <2>1
    <3>2. /\ task[t].done = task[t].asked /\ task[t].done # {} /\ task[t].todo = {}
          /\ task[t].head \in DOMAIN heads
      BY <1>3 DEF TaskInv, ReadsSoFar, InPlace, Active
    <3>3. PICK F \in Taken(heads[task[t].listed].changed) :
            /\ F \ task[t].todo \subseteq heads[task[t].head].tree
            /\ task[t].done = (F \ task[t].todo) \ heads[task[t].head].big
      BY <1>3 DEF TaskInv, GivenSoFar
    <3>4. F \ task[t].todo = F
      BY <3>2
    <3>5. task[t].listed \in DOMAIN heads /\ task[t].head <= task[t].listed
      BY <1>3 DEF TaskInv, GivenSoFar
    <3> QED
      BY <3>1, <3>2, <3>3, <3>4, <3>5
  <2>2. CASE i # p
    BY <1>2, <1>3, <1>8, <2>2
    DEF CommentsSoFar, ReportsAreWhole, ReportsJoinTwoHeads
  <2> QED
    BY <2>1, <2>2
<1>9. DuplicatesOnlyFromRaces'
  <2> SUFFICES ASSUME NEW i \in DOMAIN comments', NEW j \in DOMAIN comments',
                      i < j, i <= MaxListed,
                      IsMarked(comments'[i]), IsMarked(comments'[j])
               PROVE  comments'[j].after < i
    BY DEF DuplicatesOnlyFromRaces
  <2>1. \A a, b \in DOMAIN comments :
          a < b /\ a <= MaxListed /\ IsMarked(comments[a]) /\ IsMarked(comments[b]) =>
            comments[b].after < a
    BY <1>3 DEF CommentsSoFar, DuplicatesOnlyFromRaces
  <2>2. i \in DOMAIN comments
    <3>1. i \in Nat /\ j \in Nat /\ j <= Len(comments')
      BY <1>1
    <3>2. CASE i = p
      BY <1>1, <1>2, <1>5, <3>1, <3>2
    <3> QED
      BY <1>2, <3>2
  <2>3. IsMarked(comments[i])
    BY <1>2, <2>2
  <2>4. CASE j # p
    BY <1>2, <2>1, <2>2, <2>3, <2>4
  <2>5. CASE j = p /\ m # 0
    BY <1>1, <1>4, <1>5, <2>1, <2>2, <2>3, <2>5
  <2>6. CASE j = p /\ m = 0
    <3>1. i \in OwnComments
      BY <2>2, <2>3 DEF OwnComments
    <3> QED
      BY <1>1, <1>3, <1>4, <2>6, <3>1 DEF TaskInv, ListedSoFar, m
  <2> QED
    BY <2>4, <2>5, <2>6
<1>10. CommentsSoFar'
  BY <1>3, <1>8, <1>9 DEF CommentsSoFar, ReportsAreWhole, ReportsJoinTwoHeads
<1> QED
  BY <1>6, <1>7, <1>10 DEF IInv

(* Every step keeps the invariant.                                           *)
LEMMA IInvStep == IInv /\ [Next]_vars => IInv'
<1> SUFFICES ASSUME IInv, [Next]_vars PROVE IInv'
  OBVIOUS
<1>1. CASE UNCHANGED vars
  <2>1. heads' = heads /\ comments' = comments /\ task' = task
    BY <1>1 DEF vars
  <2> QED
    BY <2>1 DEF IInv, TypeOK, CommentsSoFar, DuplicatesOnlyFromRaces, ReportsAreWhole,
                ReportsJoinTwoHeads, TaskInv, InPlace, ReadsSoFar, GivenSoFar, ListedSoFar,
                OwnComments, IsMarked
<1>2. CASE Push
  BY <1>2, PushStep
<1>3. CASE PersonComments
  BY <1>3, PersonStep
<1>4. CASE Restart
  BY <1>4, RestartStep
<1>5. ASSUME NEW t \in Tasks, Deliver(t) PROVE IInv'
  BY <1>5, DeliverStep
<1>6. ASSUME NEW t \in Tasks, ListFiles(t) PROVE IInv'
  BY <1>6, ListFilesStep
<1>7. ASSUME NEW t \in Tasks, NothingToReport(t) \/ Fail(t) PROVE IInv'
  BY <1>7, EndStep
<1>8. ASSUME NEW t \in Tasks, ListComments(t) PROVE IInv'
  BY <1>8, ListStep
<1>9. ASSUME NEW t \in Tasks, Write(t) PROVE IInv'
  BY <1>9, WriteStep
<1>10. ASSUME NEW t \in Tasks, NEW f \in Lockfiles, ReadFile(t, f) \/ SkipFile(t, f)
       PROVE  IInv'
  BY <1>10, ReadStep
<1> QED
  BY <1>1, <1>2, <1>3, <1>4, <1>5, <1>6, <1>7, <1>8, <1>9, <1>10 DEF Next, Over

(* Of two of the app's comments the second is never the one a task writes.   *)
LEMMA OnlyTheFirstIsWritten ==
  ASSUME IInv, [Next]_vars,
         NEW i \in DOMAIN comments, NEW j \in DOMAIN comments, i < j, i <= MaxListed,
         IsMarked(comments[i]), IsMarked(comments[j])
  PROVE  comments'[j] = comments[j]
<1>1. ASSUME NEW t \in Tasks, Write(t) PROVE comments'[j] = comments[j]
  <2>1. i \in OwnComments
    BY DEF OwnComments
  <2>2. task[t].mine # 0 => task[t].mine <= i
    BY <1>1, <2>1 DEF IInv, TaskInv, ListedSoFar, Write
  <2>3. comments \in Seq(Marked \cup {Person})
    BY DEF IInv, TypeOK
  <2>4. i \in Nat /\ j \in Nat /\ j <= Len(comments) /\ Len(comments) \in Nat
    BY <2>3
  <2>5. task[t].mine \in Nat
    BY DEF IInv, TypeOK, Locals
  <2>6. Place(t) # j
    BY <2>2, <2>4, <2>5 DEF Place
  <2>7. j \in DOMAIN comments'
    BY <1>1, Written
  <2> QED
    BY <1>1, <2>6, <2>7, Written
<1>2. CASE PersonComments
  BY <1>2 DEF PersonComments, IInv, TypeOK
<1>3. ASSUME comments' = comments PROVE comments'[j] = comments[j]
  BY <1>3
<1> QED
  BY <1>1, <1>2, <1>3
  DEF Next, vars, Push, Restart, Over, Deliver, ListFiles, NothingToReport, Fail,
      ListComments, ListWith, ReadFile, SkipFile

(* What a task knows and what the comments say hold always.        *)
THEOREM IInvHolds == Spec => []IInv
<1> QED
  BY IInvInit, IInvStep, PTL DEF Spec

(* Every variable keeps its type, and a task only ever points at a comment   *)
(* that the app has made.                                                    *)
THEOREM TypeCorrect == Spec => []TypeOK
<1>1. IInv => TypeOK
  BY DEF IInv
<1> QED
  BY <1>1, IInvHolds, PTL

(* A second comment is the work of a task that listed the comments before    *)
(* the first was there (upsert_comment looks, then creates).                 *)
THEOREM DuplicatesComeFromRaces == Spec => []DuplicatesOnlyFromRaces
<1>1. IInv => DuplicatesOnlyFromRaces
  BY DEF IInv, CommentsSoFar
<1> QED
  BY <1>1, IInvHolds, PTL

(* Once there are two comments of the app, the later is never updated.       *)
THEOREM LaterCommentsAreNotWritten == Spec => DuplicatesAreFrozen
<1>1. IInv /\ [Next]_vars =>
        [\A i, j \in DOMAIN comments :
           i < j /\ i <= MaxListed /\ IsMarked(comments[i]) /\ IsMarked(comments[j])
           => comments'[j] = comments[j]]_vars
  BY OnlyTheFirstIsWritten
<1> QED
  BY <1>1, IInvHolds, PTL DEF Spec, DuplicatesAreFrozen

(* A comment reports on all that its task was given: a lockfile that fails   *)
(* takes the whole task with it.                                             *)
THEOREM NothingIsLeftOut == Spec => []ReportsAreWhole
<1>1. IInv => ReportsAreWhole
  BY DEF IInv, CommentsSoFar
<1> QED
  BY <1>1, IInvHolds, PTL

(* A comment reports on all lockfiles that were listed, as they are at the   *)
(* head of its delivery, except those that are oversized there.              *)
THEOREM ReportsAreOfListedFiles == Spec => []ReportsJoinTwoHeads
<1>1. IInv => ReportsJoinTwoHeads
  BY DEF IInv, CommentsSoFar
<1> QED
  BY <1>1, IInvHolds, PTL

----------------------------------------------------------------------------
(* When deliveries are in order.                                             *)

(* "Scan the PR's changed lockfiles" (webhook.py:136), for a comment whose   *)
(* task listed them before the next push: it covers nothing else, and if     *)
(* they are no more than the cap every one that is not oversized.            *)
PromptReportsAreExact ==
  \A i \in DOMAIN comments :
    IsMarked(comments[i]) /\ comments[i].listed = comments[i].head =>
      LET c == comments[i]
          h == heads[c.head]
      IN /\ c.covers \subseteq h.changed \ h.big
         /\ Cardinality(h.changed) <= MaxLockfiles => c.covers = h.changed \ h.big

(* A prompt delivery's report is exact.                                      *)
THEOREM ExactIfPrompt == Spec => []PromptReportsAreExact
<1>1. ReportsJoinTwoHeads => PromptReportsAreExact
  <2> SUFFICES ASSUME ReportsJoinTwoHeads, NEW i \in DOMAIN comments,
                      IsMarked(comments[i]), comments[i].listed = comments[i].head
               PROVE  LET c == comments[i]
                          h == heads[c.head]
                      IN /\ c.covers \subseteq h.changed \ h.big
                         /\ Cardinality(h.changed) <= MaxLockfiles =>
                              c.covers = h.changed \ h.big
    BY DEF PromptReportsAreExact
  <2> DEFINE c == comments[i]
             h == heads[c.head]
  <2>1. PICK F \in Taken(h.changed) : c.covers = F \ h.big
    BY DEF ReportsJoinTwoHeads
  <2>2. F \subseteq h.changed
    BY TakenAreSome
  <2>3. Cardinality(h.changed) <= MaxLockfiles => F = h.changed
    BY DEF Taken
  <2> QED
    BY <2>1, <2>2, <2>3
<1> QED
  BY <1>1, ReportsAreOfListedFiles, PTL

(* A delivery comes before the next push, and one task runs at a time.       *)
PromptDelivery ==
  \A t \in Tasks : task[t].pc = "idle" /\ task'[t].pc = "scheduled" =>
    task'[t].head = Len(heads)
TasksDoNotOverlap ==
  \A t, u \in Tasks : task[t].pc \in Active /\ task[u].pc \in Active => t = u

(* No comment is of a newer head than a task that is under way.              *)
NoneIsNewer ==
  \A t \in Tasks : task[t].pc \in Active =>
    \A i \in DOMAIN comments : IsMarked(comments[i]) => comments[i].head <= task[t].head

(* A comment is not replaced by one of an older head.                        *)
ReportsAdvance ==
  [][\A i \in DOMAIN comments : IsMarked(comments[i]) =>
       i \in DOMAIN comments' /\ comments[i].head <= comments'[i].head]_vars

(* In order, the task under way is of the newest head, and so is its report. *)
LEMMA InOrderStep ==
  ASSUME IInv, NoneIsNewer, TasksDoNotOverlap, [PromptDelivery]_vars, [Next]_vars
  PROVE  /\ NoneIsNewer'
         /\ \A i \in DOMAIN comments : IsMarked(comments[i]) =>
              i \in DOMAIN comments' /\ comments[i].head <= comments'[i].head
<1> DEFINE Kept == \A i \in DOMAIN comments : IsMarked(comments[i]) =>
                     i \in DOMAIN comments' /\ comments[i].head <= comments'[i].head
<1>1. /\ comments \in Seq(Marked \cup {Person}) /\ task \in [Tasks -> Locals]
      /\ heads \in Seq(Heads)
      /\ \A i \in DOMAIN comments : IsMarked(comments[i]) =>
           comments[i].head \in DOMAIN heads /\ comments[i].head \in Nat
  <2>1. \A i \in DOMAIN comments : IsMarked(comments[i]) => comments[i].head \in Nat
    BY LimitsAssumption DEF IInv, TypeOK, Marked, IsMarked
  <2> QED
    BY <2>1 DEF IInv, TypeOK, CommentsSoFar
<1>2. ASSUME \A u \in Tasks : task'[u].pc \in Active =>
               task[u].pc \in Active /\ task'[u].head = task[u].head,
             comments' = comments \/ comments' = Append(comments, Person)
      PROVE  NoneIsNewer' /\ Kept
  <2>1. /\ \A i \in DOMAIN comments : i \in DOMAIN comments' /\ comments'[i] = comments[i]
        /\ \A i \in DOMAIN comments' : i \notin DOMAIN comments => comments'[i] = Person
    BY <1>1, <1>2
  <2>2. NoneIsNewer'
    BY <1>2, <2>1 DEF NoneIsNewer, IsMarked
  <2> QED
    BY <1>1, <2>1, <2>2
<1>3. ASSUME NEW t \in Tasks, Deliver(t) PROVE NoneIsNewer' /\ Kept
  <2>1. PICK h \in DOMAIN heads :
          task' = [task EXCEPT ![t].pc = "scheduled", ![t].head = h]
    BY <1>3 DEF Deliver
  <2>2. /\ task[t].pc = "idle" /\ task'[t].pc = "scheduled" /\ comments' = comments
        /\ \A u \in Tasks \ {t} : task'[u] = task[u]
    BY <1>1, <1>3, <2>1 DEF Deliver, Locals
  <2>3. task'[t].head = Len(heads)
    BY <2>2 DEF PromptDelivery, vars
  <2>4. \A i \in DOMAIN comments : IsMarked(comments[i]) => comments[i].head <= task'[t].head
    BY <1>1, <2>3
  <2>5. NoneIsNewer'
    BY <2>2, <2>4 DEF NoneIsNewer, IsMarked
  <2> QED
    BY <1>1, <2>2, <2>5
<1>4. ASSUME NEW t \in Tasks, Write(t) PROVE NoneIsNewer' /\ Kept
  <2>1. task[t].pc \in Active /\ task' = [task EXCEPT ![t] = Gone]
    BY <1>4 DEF Write, End, Active
  <2>2. \A u \in Tasks : task'[u].pc \notin Active
    BY <1>1, <2>1 DEF TasksDoNotOverlap, Gone, Blank, Active
  <2>3. /\ comments'[Place(t)] = Body(t)
        /\ \A i \in DOMAIN comments : i \in DOMAIN comments'
        /\ \A i \in DOMAIN comments' :
             i # Place(t) => i \in DOMAIN comments /\ comments'[i] = comments[i]
    BY <1>4, Written
  <2>4. Body(t).head = task[t].head
    BY DEF Body
  <2>5. \A i \in DOMAIN comments : IsMarked(comments[i]) => comments[i].head <= task[t].head
    BY <2>1 DEF NoneIsNewer
  <2>6. Kept
    <3> SUFFICES ASSUME NEW i \in DOMAIN comments, IsMarked(comments[i])
                 PROVE  comments[i].head <= comments'[i].head
      BY <2>3
    <3>1. CASE i = Place(t)
      BY <2>3, <2>4, <2>5, <3>1
    <3>2. CASE i # Place(t)
      BY <1>1, <2>3, <3>2
    <3> QED
      BY <3>1, <3>2
  <2> QED
    BY <2>2, <2>6 DEF NoneIsNewer
<1>5. ASSUME NEW t \in Tasks, task' = [task EXCEPT ![t] = Gone], comments' = comments
      PROVE  NoneIsNewer' /\ Kept
  <2>1. Gone.pc \notin Active
    BY DEF Gone, Blank, Active
  <2> QED
    BY <1>1, <1>2, <1>5, <2>1
<1>6. ASSUME NEW t \in Tasks, NEW k, task' = [task EXCEPT ![t] = k], comments' = comments,
             k.head = task[t].head, task[t].pc \in Active
      PROVE  NoneIsNewer' /\ Kept
  <2>1. \A u \in Tasks : task'[u] = IF u = t THEN k ELSE task[u]
    BY <1>1, <1>6
  <2> QED
    BY <1>2, <1>6, <2>1
<1>7. ASSUME NEW t \in Tasks,
             \/ ListFiles(t)
             \/ \E f \in Lockfiles : ReadFile(t, f) \/ SkipFile(t, f)
      PROVE  NoneIsNewer' /\ Kept
  <2>1. task[t].pc \in Active /\ comments' = comments
    BY <1>7 DEF ListFiles, ReadFile, SkipFile, Reading, Active
  <2>2. \E k : /\ task' = [task EXCEPT ![t] = k]
               /\ k = Gone \/ (k.pc = "reading" /\ k.head = task[t].head)
    BY <1>1, <1>7, ReadingLocals
  <2> QED
    BY <1>5, <1>6, <2>1, <2>2
<1>8. ASSUME NEW t \in Tasks, ListComments(t) PROVE NoneIsNewer' /\ Kept
  <2> DEFINE m == IF OwnComments = {} THEN 0 ELSE First(OwnComments)
             k == [task[t] EXCEPT !.pc = "writing", !.saw = Len(comments), !.mine = m]
  <2>1. task' = [task EXCEPT ![t] = k] /\ k.head = task[t].head
    BY <1>1, <1>8 DEF ListComments, ListWith, Locals
  <2>2. task[t].pc \in Active /\ comments' = comments
    BY <1>8 DEF ListComments, ListWith, Active
  <2> HIDE DEF k
  <2> QED
    BY <1>6, <2>1, <2>2
<1>9. ASSUME NEW t \in Tasks, NothingToReport(t) \/ Fail(t) PROVE NoneIsNewer' /\ Kept
  BY <1>5, <1>9 DEF NothingToReport, Fail, End
<1>10. CASE Push \/ PersonComments \/ UNCHANGED vars
  BY <1>2, <1>10 DEF Push, PersonComments, vars
<1>11. CASE Restart
  <2>1. \A u \in Tasks : task'[u] = Gone \/ task'[u] = task[u]
    BY <1>11 DEF Restart
  <2>2. Gone.pc \notin Active
    BY DEF Gone, Blank, Active
  <2>3. comments' = comments
    BY <1>11 DEF Restart
  <2> QED
    BY <1>2, <2>1, <2>2, <2>3
<1> QED
  BY <1>3, <1>4, <1>7, <1>8, <1>9, <1>10, <1>11 DEF Next, Over

(* The report of an older head replaces that of a newer one only if its      *)
(* delivery came after a later push, or its task overlapped another: tasks   *)
(* have no order of their own (webhook.py:209), and given one by their       *)
(* deliveries they never take a comment back.                                *)
THEOREM ReportsAdvanceInOrder ==
  Spec /\ []TasksDoNotOverlap /\ [][PromptDelivery]_vars => ReportsAdvance
<1>1. Init => NoneIsNewer
  BY DEF Init, NoneIsNewer, Blank, Active
<1>2. IInv /\ NoneIsNewer /\ TasksDoNotOverlap /\ [PromptDelivery]_vars /\ [Next]_vars
        => NoneIsNewer'
  BY InOrderStep
<1>3. IInv /\ NoneIsNewer /\ TasksDoNotOverlap /\ [PromptDelivery]_vars /\ [Next]_vars
        => [\A i \in DOMAIN comments : IsMarked(comments[i]) =>
              i \in DOMAIN comments' /\ comments[i].head <= comments'[i].head]_vars
  BY InOrderStep
<1> QED
  BY <1>1, <1>2, <1>3, IInvHolds, PTL DEF Spec, ReportsAdvance

----------------------------------------------------------------------------
(* When there is a single comment.                                           *)

(* One task at a time is between upsert_comment's two calls, and the listing *)
(* reaches every comment.                                                    *)
WritesDoNotOverlap ==
  \A t, u \in Tasks : task[t].pc = "writing" /\ task[u].pc = "writing" => t = u
EveryCommentIsListed == Len(comments) <= MaxListed

(* A task that found no comment of the app is about to write the first.      *)
FoundNone ==
  \A t \in Tasks : task[t].pc = "writing" /\ task[t].mine = 0 =>
    \A i \in DOMAIN comments : ~IsMarked(comments[i])

(* Under these conditions a task that finds none of its comments is right    *)
(* until it writes one, and whoever finds one updates it.                    *)
LEMMA SerialStep ==
  ASSUME IInv, SingleComment, FoundNone, WritesDoNotOverlap, EveryCommentIsListed,
         WritesDoNotOverlap', [Next]_vars
  PROVE  SingleComment' /\ FoundNone'
<1>0. /\ comments \in Seq(Marked \cup {Person}) /\ task \in [Tasks -> Locals]
      /\ \A t \in Tasks : InPlace(task[t])
  BY DEF IInv, TypeOK
<1>1. ASSUME NEW t \in Tasks, ListComments(t) PROVE SingleComment' /\ FoundNone'
  <2>1. /\ comments' = comments /\ task'[t].pc = "writing"
        /\ task'[t].mine = IF OwnComments = {} THEN 0 ELSE First(OwnComments)
        /\ \A u \in Tasks \ {t} : task'[u] = task[u]
    BY <1>0, <1>1 DEF ListComments, ListWith, Locals
  <2>2. OwnComments \in SUBSET (Nat \ {0})
    BY <1>0 DEF OwnComments
  <2>3. task'[t].mine = 0 => OwnComments = {}
    BY <2>1, <2>2, LeastExists
  <2>4. \A i \in DOMAIN comments : i <= MaxListed
    BY <1>0, LimitsAssumption DEF EveryCommentIsListed
  <2>5. SingleComment'
    BY <2>1 DEF SingleComment, IsMarked
  <2>6. FoundNone'
    BY <2>1, <2>3, <2>4 DEF FoundNone, OwnComments, IsMarked
  <2> QED
    BY <2>5, <2>6
<1>2. ASSUME NEW t \in Tasks, Write(t) PROVE SingleComment' /\ FoundNone'
  <2>1. /\ \A i \in DOMAIN comments' :
             i # Place(t) => i \in DOMAIN comments /\ comments'[i] = comments[i]
        /\ \A i \in DOMAIN comments : IsMarked(comments'[i]) <=> IsMarked(comments[i])
    BY <1>2, Written
  <2>2. \A u \in Tasks : task'[u].pc # "writing"
    <3>1. task' = [task EXCEPT ![t] = Gone] /\ task[t].pc = "writing"
      BY <1>2 DEF Write, End
    <3>2. Gone.pc = "over"
      BY DEF Gone, Blank
    <3> QED
      BY <1>0, <3>1, <3>2 DEF WritesDoNotOverlap
  <2>3. FoundNone'
    BY <2>2 DEF FoundNone
  <2>4. task[t].pc = "writing"
    BY <1>2 DEF Write
  <2>5. CASE task[t].mine = 0
    <3>1. \A i \in DOMAIN comments' : i # Place(t) => ~IsMarked(comments'[i])
      BY <2>1, <2>4, <2>5 DEF FoundNone
    <3>2. \A i \in DOMAIN comments' : i \in Nat
      <4>1. comments' \in Seq(Marked \cup {Person})
        BY <1>2, Written
      <4> QED
        BY <4>1
    <3> QED
      BY <2>3, <3>1, <3>2 DEF SingleComment
  <2>6. CASE task[t].mine # 0
    <3>1. Place(t) \in DOMAIN comments
      BY <1>0, <2>6 DEF Place, InPlace
    <3> QED
      BY <2>1, <2>3, <3>1 DEF SingleComment
  <2> QED
    BY <2>5, <2>6
<1>3. ASSUME PersonComments PROVE SingleComment' /\ FoundNone'
  <2>1. comments' = Append(comments, Person) /\ task' = task
    BY <1>3 DEF PersonComments
  <2>2. \A i \in DOMAIN comments' :
          IsMarked(comments'[i]) => i \in DOMAIN comments /\ IsMarked(comments[i])
    BY <1>0, <2>1 DEF IsMarked
  <2> QED
    BY <2>1, <2>2 DEF SingleComment, FoundNone
<1>4. ASSUME comments' = comments,
             \A t \in Tasks : task'[t].pc = "writing" => task'[t] = task[t]
      PROVE  SingleComment' /\ FoundNone'
  BY <1>4 DEF SingleComment, FoundNone, IsMarked
<1>5. ASSUME NEW t \in Tasks, NEW k, task' = [task EXCEPT ![t] = k], k.pc # "writing",
             comments' = comments
      PROVE  SingleComment' /\ FoundNone'
  BY <1>0, <1>4, <1>5
<1>6. ASSUME NEW t \in Tasks,
             \/ Deliver(t) \/ ListFiles(t) \/ NothingToReport(t) \/ Fail(t)
             \/ \E f \in Lockfiles : ReadFile(t, f) \/ SkipFile(t, f)
      PROVE  SingleComment' /\ FoundNone'
  <2>1. task[t] \in Locals
    BY <1>0
  <2>2. \E k : task' = [task EXCEPT ![t] = k] /\ k.pc # "writing"
    <3>1. Gone.pc # "writing"
      BY DEF Gone, Blank
    <3>2. CASE NothingToReport(t) \/ Fail(t)
      BY <3>1, <3>2 DEF NothingToReport, Fail, End
    <3>3. CASE Deliver(t)
      <4>1. PICK h \in DOMAIN heads :
              task' = [task EXCEPT ![t].pc = "scheduled", ![t].head = h]
        BY <3>3 DEF Deliver
      <4> DEFINE k == [task[t] EXCEPT !.pc = "scheduled", !.head = h]
      <4>2. task' = [task EXCEPT ![t] = k]
        BY <1>0, <2>1, <4>1
      <4>3. k.pc # "writing"
        BY <2>1 DEF Locals
      <4> HIDE DEF k
      <4> QED
        BY <4>2, <4>3
    <3>4. CASE \/ ListFiles(t)
               \/ \E f \in Lockfiles : ReadFile(t, f) \/ SkipFile(t, f)
      <4>1. \E k : /\ task' = [task EXCEPT ![t] = k]
                   /\ k = Gone \/ (k.pc = "reading" /\ k.head = task[t].head)
        BY <1>0, <3>4, ReadingLocals
      <4> QED
        BY <3>1, <4>1
    <3> QED
      BY <1>6, <3>2, <3>3, <3>4
  <2>3. comments' = comments
    BY <1>6 DEF Deliver, ListFiles, NothingToReport, Fail, ReadFile, SkipFile
  <2> QED
    BY <1>5, <2>2, <2>3
<1>7. CASE Push \/ Restart \/ UNCHANGED vars
  <2>1. comments' = comments
    BY <1>7 DEF Push, Restart, vars
  <2>2. \A t \in Tasks : task'[t].pc = "writing" => task'[t] = task[t]
    BY <1>0, <1>7 DEF Push, Restart, vars, Gone, Blank
  <2> QED
    BY <1>4, <2>1, <2>2
<1> QED
  BY <1>1, <1>2, <1>3, <1>6, <1>7 DEF Next, Over

(* "Upsert a single report comment" (webhook.py:136) is true of tasks that   *)
(* do not overlap in upsert_comment, while the listing reaches all comments: *)
(* with restarts, failures, late and repeated deliveries, and any number of  *)
(* pushes.  pr_single shows what happens without the first condition.        *)
THEOREM OneCommentIfSerial ==
  Spec /\ []WritesDoNotOverlap /\ []EveryCommentIsListed => []SingleComment
<1>1. Init => SingleComment /\ FoundNone
  BY DEF Init, SingleComment, FoundNone
<1>2. IInv /\ SingleComment /\ FoundNone /\ WritesDoNotOverlap /\ WritesDoNotOverlap'
        /\ EveryCommentIsListed /\ [Next]_vars
        => SingleComment' /\ FoundNone'
  BY SerialStep
<1> QED
  BY <1>1, <1>2, IInvHolds, PTL DEF Spec
=============================================================================
