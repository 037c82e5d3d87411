---------------------- MODULE PodGroupAssignerProofs ----------------------
(***************************************************************************)
(* Proof that the queue of a pod group is always the one of its node pool. *)
(* The live pod group alone does not carry the induction: the assigner     *)
(* patches it with the difference between its own, possibly stale, copy    *)
(* and the copy it wants.  The label and the queue must agree in the live  *)
(* object, in the cache and in the copy, because then a patch changes      *)
(* either both of them or neither.                                         *)
(* The second half is about the unschedulable mark and its back-off: what  *)
(* was tried is kept with the pass, from the first pod group to the mark.  *)
(* The end is about the types: the list of node pools that is remembered   *)
(* is built up by a loop, so its type needs an induction over its length.  *)
(***************************************************************************)
EXTENDS PodGroupAssigner, FiniteSetTheorems, WellFoundedInduction, TLAPS

\* Z3 first, then Zenon; a leaf that cites Zenon starts with it.
USE SMTT(30), ZenonT(30)

Fields == {"label", "queue", "mark", "backoff", "last", "topology", "system"}

\* Not assigned yet, or in a node pool and in its queue.
Agrees(g) ==
    /\ DOMAIN g = Fields
    /\ (g.label = Sentinel /\ g.queue = None) \/ (g.label = g.queue)

\* The inductive invariant.
AssignmentInv ==
    /\ Agrees(pg)
    /\ DOMAIN cache = {"pg", "pods", "pools"}
    /\ Agrees(cache.pg)
    /\ DOMAIN job = {"step", "copy", "next"}
    /\ Agrees(job.copy)
    /\ job.step \in {"clear", "write"} => job.next.pool \in Pools

\* A patch from a copy that agrees to one in a node pool p, applied to a live
\* object that agrees, changes both the label and the queue or neither.
LEMMA PatchAgrees ==
    ASSUME NEW live, NEW from, NEW next, Agrees(live), Agrees(from), next.pool \in Pools
    PROVE  Agrees(MergePatch(live, from, mutatePodGroupObjForAssignment(from, next)))
<1> DEFINE to == mutatePodGroupObjForAssignment(from, next)
           new == MergePatch(live, from, to)
<1>1. to.label = next.pool /\ to.queue = next.pool
  BY DEF Agrees, Fields, mutatePodGroupObjForAssignment
<1> HIDE DEF to
<1>2. /\ DOMAIN new = Fields
      /\ new.label = IF from.label = to.label THEN live.label ELSE to.label
      /\ new.queue = IF from.queue = to.queue THEN live.queue ELSE to.queue
  BY DEF Agrees, Fields, MergePatch
<1>3. next.pool # Sentinel /\ next.pool # None
  BY ConstantsAssumption
<1> HIDE DEF new
<1>4. Agrees(new)
  BY <1>1, <1>2, <1>3 DEF Agrees
<1> QED BY <1>4 DEF new, to

\* A new condition or topology constraint leaves label and queue alone.
LEMMA EditAgrees ==
    ASSUME NEW g, NEW v, Agrees(g)
    PROVE  Agrees([g EXCEPT !.last = v]) /\ Agrees([g EXCEPT !.topology = v])
BY DEF Agrees, Fields

\* A pod group as the mutator leaves it is not assigned.
LEMMA NewAgrees == Agrees(mutatePodGroup(Sentinel)) /\ Agrees(Idle.copy)
BY DEF Agrees, Fields, mutatePodGroup, Idle

\* A choice is a node pool the project has a queue for.
LEMMA ChoiceIsPool ==
    ASSUME NEW g, NEW list, NEW next \in Choices(g, list)
    PROVE  next.pool \in Pools
<1>1. next.pool \in Queued
  BY DEF Choices
<1> QED BY <1>1, ConstantsAssumption

\* An ended reconcile holds nothing that matters.
LEMMA FinishInv ==
    ASSUME NEW err, Finish(err)
    PROVE  /\ DOMAIN job' = {"step", "copy", "next"}
           /\ Agrees(job'.copy)
           /\ job'.step \notin {"clear", "write"}
BY NewAgrees DEF Finish, Idle

\* Label and queue agree everywhere, in every step of the assigner.
LEMMA StepInv == AssignmentInv /\ [Next]_vars => AssignmentInv'
<1> SUFFICES ASSUME AssignmentInv, [Next]_vars PROVE AssignmentInv'
  OBVIOUS
<1> USE DEF AssignmentInv
<1>1. CASE Reconcile
  <2>1. pg' = pg /\ cache' = cache
    BY <1>1 DEF Reconcile, environment
  <2>2. CASE job' = [Idle EXCEPT !.step = "choose", !.copy = cache.pg]
    BY <2>1, <2>2 DEF Idle
  <2>3. CASE job' = job
    BY <2>1, <2>3
  <2> QED BY ZenonT(30), <1>1, <2>2, <2>3 DEF Reconcile
<1>2. CASE Choose
  <2>1. pg' = pg /\ cache' = cache
    BY ZenonT(30), <1>2 DEF Choose, environment
  <2>2. ASSUME NEW err, Finish(err) PROVE AssignmentInv'
    BY <2>1, <2>2, FinishInv
  <2>3. ASSUME NEW next \in Choices(job.copy, GetRequestedNodePools(job.copy)),
               job' = [job EXCEPT !.step = IF next.clear THEN "clear" ELSE "write",
                                  !.next = next]
        PROVE AssignmentInv'
    <3>1. next.pool \in Pools
      BY ChoiceIsPool
    <3> QED BY <2>1, <2>3, <3>1
  <2> QED BY ZenonT(30), <1>2, <2>2, <2>3 DEF Choose
<1>3. CASE ClearConditions
  <2>1. cache' = cache /\ Agrees([pg EXCEPT !.last = None])
    BY ZenonT(30), <1>3, EditAgrees DEF ClearConditions, environment
  <2>2. Agrees(pg')
    BY ZenonT(30), <1>3, <2>1 DEF ClearConditions, Write
  <2>3. CASE Finish(TRUE)
    BY ZenonT(30), <2>1, <2>2, <2>3, FinishInv
  <2>4. CASE job' = [job EXCEPT !.step = "write", !.copy = [pg EXCEPT !.last = None]]
    BY <1>3, <2>1, <2>2, <2>4 DEF ClearConditions
  <2> QED BY ZenonT(30), <1>3, <2>3, <2>4 DEF ClearConditions
<1>4. CASE AssignPodGroup
  <2>1. cache' = cache /\ (Finish(TRUE) \/ Finish(FALSE))
    BY ZenonT(30), <1>4 DEF AssignPodGroup, environment
  <2>2. Agrees(MergePatch(pg, job.copy, mutatePodGroupObjForAssignment(job.copy, job.next)))
    BY <1>4, PatchAgrees DEF AssignPodGroup
  <2>3. Agrees(pg')
    BY ZenonT(30), <1>4, <2>2 DEF AssignPodGroup, Write
  <2> QED BY ZenonT(30), <2>1, <2>3, FinishInv
<1>5. CASE SyncPodGroup
  BY <1>5 DEF SyncPodGroup
<1>6. CASE SyncPods \/ \E p \in Pools : SyncNodePool(p)
  <2>1. pg' = pg /\ job' = job
    BY <1>6 DEF SyncPods, SyncNodePool
  <2>2. DOMAIN cache' = DOMAIN cache /\ cache'.pg = cache.pg
    BY <1>6 DEF SyncPods, SyncNodePool
  <2> QED BY <2>1, <2>2
<1>7. CASE Restart
  BY <1>7, NewAgrees DEF Restart, Idle
<1>8. CASE ForgetLists \/ CreatePods \/ ChangePhase \/ \E p \in Pools : Pick(p) \/ Place(p)
  <2>1. pg' = pg /\ cache' = cache /\ job' = job
    BY <1>8 DEF ForgetLists, CreatePods, ChangePhase, SetPhase, Pick, Place, assigner
  <2> QED BY <2>1
<1>9. CASE EditPodGroup \/ DropConditions \/ \E p \in Pools : Refuse(p)
  <2>1. cache' = cache /\ job' = job
    BY ZenonT(30), <1>9 DEF EditPodGroup, DropConditions, Refuse, assigner
  <2>2. \/ pg' = pg
        \/ pg' = [pg EXCEPT !.topology = User]
        \/ \E v : pg' = [pg EXCEPT !.last = v]
    BY <1>9, Zenon DEF EditPodGroup, DropConditions, Refuse, Write
  <2>3. Agrees([pg EXCEPT !.topology = User]) /\ \A v : Agrees([pg EXCEPT !.last = v])
    BY ZenonT(30), EditAgrees
  <2>4. Agrees(pg')
    BY <2>2, <2>3, Zenon
  <2> QED BY <2>1, <2>4
<1>10. CASE UNCHANGED vars
  BY <1>10 DEF vars
<1> QED BY <1>1, <1>2, <1>3, <1>4, <1>5, <1>6, <1>7, <1>8, <1>9, <1>10 DEF Next

-----------------------------------------------------------------------------
(* A pod group is marked unschedulable only once every node pool was tried. *)
(* The node pools tried so far are always a prefix of the requested ones,   *)
(* and whatever the assigner, a scheduler or a cache remembers of the pod   *)
(* group, however old, speaks only of node pools in that prefix.            *)

N == Len(Requested)

Prefix(m) == {Requested[i] : i \in 1..m}

\* What a copy of the pod group tells when the first m node pools were tried.
Known(g, m) ==
    /\ g.label \in Prefix(m) \cup {Sentinel}
    /\ g.last \in Prefix(m) \cup {None}
    /\ g.mark => m = N

\* The choice at place i extends the prefix, and a mark comes with the last one.
Follows(next, i, m) ==
    /\ next.pool = Requested[i] /\ i <= m + 1
    /\ next.mark => m = N \/ (m = N - 1 /\ i = N)

Tried(m) ==
    /\ tried = Prefix(m)
    /\ Known(pg, m) /\ Known(cache.pg, m) /\ Known(job.copy, m)
    /\ attempts \subseteq Prefix(m)
    /\ memo \in {<<>>, Requested}
    /\ job.step \in {"clear", "write"} => \E i \in 1..N : Follows(job.next, i, m)

\* The inductive invariant, with the types.
TriedInv == source = "annotation" => \E m \in 0..N : Tried(m)

\* Going round-robin is adding, with at most one turn.
LEMMA WrapIs ==
    ASSUME NEW list, Len(list) \in Nat \ {0}, NEW k \in 1..Len(list), NEW i \in 0..Len(list)
    PROVE  Wrap(list, k, i) = IF k + i <= Len(list) THEN k + i ELSE k + i - Len(list)
<1> DEFINE n == Len(list)  a == k - 1 + i
<1>1. n \in Nat /\ n > 0 /\ a \in Nat
  OBVIOUS
<1> HIDE DEF n, a
<1>2. CASE a < n
  <2>1. a % n = a
    BY <1>1, <1>2, SMT
  <2> QED BY <2>1, <1>2 DEF Wrap, n, a
<1>3. CASE n <= a
  <2>1. a < 2 * n
    BY <1>1 DEF n, a
  <2>2. a % n = a - n
    BY <1>1, <1>3, <2>1, SMT
  <2> QED BY <2>2, <1>3 DEF Wrap, n, a
<1> QED BY <1>1, <1>2, <1>3

\* A set of numbers with everything below each of them is an interval.
LEMMA Interval ==
    ASSUME NEW n \in Nat, NEW U \in SUBSET (0..n - 1), \A i \in U : 0..i \subseteq U
    PROVE  Cardinality(U) \in 0..n /\ U = 0..Cardinality(U) - 1
<1>1. IsFiniteSet(0..n - 1) /\ Cardinality(0..n - 1) = n
  BY FS_Interval
<1>2. IsFiniteSet(U) /\ Cardinality(U) <= n
  BY ZenonT(30), <1>1, FS_Subset
<1>3. Cardinality(U) \in Nat
  BY <1>2, FS_CardinalityType
<1> DEFINE c == Cardinality(U)
<1>4. ASSUME NEW i \in U PROVE i <= c - 1
  <2>1. 0..i \subseteq U /\ i \in Int /\ i >= 0
    OBVIOUS
  <2>2. Cardinality(0..i) = i + 1
    BY <2>1, FS_Interval
  <2>3. Cardinality(0..i) <= Cardinality(U)
    BY <1>2, <2>1, FS_Subset
  <2> QED BY <2>1, <2>2, <2>3, <1>3
<1>5. U \subseteq 0..c - 1
  BY <1>4, <1>3
<1>6. IsFiniteSet(0..c - 1) /\ Cardinality(0..c - 1) = c
  BY <1>3, FS_Interval
<1>7. U = 0..c - 1
  BY ZenonT(30), <1>5, <1>6, FS_Subset
<1> QED BY <1>2, <1>3, <1>7

\* The requested node pools are a list without repetition.
LEMMA RequestedIs ==
    /\ N \in Nat /\ N > 0 /\ DOMAIN Requested = 1..N
    /\ \A i \in 1..N : Requested[i] \in Pools /\ IndexOfItemInList(Requested, Requested[i]) = i
<1>1. N \in Nat /\ N > 0 /\ DOMAIN Requested = 1..N /\ \A i \in 1..N : Requested[i] \in Pools
  BY ConstantsAssumption DEF N
<1>2. ASSUME NEW i \in 1..N PROVE IndexOfItemInList(Requested, Requested[i]) = i
  <2>1. Requested[i] \in Range(Requested)
    BY <1>1 DEF Range
  <2>2. \A j \in DOMAIN Requested : Requested[j] = Requested[i] <=> j = i
    BY <1>1, ConstantsAssumption
  <2> QED BY <1>1, <2>1, <2>2 DEF IndexOfItemInList
<1> QED BY <1>1, <1>2

\* Prefixes grow, and what is known stays known.
LEMMA PrefixGrows ==
    ASSUME NEW m \in 0..N, NEW n \in m..N, NEW g, Known(g, m)
    PROVE  Prefix(m) \subseteq Prefix(n) /\ Known(g, n)
<1>1. N \in Nat
  BY RequestedIs
<1>2. Prefix(m) \subseteq Prefix(n)
  BY <1>1 DEF Prefix
<1>3. m = N => n = N
  BY <1>1
<1> QED BY <1>2, <1>3 DEF Known

\* The starting place is within the prefix or just after it, and a mark that the start brings
\* along means that it is the last place.
LEMMA StartIs ==
    ASSUME NEW m \in 0..N, NEW g, Known(g, m)
    PROVE  LET start == getInitialNodePoolAssignmentParams(g, Requested)
               k == IndexOfItemInList(Requested, start.pool)
           IN  /\ k \in 1..N /\ k <= m + 1
               /\ start.mark => m = N \/ k = N
<1> DEFINE start == getInitialNodePoolAssignmentParams(g, Requested)
           k == IndexOfItemInList(Requested, start.pool)
<1>1. N \in Nat /\ N > 0 /\ N = Len(Requested) /\ None \notin Pools /\ Sentinel \notin Pools
  BY RequestedIs, ConstantsAssumption DEF N
<1>2. CASE g.last = None
  <2>1. start.pool = IF g.label \in Range(Requested) THEN g.label ELSE Requested[1]
    BY <1>2 DEF getInitialNodePoolAssignmentParams
  <2>2. start.mark => N = 1 \/ g.mark
    BY ZenonT(30), <1>2, <1>1 DEF getInitialNodePoolAssignmentParams
  <2>3. \E i \in 1..N : start.pool = Requested[i] /\ i <= m + 1
    <3>1. CASE g.label \in Range(Requested)
      <4>1. g.label \in Prefix(m)
        BY <1>1, <3>1, RequestedIs DEF Known, Range
      <4> QED BY <1>1, <2>1, <3>1, <4>1 DEF Prefix
    <3>2. CASE g.label \notin Range(Requested)
      BY <1>1, <2>1, <3>2
    <3> QED BY <3>1, <3>2
  <2>4. k \in 1..N /\ k <= m + 1
    BY <2>3, RequestedIs
  <2> QED BY <1>1, <2>2, <2>4 DEF Known
<1>3. CASE g.last # None
  <2>1. PICK j \in 1..m : g.last = Requested[j]
    BY <1>3 DEF Known, Prefix
  <2>2. j \in 1..N /\ IndexOfItemInList(Requested, g.last) = j
    BY <1>1, <2>1, RequestedIs
  <2> DEFINE w == Wrap(Requested, j, 1)
  <2>3. w = IF j + 1 <= N THEN j + 1 ELSE j + 1 - N
    BY <1>1, <2>2, WrapIs
  <2>4. start.pool = Requested[w] /\ (start.mark <=> g.mark \/ w = N)
    BY ZenonT(30), <1>3, <2>2, <1>1 DEF getInitialNodePoolAssignmentParams
  <2> HIDE DEF w
  <2>5. w \in 1..N /\ w <= m + 1
    BY <1>1, <2>2, <2>3
  <2>6. k = w
    BY <2>4, <2>5, RequestedIs
  <2> QED BY <2>4, <2>5, <2>6 DEF Known
<1> QED BY <1>2, <1>3

\* The steps that find a node pool unavailable are the first ones.
LEMMA UnavailableIs ==
    ASSUME NEW k \in 1..N
    PROVE  LET c == Cardinality(Unavailable(Requested, k))
           IN  c \in 0..N /\ Unavailable(Requested, k) = 0..c - 1
<1> DEFINE U == Unavailable(Requested, k)
<1>1. N \in Nat /\ N = Len(Requested)
  BY RequestedIs DEF N
<1>2. U \in SUBSET (0..N - 1) /\ \A i \in U : 0..i \subseteq U
  BY <1>1 DEF Unavailable
<1> HIDE DEF U
<1>3. Cardinality(U) \in 0..N /\ U = 0..Cardinality(U) - 1
  BY <1>1, <1>2, Interval
<1> QED BY <1>3 DEF U

\* What is passed over extends the prefix, and the place after it follows.
LEMMA PassedIs ==
    ASSUME NEW m \in 0..N, NEW g, Known(g, m)
    PROVE  LET k == IndexOfItemInList(Requested, getInitialNodePoolAssignmentParams(g, Requested).pool)
               c == Cardinality(Unavailable(Requested, k))
           IN  \E n \in m..N : /\ Prefix(m) \cup Passed(g, Requested) = Prefix(n)
                               /\ n = IF k + c - 1 > N THEN N ELSE IF k + c - 1 > m THEN k + c - 1 ELSE m
<1> DEFINE k == IndexOfItemInList(Requested, getInitialNodePoolAssignmentParams(g, Requested).pool)
           c == Cardinality(Unavailable(Requested, k))
           n == IF k + c - 1 > N THEN N ELSE IF k + c - 1 > m THEN k + c - 1 ELSE m
           at(i) == IF k + i <= N THEN k + i ELSE k + i - N
<1>1. N \in Nat /\ N > 0 /\ N = Len(Requested)
  BY RequestedIs DEF N
<1>2. k \in 1..N /\ k <= m + 1
  BY StartIs
<1>3. c \in 0..N /\ Passed(g, Requested) = {Requested[Wrap(Requested, k, i)] : i \in 0..c - 1}
  BY <1>2, UnavailableIs DEF Passed
<1> HIDE DEF k, c
<1>4. Passed(g, Requested) = {Requested[at(i)] : i \in 0..c - 1}
  <2>1. \A i \in 0..c - 1 : Wrap(Requested, k, i) = at(i)
    BY <1>1, <1>2, <1>3, WrapIs
  <2> QED BY <1>3, <2>1
<1>5. n \in m..N
  BY <1>1, <1>2, <1>3
<1>6. \A i \in 0..c - 1 : at(i) \in 1..n
  BY <1>1, <1>2, <1>3
<1>7. \A j \in 1..n : j \in 1..m \/ \E i \in 0..c - 1 : at(i) = j
  <2> SUFFICES ASSUME NEW j \in 1..n, j > m PROVE \E i \in 0..c - 1 : at(i) = j
    BY <1>1
  <2>1. j - k \in 0..c - 1 /\ at(j - k) = j
    BY <1>1, <1>2, <1>3
  <2> QED BY <2>1
<1> HIDE DEF n, at
<1>8. Prefix(m) \cup Passed(g, Requested) \subseteq Prefix(n)
  <2>1. Prefix(m) \subseteq Prefix(n)
    BY <1>5, PrefixGrows
  <2>2. \A i \in 0..c - 1 : Requested[at(i)] \in Prefix(n)
    BY <1>6 DEF Prefix
  <2> QED BY <1>4, <2>1, <2>2
<1>9. Prefix(n) \subseteq Prefix(m) \cup Passed(g, Requested)
  <2> SUFFICES ASSUME NEW j \in 1..n
               PROVE  Requested[j] \in Prefix(m) \cup Passed(g, Requested)
    BY DEF Prefix
  <2>1. CASE j \in 1..m
    BY <2>1 DEF Prefix
  <2>2. CASE \E i \in 0..c - 1 : at(i) = j
    BY <2>2, <1>4
  <2> QED BY <1>7, <2>1, <2>2
<1> QED BY <1>5, <1>8, <1>9 DEF n, k, c

\* A choice follows the prefix that includes what it passed over.
LEMMA ChoiceFollows ==
    ASSUME NEW m \in 0..N, NEW g, Known(g, m), g.mark \in BOOLEAN,
           NEW next \in Choices(g, Requested)
    PROVE  \E n \in m..N : /\ Prefix(m) \cup Passed(g, Requested) = Prefix(n)
                           /\ \E i \in 1..N : Follows(next, i, n)
<1> DEFINE start == getInitialNodePoolAssignmentParams(g, Requested)
           k == IndexOfItemInList(Requested, start.pool)
           c == Cardinality(Unavailable(Requested, k))
           at == Wrap(Requested, k, c)
<1>1. N \in Nat /\ N > 0 /\ N = Len(Requested)
  BY RequestedIs DEF N
<1>2. k \in 1..N /\ k <= m + 1 /\ (start.mark => m = N \/ k = N)
  BY StartIs
<1>3. c \in 0..N
  BY <1>2, UnavailableIs
<1>5. /\ c # N /\ next.pool = Requested[at]
      /\ next.mark => start.mark \/ (c > 0 /\ (at = N \/ at < k))
  <2> DEFINE new == [pool |-> Requested[at],
                     mark |-> start.mark \/ (c > 0 /\ Marks(Requested, k, at)),
                     backoff |-> Len(Requested) > 1,
                     clear |-> Len(Requested) > 1 /\ g.last # None /\ Requested[at] = g.last]
  <2>1. c # Len(Requested) /\ next = new
    <3>1. next \in IF c = Len(Requested) \/ Phase(Requested[at]) = "Absent" \/ Requested[at] \notin Queued
                   THEN {} ELSE {new}
      BY DEF Choices
    <3> HIDE DEF new, at, c, k, start
    <3> QED BY ZenonT(30), <3>1
  <2> HIDE DEF at, c, k, start
  <2>2. next.pool = Requested[at] /\ (next.mark => start.mark \/ (c > 0 /\ Marks(Requested, k, at)))
    BY ZenonT(30), <2>1
  <2> QED BY <1>1, <2>1, <2>2 DEF Marks
<1> HIDE DEF start, k, c
<1>4. at = IF k + c <= N THEN k + c ELSE k + c - N
  BY <1>1, <1>2, <1>3, WrapIs
<1>6. PICK n \in m..N : /\ Prefix(m) \cup Passed(g, Requested) = Prefix(n)
                        /\ n = IF k + c - 1 > N THEN N ELSE IF k + c - 1 > m THEN k + c - 1 ELSE m
  BY PassedIs DEF start, k, c
<1> HIDE DEF at
<1>7. at \in 1..N /\ at <= n + 1
  BY <1>1, <1>2, <1>3, <1>4, <1>5, <1>6
<1>8. next.mark => n = N \/ (n = N - 1 /\ at = N)
  BY <1>1, <1>2, <1>3, <1>4, <1>5, <1>6
<1> QED BY <1>5, <1>6, <1>7, <1>8 DEF Follows

\* What is requested is fixed by the annotation.
LEMMA AnnotationRequested ==
    ASSUME source = "annotation", memo \in {<<>>, Requested}, NEW g
    PROVE  GetRequestedNodePools(g) = Requested
<1>1. Requested # <<>>
  BY ConstantsAssumption
<1> QED BY <1>1 DEF GetRequestedNodePools

-----------------------------------------------------------------------------
(* Types of everything but the remembered list and what was tried; those   *)
(* follow at the end.                                                      *)

Typed ==
    /\ pg \in PodGroup
    /\ pods \in {"none", "pending", "bound"}
    /\ pools \in [Pools -> Phases]
    /\ source \in Sources
    /\ cache \in [pg : PodGroup, pods : {"none", "pending", "bound"}, pools : [Pools -> Phases]]
    /\ unseen \in BOOLEAN
    /\ alarms \in SUBSET Pools
    /\ queued \in BOOLEAN
    /\ job \in Job
    /\ attempts \in SUBSET Pools
    /\ edits \in Nat
    /\ failures \in Nat

\* A choice has the type of a choice.
LEMMA ChoiceTyped ==
    ASSUME NEW g, NEW list, NEW next \in Choices(g, list)
    PROVE  next \in Params
<1> DEFINE start == getInitialNodePoolAssignmentParams(g, list)
           k == IndexOfItemInList(list, start.pool)
           c == Cardinality(Unavailable(list, k))
           at == Wrap(list, k, c)
           new == [pool |-> list[at], mark |-> start.mark \/ (c > 0 /\ Marks(list, k, at)),
                   backoff |-> Len(list) > 1,
                   clear |-> Len(list) > 1 /\ g.last # None /\ list[at] = g.last]
<1>1. next \in IF c = Len(list) \/ Phase(list[at]) = "Absent" \/ list[at] \notin Queued
               THEN {} ELSE {new}
  BY ZenonT(30) DEF Choices
<1> HIDE DEF at, c, k, start
<1>2. next = new /\ list[at] \in Pools
  BY <1>1, ConstantsAssumption
<1> QED BY <1>2 DEF Params

\* A pod group stays one when the assigner patches it.
LEMMA PatchTyped ==
    ASSUME NEW live \in PodGroup, NEW from \in PodGroup, NEW next \in Params
    PROVE  /\ mutatePodGroupObjForAssignment(from, next) \in PodGroup
           /\ MergePatch(live, from, mutatePodGroupObjForAssignment(from, next)) \in PodGroup
<1> DEFINE to == mutatePodGroupObjForAssignment(from, next)
           d == desiredNetworkTopology(from, next.pool)
<1>1. next.pool \in Pools /\ next.mark \in BOOLEAN /\ next.backoff \in BOOLEAN
  BY DEF Params
<1>2. d.topology \in Topologies /\ d.system \in BOOLEAN
  <2>1. Topology[next.pool] \in Topologies /\ None \in Topologies /\ from.topology \in Topologies
    BY <1>1 DEF Topologies, PodGroup
  <2> QED BY <2>1 DEF desiredNetworkTopology
<1> HIDE DEF d
<1>3. to = [from EXCEPT !.label = next.pool, !.queue = next.pool, !.mark = next.mark,
                        !.backoff = next.backoff, !.topology = d.topology, !.system = d.system]
  BY DEF mutatePodGroupObjForAssignment, d
<1> HIDE DEF to
<1>4. to \in PodGroup
  BY ZenonT(30), <1>1, <1>2, <1>3 DEF PodGroup
<1>5. MergePatch(live, from, to) \in PodGroup
  BY <1>4 DEF PodGroup, MergePatch
<1> QED BY <1>4, <1>5 DEF to

\* A new condition or constraint keeps a pod group a pod group.
LEMMA EditTyped ==
    ASSUME NEW g \in PodGroup
    PROVE  /\ \A v \in Pools \cup {None} : [g EXCEPT !.last = v] \in PodGroup
           /\ [g EXCEPT !.topology = User] \in PodGroup
BY DEF PodGroup, Topologies

\* So has a new pod group, and a reconcile that has not begun.
LEMMA IdleTyped == Idle \in Job /\ \A label \in Pools \cup {Sentinel} : mutatePodGroup(label) \in PodGroup
<1>1. \A label \in Pools \cup {Sentinel} : mutatePodGroup(label) \in PodGroup
  BY DEF mutatePodGroup, PodGroup, Topologies
<1> QED BY <1>1, ConstantsAssumption DEF Idle, Job, Params

\* Everything starts with its type.
LEMMA TypedInit == Init => Typed
<1> SUFFICES ASSUME Init PROVE Typed
  OBVIOUS
<1>1. source \in Sources /\ pg \in PodGroup
  BY IdleTyped, ConstantsAssumption DEF Init
<1>2. pools \in [Pools -> Phases]
  BY ZenonT(30), ConstantsAssumption DEF Init
<1> QED BY ZenonT(30), <1>1, <1>2, IdleTyped DEF Init, Typed

\* Every step keeps the types.
LEMMA TypedStep == Typed /\ [Next]_vars => Typed'
<1> SUFFICES ASSUME Typed, [Next]_vars PROVE Typed'
  OBVIOUS
<1> USE DEF Typed
<1>0. MaxEdits \in Nat /\ MaxFailures \in Nat
  BY ConstantsAssumption
<1>1. CASE Reconcile
  <2>1. job' = [Idle EXCEPT !.step = "choose", !.copy = cache.pg] \/ job' = job
    BY ZenonT(30), <1>1 DEF Reconcile
  <2>2. job' \in Job
    BY ZenonT(30), <2>1, IdleTyped DEF Job
  <2>3. queued' \in BOOLEAN
    BY ZenonT(30), <1>1 DEF Reconcile
  <2> QED BY <1>1, <2>2, <2>3 DEF Reconcile, environment
<1>2. CASE Choose
  <2>1. queued' \in BOOLEAN
    BY ZenonT(30), <1>2 DEF Choose, Finish
  <2>2. job' \in Job
    <3>1. CASE job' = Idle
      BY <3>1, IdleTyped
    <3>2. ASSUME NEW next \in Choices(job.copy, GetRequestedNodePools(job.copy)),
                 job' = [job EXCEPT !.step = IF next.clear THEN "clear" ELSE "write", !.next = next]
          PROVE job' \in Job
      <4>1. next \in Params
        BY ChoiceTyped
      <4> QED BY ZenonT(30), <3>2, <4>1 DEF Job
    <3> QED BY ZenonT(30), <1>2, <3>1, <3>2 DEF Choose, Finish
  <2> QED BY ZenonT(30), <1>2, <2>1, <2>2 DEF Choose, environment
<1>3. CASE ClearConditions
  <2>1. [pg EXCEPT !.last = None] \in PodGroup
    BY ZenonT(30), EditTyped
  <2>2. pg' \in PodGroup /\ unseen' \in BOOLEAN
    BY ZenonT(30), <1>3, <2>1 DEF ClearConditions, Write
  <2>3. job' \in Job
    <3>1. [job EXCEPT !.step = "write", !.copy = [pg EXCEPT !.last = None]] \in Job
      BY ZenonT(30), <2>1 DEF Job
    <3> QED BY <1>3, <3>1, IdleTyped, Zenon DEF ClearConditions, Finish
  <2>4. queued' \in BOOLEAN /\ (failures' = failures \/ failures' = failures + 1)
    BY <1>3, Zenon DEF ClearConditions, Finish, Fails
  <2> QED BY <1>3, <2>2, <2>3, <2>4 DEF ClearConditions, environment
<1>4. CASE AssignPodGroup
  <2>1. MergePatch(pg, job.copy, mutatePodGroupObjForAssignment(job.copy, job.next)) \in PodGroup
    BY PatchTyped DEF Job
  <2>2. pg' \in PodGroup /\ unseen' \in BOOLEAN
    BY ZenonT(30), <1>4, <2>1 DEF AssignPodGroup, Write
  <2>3. job' \in Job /\ queued' \in BOOLEAN
    <3>1. Finish(TRUE) \/ Finish(FALSE)
      BY ZenonT(30), <1>4 DEF AssignPodGroup
    <3> QED BY ZenonT(30), <3>1, IdleTyped DEF Finish
  <2>4. failures' = failures \/ failures' = failures + 1
    BY <1>4, Zenon DEF AssignPodGroup, Fails
  <2> QED BY <1>4, <2>2, <2>3, <2>4 DEF AssignPodGroup, environment
<1>5. CASE SyncPodGroup \/ SyncPods
  BY ZenonT(30), <1>5 DEF SyncPodGroup, SyncPods
<1>6. ASSUME NEW p \in Pools, SyncNodePool(p) PROVE Typed'
  <2>1. queued' \in BOOLEAN
    BY <1>6 DEF SyncNodePool
  <2>2. cache' \in [pg : PodGroup, pods : {"none", "pending", "bound"}, pools : [Pools -> Phases]]
    BY <1>6 DEF SyncNodePool
  <2> QED BY <1>6, <2>1, <2>2 DEF SyncNodePool
<1>7. CASE ForgetLists \/ CreatePods
  <2>1. failures' \in Nat /\ pods' \in {"none", "pending", "bound"}
    BY <1>0, <1>7 DEF ForgetLists, CreatePods, Fails, assigner
  <2> QED BY <1>7, <2>1 DEF ForgetLists, CreatePods, assigner
<1>8. CASE Restart
  <2>1. failures' \in Nat
    BY <1>8 DEF Restart, Fails
  <2> QED BY ZenonT(30), <1>8, <2>1, IdleTyped DEF Restart
<1>9. CASE ChangePhase
  <2>1. PICK p \in Pools, phase \in Phases : SetPhase(p, phase)
    BY <1>9 DEF ChangePhase, Phases
  <2>2. edits' \in Nat
    BY <1>9 DEF ChangePhase, Edit
  <2> QED BY <2>1, <2>2 DEF SetPhase, assigner
<1>10. CASE EditPodGroup
  <2>1. [pg EXCEPT !.topology = User] \in PodGroup
    BY EditTyped
  <2>2. pg' \in PodGroup /\ unseen' \in BOOLEAN /\ queued' \in BOOLEAN
    BY ZenonT(30), <1>10, <2>1 DEF EditPodGroup, Write
  <2>3. edits' \in Nat
    BY <1>10 DEF EditPodGroup, Edit
  <2> QED BY <1>10, <2>2, <2>3 DEF EditPodGroup
<1>11. CASE DropConditions
  <2>1. [pg EXCEPT !.last = None] \in PodGroup
    BY ZenonT(30), EditTyped
  <2> QED BY <1>11, <2>1 DEF DropConditions, Write, assigner
<1>12. ASSUME NEW p \in Pools, Pick(p) \/ Refuse(p) \/ Place(p) PROVE Typed'
  <2>1. [pg EXCEPT !.last = p] \in PodGroup
    BY ZenonT(30), EditTyped
  <2> QED BY ZenonT(30), <1>12, <2>1 DEF Pick, Refuse, Place, Write, assigner
<1>13. CASE UNCHANGED vars
  BY <1>13 DEF vars
<1> QED BY ZenonT(30), <1>1, <1>2, <1>3, <1>4, <1>5, <1>6, <1>7, <1>8, <1>9, <1>10, <1>11, <1>12, <1>13 DEF Next

-----------------------------------------------------------------------------
(* The steps that try node pools.                                           *)

\* Whatever is known of a pod group is known of the patch of what is known.
LEMMA PatchKnown ==
    ASSUME NEW m \in 0..N, NEW live \in PodGroup, NEW from \in PodGroup, NEW next \in Params,
           Known(live, m), Known(from, m), NEW i \in 1..N, Follows(next, i, m)
    PROVE  LET new == MergePatch(live, from, mutatePodGroupObjForAssignment(from, next))
           IN  \E n \in m..N : /\ Known(new, n)
                               /\ Prefix(m) \cup ({new.label} \ {Sentinel}) = Prefix(n)
<1> DEFINE to == mutatePodGroupObjForAssignment(from, next)
           new == MergePatch(live, from, to)
<1>1. N \in Nat /\ Requested[i] \in Pools /\ Sentinel \notin Pools /\ None \notin Pools
  BY RequestedIs, ConstantsAssumption
<1>2. to.label = next.pool /\ to.mark = next.mark /\ to.last = from.last
  BY DEF mutatePodGroupObjForAssignment, PodGroup
<1> HIDE DEF to
<1>3. /\ new.label = IF from.label = to.label THEN live.label ELSE to.label
      /\ new.mark = IF from.mark = to.mark THEN live.mark ELSE to.mark
      /\ new.last = IF from.last = to.last THEN live.last ELSE to.last
  BY DEF MergePatch, PodGroup
<1>4. next.pool = Requested[i] /\ i <= m + 1 /\ (next.mark => m = N \/ (m = N - 1 /\ i = N))
  BY DEF Follows
<1> HIDE DEF new
<1>5. new.last \in Prefix(m) \cup {None}
  BY <1>2, <1>3 DEF Known
<1>6. CASE from.label = next.pool
  <2>1. Requested[i] \in Prefix(m)
    BY <1>1, <1>4, <1>6 DEF Known
  <2>2. i <= m
    <3>1. PICK j \in 1..m : Requested[i] = Requested[j]
      BY <2>1 DEF Prefix
    <3>2. i = j
      BY <1>1, <3>1, RequestedIs
    <3> QED BY <3>1, <3>2
  <2>3. next.mark => m = N
    BY <1>1, <1>4, <2>2
  <2>4. Known(new, m)
    BY <1>2, <1>3, <1>5, <1>6, <2>3 DEF Known
  <2>5. Prefix(m) \cup ({new.label} \ {Sentinel}) = Prefix(m)
    BY <2>4 DEF Known
  <2> QED BY <1>1, <2>4, <2>5 DEF new, to
<1>7. CASE from.label # next.pool
  <2> DEFINE n == IF i = m + 1 THEN i ELSE m
  <2>1. n \in m..N /\ i <= n
    BY <1>1, <1>4
  <2>2. new.label = Requested[i] /\ Requested[i] \in Prefix(n)
    BY <1>2, <1>3, <1>4, <1>7, <2>1 DEF Prefix
  <2>3. (new.mark => n = N) /\ (m = N => n = N)
    BY <1>1, <1>2, <1>3, <1>4, <2>1 DEF Known
  <2>4. Prefix(n) = Prefix(m) \cup {Requested[i]}
    <3>1. CASE i = m + 1
      <4>1. 1..i = 1..m \cup {i}
        BY <1>1, <3>1
      <4> QED BY <3>1, <4>1 DEF Prefix
    <3>2. CASE i # m + 1
      <4>1. i \in 1..m
        BY <1>1, <1>4, <3>2
      <4> QED BY <3>2, <4>1 DEF Prefix
    <3> QED BY <3>1, <3>2
  <2> HIDE DEF n
  <2>5. Known(new, n)
    BY <1>5, <2>2, <2>3, <2>4 DEF Known
  <2>6. Prefix(m) \cup ({new.label} \ {Sentinel}) = Prefix(n)
    BY <1>1, <2>2, <2>4
  <2> QED BY <2>1, <2>5, <2>6 DEF new, to
<1> QED BY <1>6, <1>7

\* A condition of a node pool that was tried, or none, tells nothing new.
LEMMA EditKnown ==
    ASSUME NEW m \in 0..N, NEW g \in PodGroup, Known(g, m)
    PROVE  /\ \A v \in Prefix(m) \cup {None} : Known([g EXCEPT !.last = v], m)
           /\ Known([g EXCEPT !.topology = User], m)
BY DEF Known, PodGroup

\* An ended reconcile knows nothing.
LEMMA IdleKnown ==
    \A m \in 0..N : Known(Idle.copy, m) /\ Idle.step \notin {"clear", "write"}
BY DEF Idle, mutatePodGroup, Known

\* Where the pods name their node pools does not change.
LEMMA SourceFixed == [Next]_vars => source' = source
<1> SUFFICES ASSUME [Next]_vars PROVE source' = source
  OBVIOUS
<1>1. CASE Reconcile \/ Choose \/ ClearConditions \/ AssignPodGroup
  BY ZenonT(30), <1>1 DEF Reconcile, Choose, ClearConditions, AssignPodGroup, environment
<1>2. CASE SyncPodGroup \/ SyncPods \/ ForgetLists \/ Restart \/ CreatePods \/ EditPodGroup \/ DropConditions
  BY <1>2 DEF SyncPodGroup, SyncPods, ForgetLists, Restart, CreatePods, EditPodGroup, DropConditions
<1>3. CASE ChangePhase
  BY <1>3 DEF ChangePhase, SetPhase
<1>4. ASSUME NEW p \in Pools, SyncNodePool(p) \/ Pick(p) \/ Refuse(p) \/ Place(p) PROVE source' = source
  BY ZenonT(30), <1>4 DEF SyncNodePool, Pick, Refuse, Place
<1> QED BY <1>1, <1>2, <1>3, <1>4 DEF Next, vars

\* The node pools tried stay a prefix that all copies speak of.
LEMMA TriedStep == Typed /\ TriedInv /\ [Next]_vars => TriedInv'
<1> SUFFICES ASSUME Typed, source = "annotation", NEW m \in 0..N, Tried(m), [Next]_vars
             PROVE  \E n \in 0..N : Tried(n)'
  BY SourceFixed DEF TriedInv
<1> USE DEF Tried
<1>0. /\ pg \in PodGroup /\ job.copy \in PodGroup /\ job.next \in Params
      /\ job.copy.mark \in BOOLEAN /\ N \in Nat
  BY RequestedIs DEF Typed, Job, PodGroup
<1>1. CASE Reconcile
  <2>1. job' = [Idle EXCEPT !.step = "choose", !.copy = cache.pg] \/ job' = job
    BY ZenonT(30), <1>1 DEF Reconcile
  <2>2. /\ Known(job'.copy, m)
        /\ job'.step \in {"clear", "write"} => job' = job
    BY ZenonT(30), <2>1 DEF Idle
  <2>3. UNCHANGED <<pg, cache, tried, attempts, memo>>
    BY <1>1 DEF Reconcile, environment
  <2> QED BY <2>2, <2>3
<1>2. CASE Choose
  <2>1. UNCHANGED <<pg, cache, attempts>>
    BY ZenonT(30), <1>2 DEF Choose, environment
  <2>2. CASE (Finish(TRUE) \/ Finish(FALSE)) /\ UNCHANGED <<memo, tried>>
    BY <2>1, <2>2, IdleKnown DEF Finish
  <2>3. CASE /\ memo' = GetRequestedNodePools(job.copy)
             /\ tried' = tried \cup Passed(job.copy, GetRequestedNodePools(job.copy))
             /\ \/ \E next \in Choices(job.copy, GetRequestedNodePools(job.copy)) :
                     job' = [job EXCEPT !.step = IF next.clear THEN "clear" ELSE "write",
                                        !.next = next]
                \/ Finish(TRUE)
    <3>1. memo' = Requested /\ tried' = Prefix(m) \cup Passed(job.copy, Requested)
      BY ZenonT(30), <2>3, AnnotationRequested
    <3>2. ASSUME NEW next \in Choices(job.copy, Requested),
                 job' = [job EXCEPT !.step = IF next.clear THEN "clear" ELSE "write", !.next = next]
          PROVE  \E n \in 0..N : Tried(n)'
      <4>1. PICK n \in m..N : /\ Prefix(m) \cup Passed(job.copy, Requested) = Prefix(n)
                              /\ \E i \in 1..N : Follows(next, i, n)
        BY ZenonT(30), <1>0, ChoiceFollows
      <4>2. Prefix(m) \subseteq Prefix(n) /\ Known(pg, n) /\ Known(cache.pg, n) /\ Known(job.copy, n)
        BY PrefixGrows
      <4>3. job'.copy = job.copy /\ job'.next = next
        BY ZenonT(30), <3>2 DEF Typed, Job
      <4> QED BY <1>0, <2>1, <3>1, <4>1, <4>2, <4>3
    <3>3. CASE Finish(TRUE)
      <4>1. PICK n \in m..N : Prefix(m) \cup Passed(job.copy, Requested) = Prefix(n)
        BY ZenonT(30), PassedIs
      <4>2. Prefix(m) \subseteq Prefix(n) /\ Known(pg, n) /\ Known(cache.pg, n)
        BY ZenonT(30), PrefixGrows
      <4>3. n \in 0..N
        BY <1>0
      <4> QED BY ZenonT(30), <2>1, <3>1, <3>3, <4>1, <4>2, <4>3, IdleKnown DEF Finish
    <3>4. GetRequestedNodePools(job.copy) = Requested
      BY AnnotationRequested
    <3> QED BY ZenonT(30), <2>3, <3>2, <3>3, <3>4
  <2> QED BY ZenonT(30), <1>2, <2>2, <2>3 DEF Choose
<1>3. CASE ClearConditions
  <2>1. Known([pg EXCEPT !.last = None], m)
    BY ZenonT(30), <1>0, EditKnown
  <2>2. UNCHANGED <<cache, tried, attempts, memo>> /\ Known(pg', m)
    BY ZenonT(30), <1>3, <2>1 DEF ClearConditions, Write, environment
  <2>3. CASE job' = [job EXCEPT !.step = "write", !.copy = [pg EXCEPT !.last = None]]
    <3>1. job'.copy = [pg EXCEPT !.last = None] /\ job'.next = job.next
      BY <2>3 DEF Typed, Job
    <3> QED BY <1>3, <2>1, <2>2, <3>1 DEF ClearConditions
  <2>4. CASE Finish(TRUE)
    BY ZenonT(30), <2>2, <2>4, IdleKnown DEF Finish
  <2> QED BY ZenonT(30), <1>3, <2>3, <2>4 DEF ClearConditions
<1>4. CASE AssignPodGroup
  <2>1. UNCHANGED <<cache, attempts, memo>> /\ job' = Idle
    BY ZenonT(30), <1>4 DEF AssignPodGroup, environment, Finish
  <2>2. tried' = Prefix(m) \cup ({pg'.label} \ {Sentinel})
    BY <1>4 DEF AssignPodGroup
  <2> DEFINE new == MergePatch(pg, job.copy, mutatePodGroupObjForAssignment(job.copy, job.next))
  <2>3. pg' = pg \/ pg' = new
    BY ZenonT(30), <1>4 DEF AssignPodGroup, Write
  <2>4. PICK i \in 1..N : Follows(job.next, i, m)
    BY ZenonT(30), <1>4 DEF AssignPodGroup
  <2>5. PICK n \in m..N : Known(new, n) /\ Prefix(m) \cup ({new.label} \ {Sentinel}) = Prefix(n)
    <3>1. Known(pg, m) /\ Known(job.copy, m)
      OBVIOUS
    <3> HIDE DEF Tried
    <3> QED BY <1>0, <2>4, <3>1, PatchKnown
  <2> HIDE DEF new
  <2>6. CASE pg' = pg
    <3>1. tried' = Prefix(m)
      BY ZenonT(30), <2>2, <2>6 DEF Known
    <3> QED BY ZenonT(30), <2>1, <2>6, <3>1, IdleKnown
  <2>7. CASE pg' = new
    <3>1. Prefix(m) \subseteq Prefix(n) /\ Known(cache.pg, n) /\ n \in 0..N
      BY <1>0, PrefixGrows
    <3> QED BY ZenonT(30), <2>1, <2>2, <2>5, <2>7, <3>1, IdleKnown
  <2> QED BY ZenonT(30), <2>3, <2>6, <2>7
<1>5. CASE SyncPodGroup
  <2>1. cache'.pg = pg /\ UNCHANGED <<pg, job, tried, attempts, memo>>
    BY <1>5 DEF SyncPodGroup, Typed
  <2> QED BY <2>1
<1>6. CASE SyncPods \/ \E p \in Pools : SyncNodePool(p)
  <2>1. cache'.pg = cache.pg /\ UNCHANGED <<pg, job, tried, attempts, memo>>
    BY ZenonT(30), <1>6 DEF SyncPods, SyncNodePool, Typed
  <2> QED BY <2>1
<1>7. CASE ForgetLists \/ CreatePods \/ ChangePhase \/ \E p \in Pools : Place(p)
  <2>1. UNCHANGED <<pg, job, tried, cache>> /\ attempts' \subseteq attempts /\ memo' \in {<<>>, memo}
    BY ZenonT(30), <1>7 DEF ForgetLists, CreatePods, ChangePhase, SetPhase, Place, assigner
  <2> QED BY ZenonT(30), <2>1
<1>8. CASE Restart
  <2>1. cache'.pg = pg /\ job' = Idle /\ memo' = <<>> /\ UNCHANGED <<pg, tried, attempts>>
    BY ZenonT(30), <1>8 DEF Restart
  <2> QED BY ZenonT(30), <2>1, IdleKnown
<1>9. CASE EditPodGroup \/ DropConditions \/ \E p \in Pools : Refuse(p)
  <2>1. UNCHANGED <<job, tried, cache, memo>> /\ attempts' \subseteq attempts
    BY ZenonT(30), <1>9 DEF EditPodGroup, DropConditions, Refuse, assigner
  <2>2. \/ pg' = pg \/ pg' = [pg EXCEPT !.topology = User]
        \/ \E v \in attempts \cup {None} : pg' = [pg EXCEPT !.last = v]
    BY <1>9, Zenon DEF EditPodGroup, DropConditions, Refuse, Write
  <2>3. Known(pg', m)
    <3>1. Known(pg, m) /\ attempts \subseteq Prefix(m)
      OBVIOUS
    <3> HIDE DEF Tried
    <3>2. \A v \in attempts \cup {None} : Known([pg EXCEPT !.last = v], m)
      BY ZenonT(30), <1>0, <3>1, EditKnown
    <3> QED BY ZenonT(30), <1>0, <2>2, <3>1, <3>2, EditKnown
  <2> QED BY <2>1, <2>3
<1>10. ASSUME NEW p \in Pools, Pick(p) PROVE \E n \in 0..N : Tried(n)'
  <2>1. UNCHANGED <<pg, job, tried, cache, memo>> /\ attempts' = attempts \cup {pg.label} /\ pg.label \in Pools
    BY ZenonT(30), <1>10 DEF Pick, assigner
  <2>2. pg.label \in Prefix(m)
    BY ZenonT(30), <2>1, ConstantsAssumption DEF Known
  <2> QED BY ZenonT(30), <2>1, <2>2
<1>11. CASE UNCHANGED vars
  BY <1>11 DEF vars
<1> QED BY <1>1, <1>2, <1>3, <1>4, <1>5, <1>6, <1>7, <1>8, <1>9, <1>10, <1>11 DEF Next

\* A pod group that names its node pools in the annotation, and that mutatePodGroup left
\* unassigned, is marked unschedulable only once it has been in every one of them or was led past
\* it, however old the copy that the assigner worked from and whoever answered late.
THEOREM MarkCorrect ==
    ASSUME \A w \in Workloads : w[1] = "annotation" => w[2] = Sentinel
    PROVE  Spec => []MarkedAfterTrying
<1>1. Init => Typed
  BY ZenonT(30), TypedInit
<1>2. Init => TriedInv
  <2> SUFFICES ASSUME Init, source = "annotation" PROVE Tried(0) /\ 0 \in 0..N
    BY DEF TriedInv
  <2>1. pg = mutatePodGroup(Sentinel) /\ cache.pg = pg
    BY ZenonT(30) DEF Init
  <2>2. Known(pg, 0)
    BY <2>1 DEF Known, mutatePodGroup
  <2>3. tried = Prefix(0)
    BY DEF Init, Prefix
  <2>4. 0 \in 0..N
    BY RequestedIs
  <2> QED BY <2>1, <2>2, <2>3, <2>4, IdleKnown DEF Init, Tried
<1>3. TriedInv => MarkedAfterTrying
  <2> SUFFICES ASSUME source = "annotation", pg.mark, NEW m \in 0..N, Tried(m)
               PROVE  Range(Requested) \subseteq tried
    BY DEF TriedInv, MarkedAfterTrying
  <2> QED BY RequestedIs DEF Tried, Known, Prefix, Range
<1> QED BY <1>1, <1>2, <1>3, TypedStep, TriedStep, PTL DEF Spec

-----------------------------------------------------------------------------
(* A pod group whose label alone says where it belongs stays there.         *)

Stays(g, p) == g.label = p /\ g.queue \in {None, p}

\* The inductive invariant for such a pod group, with the types.
FixedInv(p) ==
    /\ source = "none"
    /\ Stays(pg, p) /\ Stays(cache.pg, p)
    /\ job.step # "idle" => Stays(job.copy, p)
    /\ job.step \in {"clear", "write"} => job.next.pool = p
    /\ memo \in {<<>>, <<p>>}

\* Of a single node pool, it is the choice.
LEMMA SingleChoice ==
    ASSUME NEW p \in Pools, NEW g, g.label = p, NEW next \in Choices(g, <<p>>)
    PROVE  next.pool = p
<1> DEFINE list == <<p>>
           start == getInitialNodePoolAssignmentParams(g, list)
           k == IndexOfItemInList(list, start.pool)
           c == Cardinality(Unavailable(list, k))
           at == Wrap(list, k, c)
<1>1. Len(list) = 1 /\ list[1] = p /\ DOMAIN list = {1} /\ Range(list) = {p}
  BY DEF Range
<1>2. next.pool = list[at]
  <2> DEFINE new == [pool |-> list[at], mark |-> start.mark \/ (c > 0 /\ Marks(list, k, at)),
                     backoff |-> Len(list) > 1,
                     clear |-> Len(list) > 1 /\ g.last # None /\ list[at] = g.last]
  <2>1. next \in IF c = Len(list) \/ Phase(list[at]) = "Absent" \/ list[at] \notin Queued
                 THEN {} ELSE {new}
    BY ZenonT(30) DEF Choices
  <2> HIDE DEF at, c, k, start, list
  <2> QED BY <2>1
<1> HIDE DEF list
<1>3. start.pool = p
  <2>1. CASE g.last = None
    BY ZenonT(30), <1>1, <2>1 DEF getInitialNodePoolAssignmentParams
  <2>2. CASE g.last # None
    <3>1. IndexOfItemInList(list, g.last) \in {0, 1}
      BY <1>1 DEF IndexOfItemInList
    <3>2. Wrap(list, IndexOfItemInList(list, g.last), 1) = 1
      BY <1>1, <3>1 DEF Wrap
    <3> QED BY <1>1, <2>2, <3>2 DEF getInitialNodePoolAssignmentParams
  <2> QED BY ZenonT(30), <2>1, <2>2
<1>4. k = 1
  BY <1>1, <1>3 DEF IndexOfItemInList
<1>5. c \in 0..1
  <2> DEFINE U == Unavailable(list, k)
  <2>1. U \in SUBSET (0..1 - 1) /\ \A i \in U : 0..i \subseteq U
    BY <1>1 DEF Unavailable
  <2> HIDE DEF U
  <2>2. Cardinality(U) \in 0..1
    BY <2>1, Interval
  <2> QED BY ZenonT(30), <2>2 DEF U
<1> HIDE DEF k, c
<1>6. at = 1
  BY <1>1, <1>4, <1>5 DEF Wrap
<1> QED BY <1>1, <1>2, <1>6

\* A patch to its own node pool leaves it there.
LEMMA PatchStays ==
    ASSUME NEW p \in Pools, NEW live \in PodGroup, NEW from \in PodGroup, NEW next \in Params,
           Stays(live, p), Stays(from, p), next.pool = p
    PROVE  Stays(MergePatch(live, from, mutatePodGroupObjForAssignment(from, next)), p)
<1> DEFINE to == mutatePodGroupObjForAssignment(from, next)
           new == MergePatch(live, from, to)
<1>1. to.label = p /\ to.queue = p
  BY DEF mutatePodGroupObjForAssignment, PodGroup
<1> HIDE DEF to
<1>2. /\ new.label = IF from.label = to.label THEN live.label ELSE to.label
      /\ new.queue = IF from.queue = to.queue THEN live.queue ELSE to.queue
  BY DEF MergePatch, PodGroup
<1> HIDE DEF new
<1>3. Stays(new, p)
  BY <1>1, <1>2 DEF Stays
<1> QED BY <1>3 DEF new, to

\* It stays there in every step.
LEMMA FixedStep ==
    ASSUME NEW p \in Pools PROVE Typed /\ FixedInv(p) /\ [Next]_vars => FixedInv(p)'
<1> SUFFICES ASSUME Typed, FixedInv(p), [Next]_vars PROVE FixedInv(p)'
  OBVIOUS
<1> USE DEF FixedInv
<1>0. /\ source' = "none" /\ pg \in PodGroup /\ job.copy \in PodGroup /\ job.next \in Params
      /\ Idle.step = "idle"
  BY ZenonT(30), SourceFixed DEF Typed, Job, Idle
<1>1. CASE Reconcile
  <2>1. job' = [Idle EXCEPT !.step = "choose", !.copy = cache.pg] \/ job' = job
    BY ZenonT(30), <1>1 DEF Reconcile
  <2>2. /\ job'.step # "idle" => Stays(job'.copy, p)
        /\ job'.step \in {"clear", "write"} => job' = job
    BY ZenonT(30), <2>1 DEF Idle
  <2>3. UNCHANGED <<pg, cache, memo>>
    BY <1>1 DEF Reconcile, environment
  <2> QED BY <1>0, <2>2, <2>3
<1>2. CASE Choose
  <2>1. GetRequestedNodePools(job.copy) = <<p>>
    <3>1. job.copy.label = p /\ p # Sentinel
      BY ZenonT(30), <1>2, ConstantsAssumption DEF Choose, Stays
    <3>2. <<p>> # <<>>
      OBVIOUS
    <3> QED BY <3>1, <3>2 DEF GetRequestedNodePools
  <2>2. UNCHANGED <<pg, cache>> /\ memo' \in {<<>>, <<p>>}
    BY ZenonT(30), <1>2, <2>1 DEF Choose, environment
  <2>3. ASSUME NEW next \in Choices(job.copy, GetRequestedNodePools(job.copy)),
               job' = [job EXCEPT !.step = IF next.clear THEN "clear" ELSE "write", !.next = next]
        PROVE FixedInv(p)'
    <3>1. Stays(job.copy, p)
      BY ZenonT(30), <1>2 DEF Choose
    <3>2. next.pool = p
      BY <2>1, <3>1, SingleChoice DEF Stays
    <3>3. job'.copy = job.copy /\ job'.next = next
      BY ZenonT(30), <2>3 DEF Typed, Job
    <3> QED BY <1>0, <2>2, <3>1, <3>2, <3>3
  <2>4. CASE job' = Idle
    BY <1>0, <2>2, <2>4
  <2> QED BY ZenonT(30), <1>2, <2>3, <2>4 DEF Choose, Finish
<1>3. CASE ClearConditions
  <2>1. Stays([pg EXCEPT !.last = None], p)
    BY <1>0 DEF Stays, PodGroup
  <2>2. UNCHANGED <<cache, memo>> /\ Stays(pg', p)
    BY ZenonT(30), <1>3, <2>1 DEF ClearConditions, Write, environment
  <2>3. CASE job' = [job EXCEPT !.step = "write", !.copy = [pg EXCEPT !.last = None]]
    <3>1. job'.copy = [pg EXCEPT !.last = None] /\ job'.next = job.next
      BY <2>3 DEF Typed, Job
    <3> QED BY <1>0, <1>3, <2>1, <2>2, <3>1 DEF ClearConditions
  <2>4. CASE job' = Idle
    BY ZenonT(30), <1>0, <2>2, <2>4
  <2> QED BY <1>3, <2>3, <2>4 DEF ClearConditions, Finish
<1>4. CASE AssignPodGroup
  <2>1. UNCHANGED <<cache, memo>> /\ job' = Idle
    BY <1>4 DEF AssignPodGroup, environment, Finish
  <2>2. Stays(MergePatch(pg, job.copy, mutatePodGroupObjForAssignment(job.copy, job.next)), p)
    <3>1. Stays(pg, p) /\ Stays(job.copy, p) /\ job.next.pool = p
      BY <1>4 DEF AssignPodGroup
    <3> HIDE DEF FixedInv
    <3> QED BY ZenonT(30), <1>0, <3>1, PatchStays
  <2>3. Stays(pg', p)
    BY ZenonT(30), <1>4, <2>2 DEF AssignPodGroup, Write
  <2> QED BY ZenonT(30), <1>0, <2>1, <2>3
<1>5. CASE SyncPodGroup
  BY <1>0, <1>5 DEF SyncPodGroup, Typed
<1>6. CASE SyncPods \/ \E q \in Pools : SyncNodePool(q)
  <2>1. cache'.pg = cache.pg /\ UNCHANGED <<pg, job, memo>>
    BY ZenonT(30), <1>6 DEF SyncPods, SyncNodePool, Typed
  <2> QED BY <1>0, <2>1
<1>7. CASE Restart
  BY ZenonT(30), <1>0, <1>7 DEF Restart
<1>8. CASE ForgetLists \/ CreatePods \/ ChangePhase \/ \E q \in Pools : Pick(q) \/ Place(q)
  <2>1. UNCHANGED <<pg, job, cache>> /\ memo' \in {<<>>, memo}
    BY ZenonT(30), <1>8 DEF ForgetLists, CreatePods, ChangePhase, SetPhase, Pick, Place, assigner
  <2> QED BY <1>0, <2>1
<1>9. CASE EditPodGroup \/ DropConditions \/ \E q \in Pools : Refuse(q)
  <2>1. UNCHANGED <<job, cache, memo>>
    BY ZenonT(30), <1>9 DEF EditPodGroup, DropConditions, Refuse, assigner
  <2>2. \/ pg' = pg \/ pg' = [pg EXCEPT !.topology = User]
        \/ \E v : pg' = [pg EXCEPT !.last = v]
    BY <1>9, Zenon DEF EditPodGroup, DropConditions, Refuse, Write
  <2>3. Stays(pg', p)
    BY ZenonT(30), <1>0, <2>2 DEF Stays, PodGroup
  <2> QED BY <1>0, <2>1, <2>3
<1>10. CASE UNCHANGED vars
  BY <1>10 DEF vars
<1> QED BY ZenonT(30), <1>1, <1>2, <1>3, <1>4, <1>5, <1>6, <1>7, <1>8, <1>9, <1>10 DEF Next

\* A pod group that was created unassigned (mutatePodGroup put the sentinel on
\* it), or that names no node pool but the one of its label, is, once it has a
\* queue, always in the queue of the node pool it is in:
\* updatePodGroupWithAssignment never patches one without the other, however
\* stale its copy.
THEOREM QueueCorrect ==
    ASSUME \A w \in Workloads : w[2] = Sentinel \/ w[1] = "none"
    PROVE  Spec => []QueueFollowsPool
<1> DEFINE Inv == Typed /\ (AssignmentInv \/ \E p \in Pools : FixedInv(p))
<1>1. Init => Inv
  <2> SUFFICES ASSUME Init PROVE Inv
    OBVIOUS
  <2>1. PICK w \in Workloads : source = w[1] /\ pg = mutatePodGroup(w[2])
    BY ZenonT(30) DEF Init
  <2>2. CASE w[2] = Sentinel
    BY <2>1, <2>2, NewAgrees, TypedInit DEF Init, AssignmentInv, Idle
  <2>3. CASE w[2] # Sentinel
    <3>1. w[1] = "none" /\ w[2] \in Pools
      BY ZenonT(30), <2>3, ConstantsAssumption
    <3>2. FixedInv(w[2])
      BY <2>1, <3>1 DEF Init, FixedInv, Stays, Idle, mutatePodGroup
    <3> QED BY <3>1, <3>2, TypedInit
  <2> QED BY <2>2, <2>3
<1>2. Inv /\ [Next]_vars => Inv'
  BY ZenonT(30), TypedStep, StepInv, FixedStep
<1>3. Inv => QueueFollowsPool
  BY DEF AssignmentInv, Agrees, QueueFollowsPool, FixedInv, Stays
<1> QED BY <1>1, <1>2, <1>3, PTL DEF Spec

-----------------------------------------------------------------------------
(* The remembered lists.                                                   *)

\* A nonempty set of numbers has a least one.
LEMMA Least ==
    ASSUME NEW T, T \subseteq Nat, T # {}
    PROVE  \E m \in T : \A k \in T : m <= k
<1> DEFINE R == {ss \in Nat \X Nat : ss[1] < ss[2]}
<1>1. OpToRel(<, Nat) = R
  BY DEF OpToRel
<1>2. IsWellFoundedOn(R, Nat)
  BY <1>1, NatLessThanWellFounded
<1> HIDE DEF R
<1>3. PICK m \in T : \A k \in T : ~(<<k, m>> \in R)
  BY ZenonT(30), <1>2, WFMin
<1>4. ASSUME NEW k \in T PROVE m <= k
  <2>1. <<k, m>> \notin R /\ k \in Nat /\ m \in Nat
    BY <1>3
  <2>2. k < m => <<k, m>> \in R
    BY <2>1 DEF R
  <2> QED BY <2>1, <2>2
<1> QED BY <1>3, <1>4

\* What holds of 0, and of a number's successor up to n, holds up to n.
LEMMA UpTo ==
    ASSUME NEW n \in Nat, NEW T, 0 \in T, \A m \in 0..n - 1 : m \in T => m + 1 \in T
    PROVE  \A m \in 0..n : m \in T
<1> DEFINE U == {m \in 0..n : m \notin T}
<1>1. SUFFICES ASSUME U # {} PROVE FALSE
  OBVIOUS
<1>2. U \subseteq Nat
  OBVIOUS
<1>3. PICK m \in U : \A k \in U : m <= k
  <2> HIDE DEF U
  <2> QED BY <1>1, <1>2, Least
<1>4. m # 0
  BY <1>3
<1>5. m - 1 \in 0..n - 1 /\ m - 1 \notin U
  BY <1>3, <1>4
<1>6. m - 1 \in T
  BY <1>5
<1>7. (m - 1) + 1 \in T
  BY <1>5, <1>6
<1>8. (m - 1) + 1 = m /\ m \notin T
  BY <1>3
<1> QED BY <1>7, <1>8

\* What one more requested node pool makes of the list.
Adds(list, p) ==
    IF p = Default \/ cache.pools[p] \notin {"Deleting", "Absent"} THEN Append(list, p) ELSE list

\* The lists that the first n requested node pools make, one after the other.
IsNames(f, n) == f = [m \in 0..n |-> IF m = 0 THEN <<>> ELSE Adds(f[m - 1], Requested[m])]

\* There are such lists.
LEMMA NamesExist == ASSUME NEW n \in Nat PROVE \E f : IsNames(f, n)
<1> DEFINE T == {m \in Nat : \E f : IsNames(f, m)}
<1>1. 0 \in T
  <2> DEFINE f == [m \in 0..0 |-> <<>>]
  <2>1. f = [m \in 0..0 |-> IF m = 0 THEN <<>> ELSE Adds(f[m - 1], Requested[m])]
    OBVIOUS
  <2> QED BY ZenonT(30), <2>1 DEF IsNames
<1>2. ASSUME NEW m \in 0..n - 1, m \in T PROVE m + 1 \in T
  <2>1. PICK f : IsNames(f, m)
    BY <1>2
  <2> DEFINE g == [k \in 0..m + 1 |-> IF k = 0 THEN <<>> ELSE Adds(f[k - 1], Requested[k])]
  <2>2. \A k \in 0..m : f[k] = (IF k = 0 THEN <<>> ELSE Adds(f[k - 1], Requested[k]))
    BY <2>1 DEF IsNames
  <2>3. \A k \in 0..m : g[k] = f[k]
    BY <2>2
  <2>4. ASSUME NEW k \in 0..m + 1
        PROVE  g[k] = (IF k = 0 THEN <<>> ELSE Adds(g[k - 1], Requested[k]))
    <3>1. CASE k = 0
      BY <3>1
    <3>2. CASE k # 0
      <4>1. k - 1 \in 0..m
        BY <3>2
      <4>2. g[k - 1] = f[k - 1]
        BY <2>3, <4>1
      <4> QED BY <3>2, <4>2
    <3> QED BY <3>1, <3>2
  <2>5. g = [k \in 0..m + 1 |-> IF k = 0 THEN <<>> ELSE Adds(g[k - 1], Requested[k])]
    <3>1. DOMAIN g = 0..m + 1 /\ g = [k \in 0..m + 1 |-> g[k]]
      OBVIOUS
    <3> HIDE DEF g
    <3> QED BY ZenonT(30), <2>4, <3>1
  <2> HIDE DEF g
  <2> QED BY <2>5 DEF IsNames
<1> HIDE DEF T
<1>3. n \in T
  BY <1>1, <1>2, UpTo
<1> QED BY <1>3 DEF T

\* The list made from the affinity has the type of a list, unless it is empty.
LEMMA AffinityTyped == FromAffinity \in Lists \cup {<<>>}
<1> DEFINE names == CHOOSE f : IsNames(f, N)
           T == {m \in 0..N : names[m] \in Seq(Pools) /\ Len(names[m]) <= m}
<1>1. N \in Nat /\ N > 0 /\ \A i \in 1..N : Requested[i] \in Pools
  BY RequestedIs
<1>2. FromAffinity = names[N]
  BY DEF FromAffinity, IsNames, Adds, N
<1>3. IsNames(names, N)
  BY <1>1, NamesExist
<1> HIDE DEF names
<1>4. \A m \in 0..N : names[m] = IF m = 0 THEN <<>> ELSE Adds(names[m - 1], Requested[m])
  BY ZenonT(30), <1>3 DEF IsNames
<1>5. 0 \in T
  <2>1. names[0] = <<>> /\ 0 \in 0..N
    BY <1>1, <1>4
  <2>2. <<>> \in Seq(Pools) /\ Len(<<>>) <= 0
    OBVIOUS
  <2> QED BY <2>1, <2>2
<1>6. ASSUME NEW m \in 0..N - 1, m \in T PROVE m + 1 \in T
  <2>1. m + 1 \in 1..N /\ m + 1 \in 0..N /\ (m + 1) - 1 = m
    BY <1>1
  <2>2. names[m + 1] = Adds(names[m], Requested[m + 1]) /\ Requested[m + 1] \in Pools
    BY <1>1, <1>4, <2>1
  <2>3. names[m] \in Seq(Pools) /\ Len(names[m]) <= m
    BY <1>6
  <2>4. names[m + 1] \in Seq(Pools) /\ Len(names[m + 1]) <= m + 1
    BY <2>2, <2>3 DEF Adds
  <2> QED BY <2>1, <2>4
<1> HIDE DEF T
<1>7. N \in T
  BY <1>1, <1>5, <1>6, UpTo
<1>8. names[N] \in Seq(Pools) /\ Len(names[N]) \in 0..N
  BY <1>1, <1>7 DEF T
<1>9. CASE Len(names[N]) = 0
  BY <1>2, <1>8, <1>9
<1>10. CASE Len(names[N]) # 0
  <2>1. names[N] \in [1..Len(names[N]) -> Pools] /\ Len(names[N]) \in 1..N
    BY <1>1, <1>8, <1>10
  <2> QED BY <1>2, <2>1 DEF Lists, N
<1> QED BY <1>9, <1>10

\* What is asked for is a list of node pools.
LEMMA RequestedTyped ==
    ASSUME memo \in Lists \cup {<<>>}, NEW g \in PodGroup
    PROVE  GetRequestedNodePools(g) \in Lists
<1>1. N \in Nat /\ N > 0 /\ Requested \in [1..N -> Pools]
  BY RequestedIs, ConstantsAssumption DEF N
<1>2. Requested \in Lists
  <2>1. N \in 1..N
    BY <1>1
  <2> QED BY <1>1, <2>1 DEF Lists, N
<1> DEFINE p == IF g.label = Sentinel THEN Default ELSE g.label
<1>3. <<p>> \in Lists
  <2>1. p \in Pools
    BY ConstantsAssumption DEF PodGroup
  <2> HIDE DEF p
  <2>2. <<p>> \in [1..1 -> Pools] /\ 1 \in 1..N
    BY <1>1, <2>1
  <2> QED BY <2>2 DEF Lists, N
<1> HIDE DEF p
<1>4. GetRequestedNodePools(g) \in {memo, Requested, FromAffinity, <<p>>}
      /\ (GetRequestedNodePools(g) = <<>> => <<>> \in {Requested, <<p>>})
  BY <1>2 DEF GetRequestedNodePools, p
<1>5. <<>> \notin {Requested, <<p>>}
  BY ConstantsAssumption
<1> QED BY <1>2, <1>3, <1>4, <1>5, AffinityTyped

\* What a choice passes over are node pools.
LEMMA PassedTyped ==
    ASSUME NEW g, NEW list \in Lists
    PROVE  Passed(g, list) \subseteq Pools
<1> DEFINE start == getInitialNodePoolAssignmentParams(g, list).pool
           k == IndexOfItemInList(list, start)
<1>1. PICK n \in 1..Len(Requested) : list \in [1..n -> Pools]
  BY DEF Lists
<1>2. n \in Nat /\ n > 0 /\ Len(list) = n
  BY <1>1, RequestedIs DEF N
<1> HIDE DEF start
<1>3. k \in 0..n
  <2>1. CASE start \notin Range(list)
    BY <1>2, <2>1 DEF IndexOfItemInList
  <2>2. CASE start \in Range(list)
    <3> DEFINE T == {i \in 1..n : list[i] = start}
    <3>1. T \subseteq Nat /\ T # {}
      BY <1>1, <1>2, <2>2 DEF Range
    <3>2. PICK i \in T : \A j \in T : i <= j
      <4> HIDE DEF T
      <4> QED BY ZenonT(30), <3>1, Least
    <3>3. i \in DOMAIN list /\ list[i] = start /\ \A j \in 1..i - 1 : list[j] # start
      BY <1>1, <1>2, <3>2
    <3>4. k \in DOMAIN list
      BY <2>2, <3>3 DEF IndexOfItemInList
    <3> QED BY <1>1, <1>2, <3>4
  <2> QED BY <2>1, <2>2
<1> HIDE DEF k
<1>4. ASSUME NEW i \in Unavailable(list, k) PROVE list[Wrap(list, k, i)] \in Pools
  <2>1. i \in 0..n - 1
    BY <1>2 DEF Unavailable
  <2> DEFINE a == k - 1 + i
  <2>2. a \in Int
    BY <1>3, <2>1
  <2> HIDE DEF a
  <2>3. a % n \in 0..n - 1
    BY <1>2, <2>2
  <2>4. (a % n) + 1 \in 1..n
    BY <1>2, <2>3
  <2>5. Wrap(list, k, i) = (a % n) + 1
    BY <1>2 DEF Wrap, a
  <2> QED BY <1>1, <2>4, <2>5
<1> QED BY <1>4 DEF Passed, k, start

\* Every variable of the assigner keeps its type, the remembered list included.
LEMMA ListsStep ==
    ASSUME Typed, memo \in Lists \cup {<<>>}, tried \in SUBSET Pools, [Next]_vars
    PROVE  memo' \in Lists \cup {<<>>} /\ tried' \in SUBSET Pools
<1>1. CASE Choose
  <2> DEFINE list == GetRequestedNodePools(job.copy)
  <2>1. list \in Lists
    BY RequestedTyped DEF Typed, Job
  <2> HIDE DEF list
  <2>2. Passed(job.copy, list) \subseteq Pools
    BY <2>1, PassedTyped
  <2>3. (memo' = memo \/ memo' = list) /\ (tried' = tried \/ tried' = tried \cup Passed(job.copy, list))
    BY ZenonT(30), <1>1 DEF Choose, list
  <2> QED BY <2>1, <2>2, <2>3
<1>2. CASE AssignPodGroup
  <2>1. pg' \in PodGroup
    BY TypedStep DEF Typed
  <2>2. memo' = memo /\ tried' = tried \cup ({pg'.label} \ {Sentinel})
    BY ZenonT(30), <1>2 DEF AssignPodGroup
  <2>3. pg'.label \in Pools \cup {Sentinel}
    BY <2>1 DEF PodGroup
  <2> QED BY <2>2, <2>3
<1>3. CASE ForgetLists \/ Restart
  BY ZenonT(30), <1>3 DEF ForgetLists, Restart
<1>4. CASE \/ Reconcile \/ ClearConditions \/ SyncPodGroup \/ SyncPods \/ CreatePods
           \/ EditPodGroup \/ DropConditions
  BY ZenonT(30), <1>4 DEF Reconcile, ClearConditions, SyncPodGroup, SyncPods, CreatePods, EditPodGroup,
     DropConditions, assigner
<1>5. CASE ChangePhase
  <2>1. memo' = memo /\ tried' = tried
    BY <1>5 DEF ChangePhase, SetPhase, assigner
  <2> QED BY <2>1
<1>6. ASSUME NEW p \in Pools, SyncNodePool(p) \/ Pick(p) \/ Refuse(p) \/ Place(p)
      PROVE  memo' = memo /\ tried' = tried
  BY ZenonT(30), <1>6 DEF SyncNodePool, Pick, Refuse, Place, assigner
<1>7. CASE UNCHANGED vars
  BY <1>7 DEF vars
<1> QED BY ZenonT(30), <1>1, <1>2, <1>3, <1>4, <1>5, <1>6, <1>7 DEF Next

\* The variables of the assigner always have their types: what it chooses is a
\* node pool, never the sentinel, and the lists it remembers are lists of node
\* pools.
THEOREM TypeCorrect == Spec => []TypeOK
<1> DEFINE Inv == Typed /\ memo \in Lists \cup {<<>>} /\ tried \in SUBSET Pools
<1>1. Init => Inv
  BY TypedInit DEF Init
<1>2. Inv /\ [Next]_vars => Inv'
  BY ZenonT(30), TypedStep, ListsStep
<1>3. Inv => TypeOK
  BY DEF Typed, TypeOK
<1> QED BY <1>1, <1>2, <1>3, PTL DEF Spec
===========================================================================
