--------------------------- MODULE GitHub_proofs ---------------------------
(***************************************************************************)
(* For every set of requests, features and phases and every peer.  Seen    *)
(* from the roadmap, a step either leaves the published features and the   *)
(* issues of features alone, or puts back a document, or publishes the     *)
(* next feature: what is published has an issue, unless a client made it   *)
(* up, and one, unless the record of it was lost.  Then the types, and     *)
(* what a request knows while nothing else runs, from which the properties *)
(* of issues, cards and phases follow.                                     *)
(***************************************************************************)
EXTENDS GitHubProperties, FiniteSetTheorems, TLAPS

-----------------------------------------------------------------------------
(* The inductive invariants. *)

IsDoc(d) == DOMAIN d = {"phases", "features", "published"}

Notes == {"disturbed", "left", "unrecorded", "claimed"}

Fields == {"op", "task", "number", "meta", "adopt", "column", "card", "feature",
           "phase", "forTask", "doc", "tried"}

\* Labels of a request that will write the roadmap, or has it to write.
DocLabels == {"doc.read", "doc.write", "boot.read", "boot.write", "assign.call",
              "milestone.task"}
DocOps == {"discovery", "features", "competitor", "client", "assign", "unassign",
           "card", "feature"}
CardLabels == {"edit.write", "card.call", "card.record"}
Taken == {"doc.write", "boot.write", "publish.next"}

\* What a request holds, at its label.
HoldsOK(l, at) ==
  /\ DOMAIN l = Fields
  /\ IsDoc(l.doc)
  /\ at = "idle" => l = Fresh
  /\ at \in DocLabels => l.op \in DocOps
  /\ at \in CardLabels => l.op \in {"card", "feature"} \/ l.feature = None

IssuesOK(iss) ==
  /\ \E n \in Nat : DOMAIN iss = 1..n
  /\ \A n \in DOMAIN iss : DOMAIN iss[n] = {"title", "state", "milestone", "of"}

Shape ==
  /\ IssuesOK(issues) /\ IsDoc(roadmap)
  /\ DOMAIN history = Notes
  /\ DOMAIN pc = Requests /\ DOMAIN loc = Requests
  /\ \A r \in Requests : HoldsOK(loc[r], pc[r])

HasIssue(f) == \E n \in DOMAIN issues : issues[n].of = f

Grounded(f) == HasIssue(f) \/ f \in history.claimed

\* Every document a request holds names published features with an issue, or
\* what some client claimed.
PublishedInv ==
  /\ \A f \in roadmap.published : Grounded(f)
  /\ \A r \in Requests : \A f \in loc[r].doc.published : Grounded(f)

\* Undisturbed, one request is under way, and the issues of features are those
\* the roadmap or its publisher knows, one each, or on no record.
SingleInv ==
  ~history.disturbed =>
    /\ \A r, q \in Requests : Busy(r) /\ Busy(q) => r = q
    /\ \A n, k \in DOMAIN issues :
         issues[n].of = issues[k].of /\ issues[n].of \notin {None} \cup history.unrecorded => n = k
    /\ \A n \in DOMAIN issues :
         \/ issues[n].of \in {None} \cup history.unrecorded
         \/ issues[n].of \in roadmap.published
         \/ \E r \in Requests : pc[r] = "publish.next" /\ issues[n].of \in loc[r].doc.published
    /\ \A r \in Requests : pc[r] \in Taken => roadmap.published \subseteq loc[r].doc.published

-----------------------------------------------------------------------------
(* What a step of a request is, seen from the roadmap. *)

Frame(r) ==
  /\ DOMAIN pc' = Requests /\ DOMAIN loc' = Requests
  /\ \A q \in Requests \ {r} : pc'[q] = pc[q] /\ loc'[q] = loc[q]

IssuesKept ==
  \A n \in DOMAIN issues : n \in DOMAIN issues' /\ issues'[n].of = issues[n].of

Aside(r) ==
  /\ \A n \in DOMAIN issues' \ DOMAIN issues : issues'[n].of = None
  /\ roadmap'.published = roadmap.published
  /\ pc[r] # "publish.next"
  /\ loc'[r].doc.published \in {loc[r].doc.published, roadmap.published, {}}
  /\ pc'[r] \in Taken => loc'[r].doc.published = roadmap.published

\* The document goes back, or a client's does, or what was published is lost.
Writes(r) ==
  /\ issues' = issues
  /\ pc[r] \in Taken /\ pc'[r] \notin Taken
  /\ \/ roadmap'.published = loc[r].doc.published
     \/ /\ pc[r] # "publish.next"
        /\ roadmap.published \ roadmap'.published \subseteq history'.unrecorded
        /\ roadmap'.published \ loc[r].doc.published \subseteq history'.claimed
     \/ /\ roadmap' = roadmap
        /\ loc[r].doc.published \ roadmap.published \subseteq history'.unrecorded
  /\ loc'[r].doc.published \in {loc[r].doc.published, {}}

Publishes(r) ==
  /\ pc[r] = "publish.next" /\ pc'[r] = "publish.next"
  /\ roadmap' = roadmap
  /\ \/ issues' = issues /\ loc'[r].doc = loc[r].doc
     \/ \E f, n : /\ f \notin loc[r].doc.published
                  /\ n \notin DOMAIN issues
                  /\ DOMAIN issues' = DOMAIN issues \cup {n} /\ issues'[n].of = f
                  /\ \/ loc'[r].doc.published = loc[r].doc.published \cup {f}
                     \/ /\ loc'[r].doc.published = loc[r].doc.published
                        /\ f \in history'.unrecorded

\* Overlaps, losses and claims are noted, and stay noted.
Noted(r) ==
  /\ DOMAIN history' = Notes
  /\ history.disturbed => history'.disturbed
  /\ history.unrecorded \subseteq history'.unrecorded
  /\ history.claimed \subseteq history'.claimed
  /\ ~Busy(r) /\ (\E q \in Requests : Busy(q)) => history'.disturbed

Step(r) ==
  /\ Frame(r) /\ Noted(r)
  /\ IssuesOK(issues') /\ IssuesKept
  /\ IsDoc(roadmap') /\ HoldsOK(loc'[r], pc'[r])
  /\ Aside(r) \/ Writes(r) \/ Publishes(r)

LEMMA StepShape ==
  ASSUME Shape, NEW r \in Requests, Step(r)
  PROVE  Shape'
<1>1. \A q \in Requests : HoldsOK(loc'[q], pc'[q])
  BY DEF Step, Frame, Shape
<1> QED BY <1>1 DEF Step, Frame, Noted, Shape, IsDoc

LEMMA StepPublished ==
  ASSUME Shape, PublishedInv, NEW r \in Requests, Step(r)
  PROVE  PublishedInv'
<1>1. ASSUME NEW f, Grounded(f) PROVE Grounded(f)'
  BY <1>1 DEF Grounded, HasIssue, Step, IssuesKept, Noted
<1>2. \A q \in Requests \ {r} : \A f \in loc'[q].doc.published : Grounded(f)'
  BY <1>1 DEF Step, Frame, PublishedInv
<1>3. /\ \A f \in roadmap'.published : Grounded(f)'
      /\ \A f \in loc'[r].doc.published : Grounded(f)'
  <2>1. CASE Aside(r)
    BY <1>1, <2>1 DEF Aside, PublishedInv
  <2>2. CASE Writes(r)
    <3>1. \A f \in roadmap.published \cup loc[r].doc.published : Grounded(f)'
      BY <1>1 DEF PublishedInv
    <3>2. \A f \in history'.claimed : Grounded(f)'
      BY DEF Grounded
    <3> QED BY <2>2, <3>1, <3>2 DEF Writes
  <2>3. CASE Publishes(r)
    <3>1. \A f \in roadmap'.published : Grounded(f)'
      BY <1>1, <2>3 DEF Publishes, PublishedInv
    <3>2. \A f \in loc[r].doc.published : Grounded(f)'
      BY <1>1 DEF PublishedInv
    <3>3. ASSUME NEW f \in loc'[r].doc.published, f \notin loc[r].doc.published
          PROVE  Grounded(f)'
      BY <2>3, <3>3 DEF Publishes, HasIssue, Grounded
    <3> QED BY <3>1, <3>2, <3>3
  <2> QED BY <2>1, <2>2, <2>3 DEF Step
<1> QED BY <1>2, <1>3 DEF PublishedInv

LEMMA StepSingle ==
  ASSUME Shape, SingleInv, NEW r \in Requests, Step(r)
  PROVE  SingleInv'
<1> SUFFICES ASSUME ~history'.disturbed PROVE SingleInv'
  BY DEF SingleInv
<1>1. ~history.disturbed
  BY DEF Step, Noted
<1>2. \A q \in Requests \ {r} : ~Busy(q)
  BY <1>1 DEF SingleInv, Step, Noted
<1>3. \A q \in Requests \ {r} : pc'[q] = pc[q] /\ pc'[q] \notin Taken
  BY <1>2 DEF Step, Frame, Busy, Taken
<1>4. \A p, q \in Requests : Busy(p)' /\ Busy(q)' => p = q
  BY <1>2, <1>3 DEF Busy
<1> DEFINE Exempt == {None} \cup history'.unrecorded
<1>5. /\ \A n \in DOMAIN issues :
           \/ issues[n].of \in Exempt
           \/ issues[n].of \in roadmap.published
           \/ pc[r] = "publish.next" /\ issues[n].of \in loc[r].doc.published
      /\ \A n, k \in DOMAIN issues : issues[n].of = issues[k].of /\ issues[n].of \notin Exempt => n = k
      /\ pc[r] \in Taken => roadmap.published \subseteq loc[r].doc.published
  <2>1. {None} \cup history.unrecorded \subseteq Exempt
    BY DEF Step, Noted
  <2> HIDE DEF Exempt
  <2> QED BY <1>1, <1>3, <2>1 DEF SingleInv, Step, Frame, Taken
<1>6. IssuesKept /\ None \in Exempt
  BY DEF Step
<1> DEFINE Accounted(f) == \/ f \in Exempt
                           \/ f \in roadmap'.published
                           \/ pc'[r] = "publish.next" /\ f \in loc'[r].doc.published
<1>7. /\ \A n \in DOMAIN issues' : Accounted(issues'[n].of)
      /\ \A n, k \in DOMAIN issues' : issues'[n].of = issues'[k].of /\ issues'[n].of \notin Exempt => n = k
      /\ pc'[r] \in Taken => roadmap'.published \subseteq loc'[r].doc.published
  <2>1. CASE Aside(r)
    <3> HIDE DEF Exempt
    <3> QED BY <1>5, <1>6, <2>1 DEF Aside, IssuesKept
  <2>2. CASE Writes(r)
    <3>1. \A f : f \in roadmap.published \/ (pc[r] = "publish.next" /\ f \in loc[r].doc.published)
                => Accounted(f)
      BY <1>5, <2>2 DEF Writes
    <3> HIDE DEF Exempt
    <3>2. \A n \in DOMAIN issues : Accounted(issues[n].of)
      BY <1>5, <3>1
    <3> QED BY <1>5, <2>2, <3>2 DEF Writes
  <2>3. CASE Publishes(r)
    <3>1. CASE issues' = issues /\ loc'[r].doc = loc[r].doc
      <4> HIDE DEF Exempt
      <4> QED BY <1>5, <2>3, <3>1 DEF Publishes
    <3>2. CASE ~(issues' = issues /\ loc'[r].doc = loc[r].doc)
      <4>1. PICK f, n : /\ f \notin loc[r].doc.published
                        /\ n \notin DOMAIN issues
                        /\ DOMAIN issues' = DOMAIN issues \cup {n} /\ issues'[n].of = f
                        /\ \/ loc'[r].doc.published = loc[r].doc.published \cup {f}
                           \/ loc'[r].doc.published = loc[r].doc.published /\ f \in Exempt
        BY <2>3, <3>2 DEF Publishes
      <4> HIDE DEF Exempt
      <4>2. pc[r] = "publish.next" /\ pc'[r] = "publish.next" /\ roadmap' = roadmap
        BY <2>3 DEF Publishes
      <4>3. roadmap.published \subseteq loc[r].doc.published
        BY <1>5, <4>2 DEF Taken
      <4>4. \A k \in DOMAIN issues : issues[k].of # f \/ f \in Exempt
        BY <1>5, <4>1, <4>3
      <4>5. \A k \in DOMAIN issues : k # n /\ issues'[k].of = issues[k].of
        BY <1>6, <4>1 DEF IssuesKept
      <4>6. \A k \in DOMAIN issues' : Accounted(issues'[k].of)
        BY <1>5, <4>1, <4>2, <4>5
      <4>7. \A k, m \in DOMAIN issues' :
              issues'[k].of = issues'[m].of /\ issues'[k].of \notin Exempt => k = m
        BY <1>5, <4>1, <4>4, <4>5
      <4> QED BY <4>1, <4>2, <4>3, <4>6, <4>7
    <3> QED BY <3>1, <3>2
  <2> QED BY <2>1, <2>2, <2>3 DEF Step
<1> QED BY <1>3, <1>4, <1>7 DEF SingleInv, Taken

-----------------------------------------------------------------------------
(* What the pieces of an action do. *)

LEMMA WithFields ==
  ASSUME NEW t, NEW fields
  PROVE  /\ DOMAIN With(t, fields) = DOMAIN t
         /\ \A f \in DOMAIN t :
              With(t, fields)[f] = IF f \in DOMAIN fields THEN fields[f] ELSE t[f]
BY DEF With

LEMMA FreshOK ==
  ASSUME NEW at, at \notin DocLabels
  PROVE  /\ HoldsOK(Fresh, at) /\ Fresh.doc = NoRoadmap /\ NoRoadmap.published = {}
         /\ Fresh.feature = None /\ DOMAIN Fresh = Fields
BY DEF HoldsOK, Fresh, Fields, IsDoc, NoRoadmap

LEMMA LeaveFacts ==
  ASSUME Shape, NEW r \in Requests, Leave(r)
  PROVE  /\ Frame(r) /\ pc'[r] = "done" /\ HoldsOK(loc'[r], pc'[r])
         /\ loc'[r].doc.published = {}
<1>1. Frame(r) /\ pc'[r] = "done" /\ loc'[r] = Fresh
  BY DEF Leave, Go, Frame, Shape
<1> QED BY <1>1, FreshOK DEF DocLabels

LEMMA GoFacts ==
  ASSUME Shape, NEW r \in Requests, NEW at, Go(r, at), UNCHANGED loc
  PROVE  Frame(r) /\ pc'[r] = at /\ loc'[r] = loc[r] /\ HoldsOK(loc[r], pc[r])
BY DEF Go, Frame, Shape

LEMMA KeepFacts ==
  ASSUME Shape, NEW r \in Requests, NEW at, NEW fields, Go(r, at), Keep(r, fields)
  PROVE  /\ Frame(r) /\ pc'[r] = at /\ HoldsOK(loc[r], pc[r])
         /\ DOMAIN loc'[r] = Fields /\ DOMAIN loc[r] = Fields
         /\ \A f \in Fields : loc'[r][f] = IF f \in DOMAIN fields THEN fields[f] ELSE loc[r][f]
<1>1. Frame(r) /\ pc'[r] = at /\ loc'[r] = With(loc[r], fields)
  BY DEF Go, Keep, Frame, Shape
<1>2. HoldsOK(loc[r], pc[r]) /\ DOMAIN loc[r] = Fields
  BY DEF Shape, HoldsOK
<1> QED BY <1>1, <1>2, WithFields

LEMMA BeginFacts ==
  ASSUME Shape, NEW r \in Requests, NEW kind, Begin(r, kind)
  PROVE  /\ pc[r] = "idle" /\ loc[r] = Fresh /\ ~Busy(r) /\ Noted(r)
<1>1. pc[r] = "idle"
  BY DEF Begin, May, At
<1>2. loc[r] = Fresh
  BY <1>1 DEF Shape, HoldsOK
<1> QED BY <1>1, <1>2 DEF Begin, Disturb, Noted, Notes, Shape, Busy

\* What a request under way may note.
NotesOn ==
  \/ UNCHANGED history \/ Disturb(TRUE)
  \/ \E gone : LetGo(gone)
  \/ \E fs : Unrecorded(fs)
  \/ \E l, old, new : history' = Overwritten(l, old, new)

LEMMA NotedInside ==
  ASSUME Shape, NEW r \in Requests, Busy(r), NotesOn
  PROVE  Noted(r)
BY DEF Noted, Notes, NotesOn, Shape, Disturb, LetGo, Unrecorded, Overwritten

\* Issues that only change their fields, or one more that is no feature's.
LEMMA IssuesSame ==
  ASSUME Shape, issues' = issues
  PROVE  /\ IssuesOK(issues') /\ IssuesKept
         /\ \A n \in DOMAIN issues' \ DOMAIN issues : issues'[n].of = None
BY DEF Shape, IssuesKept

LEMMA IssuesExtended ==
  ASSUME Shape, NEW n, n = Cardinality(DOMAIN issues) + 1, NEW title, NEW state,
         NEW milestone, NEW of, issues' = Extend(issues, n, Issue(title, state, milestone, of))
  PROVE  /\ IssuesOK(issues') /\ IssuesKept
         /\ n \notin DOMAIN issues /\ DOMAIN issues' = DOMAIN issues \cup {n}
         /\ issues'[n].of = of
<1>1. PICK m \in Nat : DOMAIN issues = 1..m
  BY DEF Shape, IssuesOK
<1>2. Cardinality(DOMAIN issues) = m
  BY <1>1, FS_Interval
<1>3. n = m + 1 /\ DOMAIN issues' = 1..n
  BY <1>1, <1>2 DEF Extend
<1>4. /\ issues'[n] = Issue(title, state, milestone, of)
      /\ \A k \in DOMAIN issues : issues'[k] = issues[k]
  BY <1>1, <1>3 DEF Extend
<1>5. issues'[n].of = of /\ DOMAIN issues'[n] = {"title", "state", "milestone", "of"}
  BY <1>4 DEF Issue
<1>6. n \notin DOMAIN issues /\ DOMAIN issues' = DOMAIN issues \cup {n} /\ n \in Nat
  <2>1. n \in Nat /\ n = m + 1
    BY <1>3
  <2>2. 1..n = (1..m) \cup {n} /\ n \notin 1..m
    BY <2>1
  <2> QED BY <1>1, <1>3, <2>1, <2>2
<1>7. \A k \in DOMAIN issues : DOMAIN issues[k] = {"title", "state", "milestone", "of"}
  BY DEF Shape, IssuesOK
<1>8. \A k \in DOMAIN issues' : DOMAIN issues'[k] = {"title", "state", "milestone", "of"}
  BY <1>4, <1>5, <1>6, <1>7
<1>9. IssuesOK(issues')
  BY <1>3, <1>6, <1>8 DEF IssuesOK
<1> QED BY <1>4, <1>5, <1>6, <1>9 DEF IssuesKept

\* A step that leaves the roadmap and the published features of its document.
LEMMA AsideStep ==
  ASSUME Shape, NEW r \in Requests, Frame(r), Noted(r), IssuesOK(issues'), IssuesKept,
         \A n \in DOMAIN issues' \ DOMAIN issues : issues'[n].of = None,
         roadmap' = roadmap, pc[r] # "publish.next", pc'[r] \notin Taken,
         HoldsOK(loc'[r], pc'[r]),
         loc'[r].doc.published \in {loc[r].doc.published, roadmap.published, {}}
  PROVE  Step(r)
BY DEF Step, Aside, Shape

\* What begins and ends in one step touches nothing here.
LEMMA OneStep ==
  ASSUME Shape, NEW r \in Requests, Noted(r), pc[r] = "idle", Leave(r),
         issues' = issues, roadmap' = roadmap
  PROVE  Step(r)
BY LeaveFacts, IssuesSame, AsideStep DEF Taken

\* A request that begins by taking note of the task and of what it is asked.
LEMMA AskStep ==
  ASSUME Shape, NEW r \in Requests, NEW kind, Begin(r, kind), issues' = issues,
         roadmap' = roadmap, NEW at, at \notin Taken \cup {"idle"}, Go(r, at),
         NEW fields, Keep(r, fields), "doc" \notin DOMAIN fields,
         at \in DocLabels => "op" \in DOMAIN fields /\ fields["op"] \in DocOps,
         at \in CardLabels => \/ "feature" \notin DOMAIN fields
                              \/ "op" \in DOMAIN fields /\ fields["op"] \in {"card", "feature"}
  PROVE  Step(r)
<1>1. pc[r] = "idle" /\ loc[r] = Fresh /\ Noted(r)
  BY BeginFacts
<1>2. /\ Frame(r) /\ pc'[r] = at /\ DOMAIN loc'[r] = Fields
      /\ \A f \in Fields : loc'[r][f] = IF f \in DOMAIN fields THEN fields[f] ELSE loc[r][f]
  BY KeepFacts
<1>3. Fresh.doc = NoRoadmap /\ IsDoc(NoRoadmap) /\ NoRoadmap.published = {} /\ Fresh.feature = None
  BY DEF Fresh, NoRoadmap, IsDoc
<1>4. loc'[r].doc = NoRoadmap
  BY <1>1, <1>2, <1>3 DEF Fields
<1>5. HoldsOK(loc'[r], pc'[r])
  BY <1>1, <1>2, <1>3, <1>4 DEF HoldsOK, Fields
<1> QED BY <1>1, <1>2, <1>3, <1>4, <1>5, IssuesSame, AsideStep

\* A request under way that goes on with the same document.
LEMMA OnStep ==
  ASSUME Shape, NEW r \in Requests, pc[r] \notin {"idle", "done", "dead", "publish.next"},
         NotesOn, IssuesOK(issues'), IssuesKept,
         \A n \in DOMAIN issues' \ DOMAIN issues : issues'[n].of = None,
         roadmap' = roadmap, NEW at, at \notin Taken \cup {"idle"}, Go(r, at),
         \/ UNCHANGED loc
         \/ \E fields : Keep(r, fields) /\ DOMAIN fields \cap {"op", "doc", "feature"} = {},
         at \in DocLabels => loc[r].op \in DocOps,
         at \in CardLabels => loc[r].op \in {"card", "feature"} \/ loc[r].feature = None
  PROVE  Step(r)
<1>1. Noted(r)
  BY NotedInside DEF Busy
<1>2. /\ Frame(r) /\ pc'[r] = at /\ HoldsOK(loc[r], pc[r]) /\ DOMAIN loc'[r] = Fields
      /\ loc'[r].doc = loc[r].doc /\ loc'[r].op = loc[r].op /\ loc'[r].feature = loc[r].feature
  <2>1. CASE UNCHANGED loc
    BY <2>1, GoFacts DEF HoldsOK
  <2>2. CASE \E fields : Keep(r, fields) /\ DOMAIN fields \cap {"op", "doc", "feature"} = {}
    <3>1. PICK fields : Keep(r, fields) /\ DOMAIN fields \cap {"op", "doc", "feature"} = {}
      BY <2>2
    <3>2. /\ Frame(r) /\ pc'[r] = at /\ HoldsOK(loc[r], pc[r])
          /\ DOMAIN loc'[r] = Fields
          /\ \A f \in Fields : loc'[r][f] = IF f \in DOMAIN fields THEN fields[f] ELSE loc[r][f]
      BY <3>1, KeepFacts
    <3> QED BY <3>1, <3>2 DEF Fields
  <2> QED BY <2>1, <2>2
<1>3. HoldsOK(loc'[r], pc'[r])
  BY <1>2 DEF HoldsOK
<1> QED BY <1>1, <1>2, <1>3, AsideStep

\* A request under way that ends without writing the roadmap.
LEMMA EndStep ==
  ASSUME Shape, NEW r \in Requests, pc[r] \notin {"idle", "done", "dead", "publish.next"},
         NotesOn, issues' = issues, roadmap' = roadmap, Leave(r)
  PROVE  Step(r)
BY NotedInside, LeaveFacts, IssuesSame, AsideStep DEF Busy, Taken

-----------------------------------------------------------------------------
(* The steps with issues. *)

LEMMA CallEffectKeeps ==
  ASSUME Shape, NEW r \in Requests, NEW n, CallEffect(r, n)
  PROVE  /\ IssuesOK(issues') /\ IssuesKept
         /\ \A k \in DOMAIN issues' \ DOMAIN issues : issues'[k].of = None
<1>1. CASE loc[r].op = "create"
  <2>1. /\ n = Cardinality(DOMAIN issues) + 1
        /\ issues' = Extend(issues, n, Issue(loc[r].task.title, Open, Number(loc[r].task.milestone), None))
    BY <1>1, Zenon DEF CallEffect
  <2>2. /\ IssuesOK(issues') /\ IssuesKept
        /\ n \notin DOMAIN issues /\ DOMAIN issues' = DOMAIN issues \cup {n}
        /\ issues'[n].of = None
    BY <2>1, IssuesExtended
  <2> QED BY <2>2
<1>2. CASE loc[r].op = "push"
  <2>0. /\ n \in DOMAIN issues
        /\ issues' = [issues EXCEPT ![n] = Pushed(loc[r].task, issues[n])]
    BY <1>2, Zenon DEF CallEffect
  <2>1. /\ n \in DOMAIN issues /\ DOMAIN issues' = DOMAIN issues
        /\ issues'[n] = Pushed(loc[r].task, issues[n])
        /\ \A k \in DOMAIN issues \ {n} : issues'[k] = issues[k]
    BY <2>0
  <2>2. /\ issues'[n].of = issues[n].of
        /\ DOMAIN issues'[n] = {"title", "state", "milestone", "of"}
    BY <2>1 DEF Pushed, Issue
  <2> QED BY <2>1, <2>2 DEF Shape, IssuesOK, IssuesKept
<1>3. CASE loc[r].op \notin {"create", "push"}
  BY <1>3, IssuesSame DEF CallEffect
<1> QED BY <1>1, <1>2, <1>3

LEMMA IssueSteps ==
  ASSUME Shape, NEW r \in Requests, IssueStep(r)
  PROVE  Step(r)
<1>1. CASE LinkIssue(r)
  <2>1. Begin(r, "link") /\ Go(r, "issue.call") /\ issues' = issues /\ roadmap' = roadmap
    BY <1>1 DEF LinkIssue, TaskOnly
  <2>2. CASE \E n \in 1..MaxIssues : Keep(r, [op |-> "attach", task |-> task, number |-> n])
    BY <2>1, <2>2, AskStep DEF Taken, DocLabels, CardLabels
  <2>3. CASE \E title \in Titles :
               Keep(r, [op |-> "create", task |-> [task EXCEPT !.title = title]])
    BY <2>1, <2>3, AskStep DEF Taken, DocLabels, CardLabels
  <2> QED BY <1>1, <2>2, <2>3 DEF LinkIssue
<1>2. CASE UnlinkIssue(r)
  BY <1>2, BeginFacts, OneStep DEF UnlinkIssue, TaskOnly
<1>3. CASE PushIssue(r)
  BY <1>3, AskStep DEF PushIssue, TaskOnly, Taken, DocLabels, CardLabels
<1>4. CASE PullIssue(r)
  BY <1>4, AskStep DEF PullIssue, TaskOnly, Taken, DocLabels, CardLabels
<1>5. CASE CallIssue(r)
  <2>1. pc[r] = "issue.call" /\ NotesOn /\ roadmap' = roadmap
    BY <1>5 DEF NotesOn, CallIssue, At, PeerOnly
  <2>2. /\ IssuesOK(issues') /\ IssuesKept
        /\ \A k \in DOMAIN issues' \ DOMAIN issues : issues'[k].of = None
    BY <1>5, CallEffectKeeps, IssuesSame DEF CallIssue
  <2>3. \/ Go(r, "issue.fail") /\ UNCHANGED loc
        \/ \E n \in 1..MaxIssues : Go(r, "issue.record") /\ Keep(r, [number |-> n, meta |-> issues'[n]])
    BY <1>5 DEF CallIssue
  <2>4. CASE Go(r, "issue.fail") /\ UNCHANGED loc
    BY <2>1, <2>2, <2>4, OnStep DEF Taken, DocLabels, CardLabels
  <2>5. CASE \E n \in 1..MaxIssues : Go(r, "issue.record") /\ Keep(r, [number |-> n, meta |-> issues'[n]])
    <3>1. /\ Go(r, "issue.record")
          /\ \E fields : Keep(r, fields) /\ DOMAIN fields \cap {"op", "doc", "feature"} = {}
      BY <2>5
    <3> QED BY <2>1, <2>2, <3>1, OnStep DEF Taken, DocLabels, CardLabels
  <2> QED BY <2>3, <2>4, <2>5
<1>6. CASE RecordIssue(r)
  <2>1. /\ pc[r] = "issue.record" /\ NotesOn /\ roadmap' = roadmap
        /\ issues' = issues
    BY <1>6 DEF NotesOn, RecordIssue, At, TaskOnly, Stored
  <2>2. CASE Leave(r)
    BY <2>1, <2>2, EndStep
  <2>3. CASE Go(r, "issue.move") /\ \E c : Keep(r, [column |-> c])
    <3>1. \E fields : Keep(r, fields) /\ DOMAIN fields \cap {"op", "doc", "feature"} = {}
      BY <2>3
    <3> QED BY <2>1, <2>3, <3>1, IssuesSame, OnStep DEF Taken, DocLabels, CardLabels
  <2> QED BY <1>6, <2>2, <2>3 DEF RecordIssue
<1>7. CASE MoveByIssue(r)
  BY <1>7, EndStep DEF NotesOn, MoveByIssue, At, TaskOnly, Stored
<1>8. CASE RecordIssueFailure(r)
  BY <1>8, EndStep DEF NotesOn, RecordIssueFailure, At, TaskOnly, Stored
<1> QED BY <1>1, <1>2, <1>3, <1>4, <1>5, <1>6, <1>7, <1>8 DEF IssueStep

-----------------------------------------------------------------------------
(* The steps with cards. *)

LEMMA CallCardStep ==
  ASSUME Shape, NEW r \in Requests, CallCard(r)
  PROVE  Step(r)
<1>1. /\ pc[r] = "card.call" /\ roadmap' = roadmap /\ issues' = issues
      /\ NotesOn
  BY DEF NotesOn, CallCard, At, PeerOnly
<1>2. loc[r].op \in {"card", "feature"} \/ loc[r].feature = None
  BY <1>1 DEF Shape, HoldsOK, CardLabels
<1>3. \/ Go(r, "card.fail") /\ UNCHANGED loc
      \/ Leave(r)
      \/ \E landed \in BOOLEAN : \E c :
           /\ ~(loc[r].op = "feature" /\ ~landed)
           /\ Go(r, AfterCard(loc[r], landed)) /\ Keep(r, [card |-> c])
  <2>1. CASE \E landed \in BOOLEAN :
               /\ Go(r, AfterCard(loc[r], landed))
               /\ loc[r].op = "feature" /\ ~landed
               /\ loc' = [loc EXCEPT ![r] = Fresh]
    BY <2>1 DEF AfterCard, Leave
  <2> QED BY <2>1 DEF CallCard
<1>4. CASE Go(r, "card.fail") /\ UNCHANGED loc
  BY <1>1, <1>4, IssuesSame, OnStep DEF Taken, DocLabels, CardLabels
<1>5. CASE Leave(r)
  BY <1>1, <1>5, EndStep
<1>6. ASSUME NEW landed \in BOOLEAN, NEW c, ~(loc[r].op = "feature" /\ ~landed),
             Go(r, AfterCard(loc[r], landed)), Keep(r, [card |-> c])
      PROVE  Step(r)
  <2> DEFINE at == AfterCard(loc[r], landed)
  <2>1. /\ at \in {"doc.read", "card.record", "card.partial"}
        /\ at = "doc.read" => loc[r].op = "feature"
    BY <1>6 DEF AfterCard
  <2>2. \E fields : Keep(r, fields) /\ DOMAIN fields \cap {"op", "doc", "feature"} = {}
    BY <1>6
  <2>3. Go(r, at)
    BY <1>6
  <2> HIDE DEF at
  <2> QED BY <1>1, <1>2, <2>1, <2>2, <2>3, IssuesSame, OnStep
          DEF Taken, DocLabels, CardLabels, DocOps
<1> QED BY <1>3, <1>4, <1>5, <1>6

LEMMA DetachStep ==
  ASSUME Shape, NEW r \in Requests, DetachCard(r)
  PROVE  Step(r)
<1>1. pc[r] = "idle" /\ issues' = issues /\ roadmap' = roadmap /\ Leave(r)
  BY DEF DetachCard, May, At, TaskOnly
<1>2. Noted(r)
  BY <1>1 DEF DetachCard, Noted, Notes, Shape, Busy
<1> QED BY <1>1, <1>2, OneStep

LEMMA CardSteps ==
  ASSUME Shape, NEW r \in Requests, CardStep(r)
  PROVE  Step(r)
<1>1. CASE EditTask(r)
  BY <1>1, AskStep DEF EditTask, TaskOnly, Taken, DocLabels, CardLabels
<1>2. CASE WriteTask(r)
  <2>1. /\ pc[r] = "edit.write" /\ NotesOn /\ roadmap' = roadmap
        /\ issues' = issues
    BY <1>2 DEF NotesOn, WriteTask, At, TaskOnly
  <2>2. loc[r].op \in {"card", "feature"} \/ loc[r].feature = None
    BY <2>1 DEF Shape, HoldsOK, CardLabels
  <2>3. CASE Leave(r)
    BY <2>1, <2>3, EndStep
  <2>4. CASE Go(r, "card.call") /\ Keep(r, [task |-> task'])
    <3>1. \E fields : Keep(r, fields) /\ DOMAIN fields \cap {"op", "doc", "feature"} = {}
      BY <2>4
    <3> QED BY <2>1, <2>2, <2>4, <3>1, IssuesSame, OnStep DEF Taken, DocLabels, CardLabels
  <2> QED BY <1>2, <2>3, <2>4 DEF WriteTask
<1>3. CASE SyncTask(r)
  BY <1>3, AskStep DEF SyncTask, TaskOnly, Taken, DocLabels, CardLabels
<1>4. CASE SyncItem(r)
  <2>1. Begin(r, "card") /\ Go(r, "card.call") /\ issues' = issues /\ roadmap' = roadmap
    BY <1>4 DEF SyncItem, TaskOnly
  <2>2. \E op \in {"card", "feature"} : \E sent, feature :
          Keep(r, [op |-> op, task |-> sent, feature |-> feature])
    BY <1>4 DEF SyncItem
  <2> QED BY <2>1, <2>2, AskStep DEF Taken, DocLabels, CardLabels
<1>5. CASE RecordCard(r)
  <2>1. /\ pc[r] = "card.record" /\ NotesOn /\ roadmap' = roadmap
        /\ issues' = issues
    BY <1>5 DEF NotesOn, RecordCard, At, TaskOnly
  <2>2. loc[r].op \in {"card", "feature"} \/ loc[r].feature = None
    BY <2>1 DEF Shape, HoldsOK, CardLabels
  <2>3. CASE Leave(r)
    BY <2>1, <2>3, EndStep
  <2>4. CASE loc[r].feature # None /\ Go(r, "doc.read") /\ UNCHANGED loc
    BY <2>1, <2>2, <2>4, IssuesSame, OnStep DEF Taken, DocLabels, CardLabels, DocOps
  <2> QED BY <1>5, <2>3, <2>4 DEF RecordCard
<1>6. CASE RecordCardFailure(r)
  BY <1>6, EndStep DEF NotesOn, RecordCardFailure, At, TaskOnly, Stored
<1>7. CASE RecordPartial(r)
  <2>1. /\ pc[r] = "card.partial" /\ NotesOn /\ roadmap' = roadmap
        /\ issues' = issues
    BY <1>7 DEF NotesOn, RecordPartial, At, TaskOnly, Stored
  <2>2. CASE Leave(r)
    BY <2>1, <2>2, EndStep
  <2>3. CASE Go(r, "card.keep") /\ UNCHANGED loc
    BY <2>1, <2>3, IssuesSame, OnStep DEF Taken, DocLabels, CardLabels
  <2> QED BY <1>7, <2>2, <2>3 DEF RecordPartial
<1>8. CASE KeepCard(r)
  BY <1>8, EndStep DEF NotesOn, KeepCard, At, TaskOnly, Stored
<1>9. CASE DragTask(r)
  <2>1. Begin(r, "drag") /\ issues' = issues /\ roadmap' = roadmap
    BY <1>9 DEF DragTask, TaskOnly
  <2>2. CASE Leave(r)
    BY <2>1, <2>2, BeginFacts, OneStep
  <2>3. CASE Keep(r, [op |-> "drag", task |-> task']) /\ Go(r, "status.call")
    BY <2>1, <2>3, AskStep DEF Taken, DocLabels, CardLabels
  <2> QED BY <1>9, <2>2, <2>3 DEF DragTask
<1>10. CASE CallStatus(r)
  <2>1. /\ pc[r] = "status.call" /\ NotesOn /\ UNCHANGED loc /\ roadmap' = roadmap
        /\ issues' = issues
    BY <1>10 DEF NotesOn, CallStatus, At, PeerOnly
  <2>2. Go(r, "card.fail") \/ Go(r, "status.record")
    BY <1>10 DEF CallStatus
  <2> QED BY <2>1, <2>2, IssuesSame, OnStep DEF Taken, DocLabels, CardLabels
<1>11. CASE RecordStatus(r)
  BY <1>11, EndStep DEF NotesOn, RecordStatus, At, TaskOnly, Stored
<1>12. CASE BindProject(r)
  BY <1>12, BeginFacts, OneStep DEF BindProject
<1> QED BY <1>1, <1>2, <1>3, <1>4, <1>5, <1>6, <1>7, <1>8, <1>9, <1>10, <1>11, <1>12,
           CallCardStep, DetachStep DEF CardStep

-----------------------------------------------------------------------------
(* The steps with the roadmap. *)

\* Whatever a request makes of its document, the published features stay.
LEMMA DiscoveriesKeep ==
  ASSUME NEW doc, IsDoc(doc), NEW d \in Discoveries(doc)
  PROVE  IsDoc(d) /\ d.published = doc.published
BY DEF Discoveries, IsDoc

\* What a client puts is its own.
LEMMA EditedIsDoc ==
  ASSUME NEW doc, IsDoc(doc), NEW d \in Edited(doc)
  PROVE  IsDoc(d)
<1>1. \A e \in ClientDocs : IsDoc(e)
  BY RequestAssumption DEF IsRoadmap, IsDoc
<1> QED BY <1>1 DEF Edited, IsDoc

LEMMA NewDocsKeep ==
  ASSUME NEW l, IsDoc(l.doc), l.op \in DocOps, NEW d \in NewDocs(l)
  PROVE  IsDoc(d) /\ (l.op # "client" => d.published = l.doc.published)
<1>1. CASE l.op = "discovery"
  BY <1>1, DiscoveriesKeep DEF NewDocs
<1>2. CASE l.op = "features"
  <2>1. d \in WithFeatures(l.doc)
    BY <1>2 DEF NewDocs
  <2>2. \E new : d = [l.doc EXCEPT !.features = new]
    BY <2>1 DEF WithFeatures
  <2> QED BY <2>2 DEF IsDoc
<1>3. CASE l.op = "competitor"
  BY <1>3 DEF NewDocs
<1>4. CASE l.op = "client"
  BY <1>4, EditedIsDoc DEF NewDocs
<1>5. CASE l.op \in {"assign", "unassign"}
  <2>1. \E n : d = Milestoned(l.doc, l.feature, l.phase, n)
    BY <1>5 DEF NewDocs
  <2> QED BY <2>1 DEF Milestoned, IsDoc
<1>6. CASE l.op \in {"card", "feature"}
  BY <1>6 DEF NewDocs, IsDoc
<1> QED BY <1>1, <1>2, <1>3, <1>4, <1>5, <1>6 DEF DocOps

LEMMA TakeStep ==
  ASSUME Shape, NEW r \in Requests, NEW kind, NEW label, Take(r, kind, label),
         label \in {"doc.write", "boot.read", "publish.next"},
         label # "publish.next" => kind \in DocOps
  PROVE  Step(r)
<1>1. pc[r] = "idle" /\ loc[r] = Fresh /\ Noted(r)
  BY BeginFacts DEF Take
<1>2. Frame(r) /\ pc'[r] = label /\ DOMAIN loc'[r] = Fields
  BY KeepFacts DEF Take
<1>3. loc'[r].doc = roadmap /\ loc'[r].op = kind
  BY KeepFacts DEF Take, Fields
<1>4. roadmap' = roadmap /\ issues' = issues
  BY DEF Take, RoadmapOnly
<1>5. HoldsOK(loc'[r], pc'[r])
  BY <1>2, <1>3 DEF HoldsOK, DocLabels, CardLabels, Shape
<1> QED BY <1>1, <1>2, <1>3, <1>4, <1>5, IssuesSame DEF Step, Aside, Shape, Taken

LEMMA ReadStep ==
  ASSUME Shape, NEW r \in Requests, ReadRoadmap(r)
  PROVE  Step(r)
<1>1. /\ NotesOn /\ roadmap' = roadmap /\ issues' = issues
      /\ Keep(r, [doc |-> roadmap])
      /\ pc[r] \in {"boot.read", "doc.read"}
  BY DEF NotesOn, ReadRoadmap, RoadmapOnly, Stored, At
<1>2. PICK label \in {"boot.write", "doc.write"} : Go(r, label)
  BY DEF ReadRoadmap
<1>3. /\ Frame(r) /\ pc'[r] = label /\ DOMAIN loc'[r] = Fields /\ HoldsOK(loc[r], pc[r])
      /\ loc'[r].doc = roadmap /\ loc'[r].op = loc[r].op
  BY <1>1, <1>2, KeepFacts DEF Fields
<1>4. HoldsOK(loc'[r], pc'[r])
  BY <1>1, <1>2, <1>3 DEF HoldsOK, DocLabels, CardLabels, Shape
<1>5. Noted(r)
  BY <1>1, NotedInside DEF NotesOn, Busy
<1> QED BY <1>1, <1>2, <1>3, <1>4, <1>5, IssuesSame DEF Step, Aside, Shape, Taken

LEMMA BootstrapStep ==
  ASSUME Shape, NEW r \in Requests, Bootstrap(r)
  PROVE  Step(r)
<1>1. /\ pc[r] = "boot.write" /\ UNCHANGED <<history, loc>> /\ issues' = issues
      /\ roadmap' \in Discoveries(loc[r].doc)
  BY DEF Bootstrap, RoadmapOnly, Stored, At
<1>2. PICK label \in {"boot.read", "doc.read"} : Go(r, label)
  BY DEF Bootstrap
<1>3. Frame(r) /\ pc'[r] = label /\ loc'[r] = loc[r] /\ HoldsOK(loc[r], pc[r])
  BY <1>1, <1>2, GoFacts
<1>4. IsDoc(roadmap') /\ roadmap'.published = loc[r].doc.published
  BY <1>1, <1>3, DiscoveriesKeep DEF HoldsOK
<1>5. HoldsOK(loc'[r], pc'[r])
  BY <1>1, <1>2, <1>3 DEF HoldsOK, DocLabels, CardLabels
<1>6. Noted(r)
  BY <1>1, NotedInside DEF NotesOn, Busy
<1> QED BY <1>1, <1>2, <1>3, <1>4, <1>5, <1>6, IssuesSame DEF Step, Writes, Taken

LEMMA WriteStep ==
  ASSUME Shape, NEW r \in Requests, WriteRoadmap(r)
  PROVE  Step(r)
<1>1. pc[r] = "doc.write" /\ issues' = issues /\ Leave(r)
  BY DEF WriteRoadmap, RoadmapOnly, At
<1>2. NotesOn
  BY DEF WriteRoadmap, NotesOn
<1>3. CASE roadmap' = roadmap
  BY <1>1, <1>2, <1>3, EndStep
<1>4. CASE roadmap' # roadmap
  <2>1. IsDoc(loc[r].doc) /\ loc[r].op \in DocOps /\ roadmap' \in NewDocs(loc[r])
    BY <1>1, <1>4 DEF Shape, HoldsOK, DocLabels, WriteRoadmap
  <2>2. IsDoc(roadmap') /\ (loc[r].op # "client" => roadmap'.published = loc[r].doc.published)
    BY <2>1, NewDocsKeep
  <2>3. /\ Frame(r) /\ pc'[r] = "done" /\ HoldsOK(loc'[r], pc'[r])
        /\ loc'[r].doc.published = {}
    BY <1>1, LeaveFacts
  <2>4. Noted(r)
    BY <1>1, <1>2, NotedInside DEF Busy
  <2>5. CASE loc[r].op = "client"
    <3>1. history' = Overwritten(loc[r], roadmap, roadmap')
      BY <1>4, <2>5 DEF WriteRoadmap
    <3>2. /\ roadmap.published \ roadmap'.published \subseteq history'.unrecorded
          /\ roadmap'.published \ loc[r].doc.published \subseteq history'.claimed
      BY <3>1 DEF Overwritten, Shape, Notes
    <3> QED BY <1>1, <2>2, <2>3, <2>4, <3>2, IssuesSame DEF Step, Writes, Taken
  <2>6. CASE loc[r].op # "client"
    BY <1>1, <2>2, <2>3, <2>4, <2>6, IssuesSame DEF Step, Writes, Taken
  <2> QED BY <2>5, <2>6
<1> QED BY <1>3, <1>4

LEMMA MilestoneSteps ==
  ASSUME Shape, NEW r \in Requests,
         AssignMilestone(r) \/ UnassignMilestone(r) \/ CallMilestone(r) \/ SetTaskMilestone(r)
  PROVE  Step(r)
<1>1. ASSUME NEW kind \in {"assign", "unassign"}, NEW label \in {"assign.call", "milestone.task"},
             Target(r, kind, label)
      PROVE  Step(r)
  <2>1. Begin(r, kind) /\ Go(r, label) /\ issues' = issues /\ roadmap' = roadmap
    BY <1>1 DEF Target, RoadmapOnly
  <2>2. \E f, p, forTask :
          Keep(r, [op |-> kind, feature |-> f, phase |-> p, forTask |-> forTask, task |-> task])
    BY <1>1 DEF Target
  <2> QED BY <2>1, <2>2, AskStep DEF Taken, DocLabels, CardLabels, DocOps
<1>2. CASE CallMilestone(r)
  <2>1. /\ pc[r] = "assign.call" /\ NotesOn /\ roadmap' = roadmap
        /\ issues' = issues
    BY <1>2 DEF NotesOn, CallMilestone, At, PeerOnly
  <2>2. CASE Leave(r)
    BY <2>1, <2>2, EndStep
  <2>3. CASE Go(r, "milestone.task") /\ \E n \in Binds : Keep(r, [number |-> n])
    <3>1. \E fields : Keep(r, fields) /\ DOMAIN fields \cap {"op", "doc", "feature"} = {}
      BY <2>3
    <3>2. loc[r].op \in DocOps
      BY <2>1 DEF Shape, HoldsOK, DocLabels
    <3> QED BY <2>1, <2>3, <3>1, <3>2, IssuesSame, OnStep DEF Taken, CardLabels
  <2> QED BY <1>2, <2>2, <2>3 DEF CallMilestone
<1>3. CASE SetTaskMilestone(r)
  <2>1. /\ pc[r] = "milestone.task" /\ NotesOn /\ roadmap' = roadmap
        /\ issues' = issues
    BY <1>3 DEF NotesOn, SetTaskMilestone, At, TaskOnly, Stored
  <2>2. CASE Leave(r)
    BY <2>1, <2>2, EndStep
  <2>3. CASE Go(r, "doc.read") /\ UNCHANGED loc
    <3>1. loc[r].op \in DocOps
      BY <2>1 DEF Shape, HoldsOK, DocLabels
    <3> QED BY <2>1, <2>3, <3>1, IssuesSame, OnStep DEF Taken, CardLabels
  <2> QED BY <1>3, <2>2, <2>3 DEF SetTaskMilestone
<1> QED BY <1>1, <1>2, <1>3 DEF AssignMilestone, UnassignMilestone

\* The next feature gets an issue, and only what is known to have one is noted.
LEMMA PublishStep ==
  ASSUME Shape, NEW r \in Requests, PublishNext(r)
  PROVE  Step(r)
<1>1. PICK f \in Pending(loc[r]) :
        LET l == loc[r]
            n == Cardinality(DOMAIN issues) + 1
        IN
        /\ pc[r] = "publish.next"
        /\ \/ /\ Keep(r, [tried |-> l.tried \cup {f}])
              /\ UNCHANGED <<issues, history>>
           \/ /\ issues' = Extend(issues, n, Issue(Untitled, Open, Number(l.doc.features[f].milestone), f))
              /\ \/ /\ Keep(r, [tried |-> l.tried \cup {f},
                                doc |-> [l.doc EXCEPT !.published = @ \cup {f}]])
                    /\ UNCHANGED history
                 \/ Keep(r, [tried |-> l.tried \cup {f}]) /\ Unrecorded({f})
        /\ UNCHANGED <<pc, roadmap>>
  BY DEF PublishNext, At, PeerOnly
<1> DEFINE n == Cardinality(DOMAIN issues) + 1
           l == loc[r]
<1>2. HoldsOK(l, pc[r]) /\ f \notin l.doc.published
  BY DEF Pending, Shape
<1>3. \A fields : Keep(r, fields) =>
        /\ Frame(r) /\ pc'[r] = "publish.next" /\ DOMAIN loc'[r] = Fields
        /\ \A x \in Fields : loc'[r][x] = IF x \in DOMAIN fields THEN fields[x] ELSE l[x]
  <2> SUFFICES ASSUME NEW fields, Keep(r, fields)
               PROVE  /\ Frame(r) /\ pc'[r] = "publish.next" /\ DOMAIN loc'[r] = Fields
                      /\ \A x \in Fields :
                           loc'[r][x] = IF x \in DOMAIN fields THEN fields[x] ELSE l[x]
    OBVIOUS
  <2>1. Frame(r) /\ loc'[r] = With(l, fields) /\ DOMAIN l = Fields /\ pc' = pc
    BY <1>1, <1>2 DEF Keep, Frame, Shape, HoldsOK
  <2> QED BY <1>1, <2>1, WithFields
<1>4. Noted(r)
  <2>1. NotesOn
    BY <1>1 DEF NotesOn
  <2> QED BY <1>1, <2>1, NotedInside DEF Busy
<1>5. CASE Keep(r, [tried |-> l.tried \cup {f}]) /\ issues' = issues
  <2>1. /\ Frame(r) /\ pc'[r] = "publish.next" /\ DOMAIN loc'[r] = Fields
        /\ loc'[r].doc = l.doc
    BY <1>3, <1>5 DEF Fields
  <2>2. HoldsOK(loc'[r], pc'[r])
    BY <1>2, <2>1 DEF HoldsOK, DocLabels, CardLabels
  <2> QED BY <1>1, <1>4, <1>5, <2>1, <2>2, IssuesSame DEF Step, Publishes, Shape
<1>6. CASE issues' = Extend(issues, n, Issue(Untitled, Open, Number(l.doc.features[f].milestone), f))
  <2>1. /\ IssuesOK(issues') /\ IssuesKept
        /\ n \notin DOMAIN issues /\ DOMAIN issues' = DOMAIN issues \cup {n}
        /\ issues'[n].of = f
    BY <1>6, IssuesExtended
  <2>2. CASE Keep(r, [tried |-> l.tried \cup {f}, doc |-> [l.doc EXCEPT !.published = @ \cup {f}]])
    <3>1. /\ Frame(r) /\ pc'[r] = "publish.next" /\ DOMAIN loc'[r] = Fields
          /\ loc'[r].doc = [l.doc EXCEPT !.published = @ \cup {f}]
      BY <1>3, <2>2 DEF Fields
    <3>2. IsDoc(loc'[r].doc) /\ loc'[r].doc.published = l.doc.published \cup {f}
      BY <1>2, <3>1 DEF HoldsOK, IsDoc
    <3>3. HoldsOK(loc'[r], pc'[r])
      BY <3>1, <3>2 DEF HoldsOK, DocLabels, CardLabels
    <3> HIDE DEF n
    <3> QED BY <1>1, <1>2, <1>4, <2>1, <3>1, <3>2, <3>3 DEF Step, Publishes, Shape
  <2>3. CASE Keep(r, [tried |-> l.tried \cup {f}]) /\ Unrecorded({f})
    <3>1. /\ Frame(r) /\ pc'[r] = "publish.next" /\ DOMAIN loc'[r] = Fields
          /\ loc'[r].doc = l.doc
      BY <1>3, <2>3 DEF Fields
    <3>2. HoldsOK(loc'[r], pc'[r])
      BY <1>2, <3>1 DEF HoldsOK, DocLabels, CardLabels
    <3>3. f \in history'.unrecorded
      BY <2>3 DEF Unrecorded, Shape, Notes
    <3> HIDE DEF n
    <3> QED BY <1>1, <1>2, <1>4, <2>1, <3>1, <3>2, <3>3 DEF Step, Publishes, Shape
  <2> QED BY <1>1, <1>5, <2>2, <2>3
<1> QED BY <1>1, <1>5, <1>6

LEMMA RecordPublishedStep ==
  ASSUME Shape, NEW r \in Requests, RecordPublished(r)
  PROVE  Step(r)
<1>1. pc[r] = "publish.next" /\ issues' = issues /\ Leave(r)
  BY DEF RecordPublished, RoadmapOnly, At
<1>2. \/ roadmap' = loc[r].doc /\ UNCHANGED history
      \/ UNCHANGED roadmap /\ Unrecorded(loc[r].doc.published \ roadmap.published)
  BY DEF RecordPublished
<1>3. /\ Frame(r) /\ pc'[r] = "done" /\ HoldsOK(loc'[r], pc'[r])
      /\ loc'[r].doc.published = {} /\ IsDoc(loc[r].doc) /\ IsDoc(roadmap)
  BY <1>1, LeaveFacts DEF Shape, HoldsOK
<1>4. Noted(r)
  <2>1. NotesOn
    BY <1>2 DEF NotesOn
  <2> QED BY <1>1, <2>1, NotedInside DEF Busy
<1>5. \/ roadmap' = loc[r].doc
      \/ /\ roadmap' = roadmap
         /\ loc[r].doc.published \ roadmap.published \subseteq history'.unrecorded
  BY <1>2 DEF Unrecorded, Shape, Notes
<1> QED BY <1>1, <1>3, <1>4, <1>5, IssuesSame DEF Step, Writes, Taken

LEMMA RoadmapSteps ==
  ASSUME Shape, NEW r \in Requests, RoadmapStep(r)
  PROVE  Step(r)
<1>1. CASE RunRoadmapJob(r)
  BY <1>1, TakeStep DEF RunRoadmapJob, DocOps
<1>2. CASE Publish(r)
  BY <1>2, TakeStep DEF Publish
<1> QED BY <1>1, <1>2, ReadStep, BootstrapStep, WriteStep, MilestoneSteps, PublishStep,
           RecordPublishedStep DEF RoadmapStep

-----------------------------------------------------------------------------
(* The environment, and the theorems. *)

IInv == Shape /\ PublishedInv /\ SingleInv

LEMMA EditKeeps ==
  ASSUME IInv, EditOnGitHub
  PROVE  IInv'
<1>1. UNCHANGED <<roadmap, history, pc, loc>>
  BY DEF EditOnGitHub, PeerOnly
<1>2. PICK n \in DOMAIN issues, state \in {Open, Closed}, title \in Titles :
        issues' = [issues EXCEPT ![n].state = state, ![n].title = title]
  BY DEF EditOnGitHub
<1>3. /\ DOMAIN issues' = DOMAIN issues
      /\ \A k \in DOMAIN issues : DOMAIN issues'[k] = {"title", "state", "milestone", "of"}
                                  /\ issues'[k].of = issues[k].of
  BY <1>2 DEF IInv, Shape, IssuesOK
<1>4. Shape'
  BY <1>1, <1>3 DEF IInv, Shape, IssuesOK, IsDoc
<1>5. PublishedInv'
  BY <1>1, <1>3 DEF IInv, PublishedInv, Grounded, HasIssue
<1>6. SingleInv'
  BY <1>1, <1>3 DEF IInv, SingleInv, Busy
<1> QED BY <1>4, <1>5, <1>6 DEF IInv

LEMMA DieKeeps ==
  ASSUME IInv, Die
  PROVE  IInv'
<1>1. UNCHANGED <<roadmap, issues>> /\ history'.disturbed /\ DOMAIN history' = Notes
      /\ history'.claimed = history.claimed
  BY DEF Die, Disturb, IInv, Shape, Notes
<1>2. \A r \in Requests : pc'[r] = "dead" \/ (pc'[r] = pc[r] /\ ~Busy(r))
  BY DEF Die
<1>3. \A r \in Requests : loc'[r] = Fresh /\ HoldsOK(Fresh, pc'[r])
  BY <1>2, FreshOK DEF Die, Busy, DocLabels
<1>4. Shape'
  BY <1>1, <1>3 DEF IInv, Shape, Die, IsDoc
<1>5. PublishedInv'
  <2>1. Fresh.doc.published = {}
    BY DEF Fresh, NoRoadmap
  <2> QED BY <1>1, <1>3, <2>1 DEF IInv, PublishedInv, Grounded, HasIssue
<1>6. SingleInv'
  BY <1>1 DEF SingleInv
<1> QED BY <1>4, <1>5, <1>6 DEF IInv

LEMMA InitInv == Init => IInv
<1> SUFFICES ASSUME Init PROVE IInv
  OBVIOUS
<1>1. /\ \A r \in Requests : pc[r] = "idle" /\ loc[r] = Fresh
      /\ DOMAIN pc = Requests /\ DOMAIN loc = Requests
  BY DEF Init
<1>2. Fresh.doc.published = {} /\ \A r \in Requests : HoldsOK(loc[r], pc[r])
  BY <1>1, FreshOK DEF DocLabels
<1>3. IsDoc(roadmap) /\ roadmap.published = {}
  BY GitHubAssumption DEF Init, IsDoc, NoRoadmap
<1>4. \A n \in DOMAIN issues : issues[n] = Issue(task.title, task.state, Number(task.milestone), None)
  BY DEF Init
<1>5. IssuesOK(issues)
  <2>1. DOMAIN issues = 1..0 \/ DOMAIN issues = 1..1
    BY GitHubAssumption DEF Init, None
  <2>2. \A n \in DOMAIN issues : DOMAIN issues[n] = {"title", "state", "milestone", "of"}
    BY <1>4 DEF Issue
  <2> QED BY <2>1, <2>2 DEF IssuesOK
<1>6. Shape
  BY <1>1, <1>2, <1>3, <1>5 DEF Shape, Init, Notes
<1>7. PublishedInv
  BY <1>1, <1>2, <1>3 DEF PublishedInv
<1>8. SingleInv
  BY <1>1, <1>4 DEF SingleInv, Busy, Taken, Issue
<1> QED BY <1>6, <1>7, <1>8 DEF IInv

LEMMA StepInv == IInv /\ [Next]_vars => IInv'
<1> SUFFICES ASSUME IInv, [Next]_vars PROVE IInv'
  OBVIOUS
<1>1. ASSUME NEW r \in Requests, IssueStep(r) \/ CardStep(r) \/ RoadmapStep(r)
      PROVE  IInv'
  <2>1. Step(r)
    BY <1>1, IssueSteps, CardSteps, RoadmapSteps DEF IInv
  <2> QED BY <2>1, StepShape, StepPublished, StepSingle DEF IInv
<1>2. CASE UNCHANGED vars
  BY <1>2 DEF vars, IInv, Shape, PublishedInv, SingleInv, Grounded, HasIssue, IsDoc, Busy
<1> QED BY <1>1, <1>2, EditKeeps, DieKeeps DEF Next, Finished

\* What the roadmap calls published has an issue, whatever overlaps, fails, gets
\* lost or is overwritten, unless a client's document made it up
\* (builtinRoadmapPublish, PutRoadmap).
THEOREM PublishedIsThere == Spec => []PublishedHasAnIssue
<1>1. IInv => PublishedHasAnIssue
  BY DEF IInv, PublishedInv, Grounded, HasIssue, PublishedHasAnIssue
<1> QED BY <1>1, InitInv, StepInv, PTL DEF Spec

\* Publishing again, after refusals, failed saves, lost answers and documents that
\* clients put in between, opens a second issue only for a feature whose issue one
\* of them kept off the record, if requests did not overlap (builtinRoadmapPublish).
THEOREM PublishedOnce == Spec => []RetryDoesNotDuplicate
<1>1. IInv => RetryDoesNotDuplicate
  BY DEF IInv, SingleInv, RetryDoesNotDuplicate
<1> QED BY <1>1, InitInv, StepInv, PTL DEF Spec

-----------------------------------------------------------------------------
(* Type correctness, and what the answers of the peer name. *)

LEMMA NumberIsMilestone ==
  ASSUME NEW bind \in Binds
  PROVE  /\ Number(bind) \in Milestones
         /\ Number(bind) > 0 => bind \in Milestones
BY DEF Binds, Half, Number, Milestones

IsCard(c) == DOMAIN c = {"title", "status", "of"} /\ c.of \in {"task", "feature"}

\* The peer numbers its issues and cards from one and forgets none.
PeerOK ==
  /\ DOMAIN issues \subseteq 1..MaxIssues /\ \A n \in DOMAIN issues : IsIssue(issues[n])
  /\ DOMAIN cards \subseteq 1..MaxCards /\ \A c \in DOMAIN cards : IsCard(cards[c])
  /\ \E n \in Nat : DOMAIN cards = 1..n

StoreOK ==
  /\ IsTask(task) /\ IsRoadmap(roadmap) /\ binding \in BOOLEAN

\* What a request holds, at its label.
Typed(r) ==
  /\ IsTask(loc[r].task) /\ IsRoadmap(loc[r].doc) /\ IsIssue(loc[r].meta)
  /\ loc[r].column \in Columns /\ loc[r].card \in DOMAIN cards \cup {None}
  /\ pc[r] \in DocLabels /\ loc[r].op \in {"assign", "unassign"} => loc[r].number \in Binds
  /\ pc[r] = "milestone.task" => loc[r].number \in Binds
  /\ pc[r] = "issue.record" => loc[r].number \in DOMAIN issues
  /\ pc[r] \in {"card.record", "card.partial", "card.keep"} => loc[r].card \in DOMAIN cards

TypeInv ==
  /\ PeerOK /\ StoreOK /\ IsTask(Fresh.task)
  /\ pc \in [Requests -> Labels] /\ \A r \in Requests : Typed(r)

\* What a step of a request owes the types.
TypedStep(r) ==
  /\ PeerOK' /\ StoreOK' /\ Typed(r)'
  /\ DOMAIN issues \subseteq DOMAIN issues' /\ DOMAIN cards \subseteq DOMAIN cards'
  /\ \E label \in Labels : Go(r, label)

\* The others hold what they held, and the peer still has it.
LEMMA StepTyped ==
  ASSUME TypeInv, NEW r \in Requests, Frame(r), TypedStep(r)
  PROVE  TypeInv'
<1>1. ASSUME NEW q \in Requests, q # r PROVE Typed(q)'
  BY <1>1 DEF Frame, TypedStep, TypeInv, Typed
<1>2. pc' \in [Requests -> Labels]
  BY DEF TypedStep, Go, TypeInv
<1>3. IsTask(Fresh.task)'
  BY DEF TypeInv, IsTask, Fresh
<1> QED BY <1>1, <1>2, <1>3 DEF TypedStep, TypeInv

\* A request that holds nothing, or keeps what it holds.
LEMMA LeaveTyped ==
  ASSUME Shape, TypeInv, NEW r \in Requests, Leave(r)
  PROVE  Typed(r)' /\ Go(r, "done") /\ "done" \in Labels
<1>1. pc'[r] = "done" /\ loc'[r] = Fresh
  BY DEF Leave, Go, Shape
<1>2. /\ IsTask(Fresh.task) /\ Fresh.doc = NoRoadmap /\ Fresh.op = "none"
      /\ Fresh.meta = Issue(Untitled, Open, 0, None) /\ Fresh.column = Done /\ Fresh.card = None
  BY DEF TypeInv, Fresh
<1>3. IsRoadmap(NoRoadmap) /\ IsIssue(Issue(Untitled, Open, 0, None)) /\ Done \in Columns
  BY BoardAssumption DEF IsRoadmap, NoRoadmap, IsIssue, Issue, Milestones
<1>4. Typed(r)'
  BY <1>1, <1>2, <1>3 DEF Typed
<1> QED BY <1>4 DEF Leave, Labels

LEMMA GoTyped ==
  ASSUME Shape, TypeInv, NEW r \in Requests, NEW at \in Labels, Go(r, at), UNCHANGED loc,
         at \notin {"issue.record", "card.record", "card.partial", "milestone.task"},
         at = "card.keep" => pc[r] = "card.partial",
         at \in DocLabels => pc[r] \in DocLabels \/ loc[r].op \in {"card", "feature"},
         DOMAIN cards \subseteq DOMAIN cards'
  PROVE  Typed(r)'
<1>1. pc'[r] = at /\ loc'[r] = loc[r] /\ Typed(r)
  BY DEF Go, Shape, TypeInv
<1> QED BY <1>1 DEF Typed

\* The fields of what a request keeps.
LEMMA KeptFields ==
  ASSUME Shape, NEW r \in Requests, NEW fields, Keep(r, fields)
  PROVE  \A f \in Fields : loc'[r][f] = IF f \in DOMAIN fields THEN fields[f] ELSE loc[r][f]
<1>1. loc'[r] = With(loc[r], fields) /\ DOMAIN loc[r] = Fields
  BY DEF Keep, Shape, HoldsOK
<1> QED BY <1>1, WithFields

\* A task stays one when its fields change within their types.
LEMMA WithIsTask ==
  ASSUME NEW t, IsTask(t), NEW fields,
         "title" \in DOMAIN fields => fields.title \in Titles \cup {Untitled},
         "status" \in DOMAIN fields => fields.status \in Columns,
         "issue" \in DOMAIN fields => fields.issue \in 0..MaxIssues,
         "state" \in DOMAIN fields => fields.state \in {"", Open, Closed},
         "issueTitle" \in DOMAIN fields => fields.issueTitle \in Titles \cup {Untitled, ""},
         "issueError" \in DOMAIN fields => fields.issueError \in BOOLEAN,
         "project" \in DOMAIN fields => fields.project \in BOOLEAN,
         "card" \in DOMAIN fields => fields.card \in 0..MaxCards,
         "cardError" \in DOMAIN fields => fields.cardError \in BOOLEAN,
         "milestone" \in DOMAIN fields => fields.milestone \in Binds
  PROVE  IsTask(With(t, fields))
<1> DEFINE w == With(t, fields)
<1>1. /\ DOMAIN w = DOMAIN t
      /\ \A f \in DOMAIN t : w[f] = IF f \in DOMAIN fields THEN fields[f] ELSE t[f]
  BY WithFields
<1> HIDE DEF w
<1>2. /\ w.title = (IF "title" \in DOMAIN fields THEN fields.title ELSE t.title)
      /\ w.status = (IF "status" \in DOMAIN fields THEN fields.status ELSE t.status)
      /\ w.issue = (IF "issue" \in DOMAIN fields THEN fields.issue ELSE t.issue)
      /\ w.state = (IF "state" \in DOMAIN fields THEN fields.state ELSE t.state)
      /\ w.issueTitle = (IF "issueTitle" \in DOMAIN fields THEN fields.issueTitle ELSE t.issueTitle)
  BY <1>1 DEF IsTask
<1>3. /\ w.issueError = (IF "issueError" \in DOMAIN fields THEN fields.issueError ELSE t.issueError)
      /\ w.project = (IF "project" \in DOMAIN fields THEN fields.project ELSE t.project)
      /\ w.card = (IF "card" \in DOMAIN fields THEN fields.card ELSE t.card)
      /\ w.cardError = (IF "cardError" \in DOMAIN fields THEN fields.cardError ELSE t.cardError)
      /\ w.milestone = (IF "milestone" \in DOMAIN fields THEN fields.milestone ELSE t.milestone)
  BY <1>1 DEF IsTask
<1>4. /\ w.title \in Titles \cup {Untitled} /\ w.status \in Columns
      /\ w.issue \in 0..MaxIssues /\ w.state \in {"", Open, Closed}
      /\ w.issueTitle \in Titles \cup {Untitled, ""}
  BY <1>2 DEF IsTask
<1>5. w.card \in 0..MaxCards /\ w.milestone \in Binds
  BY <1>3 DEF IsTask
<1>6. w.issueError \in BOOLEAN /\ w.project \in BOOLEAN /\ w.cardError \in BOOLEAN
  BY <1>3 DEF IsTask
<1> QED BY <1>1, <1>4, <1>5, <1>6 DEF IsTask, w

\* The links and the title of a task some of whose fields change.
LEMMA WithLinks ==
  ASSUME NEW t, IsTask(t), NEW fields
  PROVE  /\ With(t, fields).issue = (IF "issue" \in DOMAIN fields THEN fields.issue ELSE t.issue)
         /\ With(t, fields).card = (IF "card" \in DOMAIN fields THEN fields.card ELSE t.card)
         /\ With(t, fields).title = (IF "title" \in DOMAIN fields THEN fields.title ELSE t.title)
         /\ With(t, fields).state = (IF "state" \in DOMAIN fields THEN fields.state ELSE t.state)
         /\ With(t, fields).status = (IF "status" \in DOMAIN fields THEN fields.status ELSE t.status)
<1> DEFINE w == With(t, fields)
<1>1. \A f \in DOMAIN t : w[f] = IF f \in DOMAIN fields THEN fields[f] ELSE t[f]
  BY WithFields
<1> HIDE DEF w
<1>2. /\ w.issue = (IF "issue" \in DOMAIN fields THEN fields.issue ELSE t.issue)
      /\ w.card = (IF "card" \in DOMAIN fields THEN fields.card ELSE t.card)
      /\ w.title = (IF "title" \in DOMAIN fields THEN fields.title ELSE t.title)
      /\ w.state = (IF "state" \in DOMAIN fields THEN fields.state ELSE t.state)
      /\ w.status = (IF "status" \in DOMAIN fields THEN fields.status ELSE t.status)
  BY <1>1 DEF IsTask
<1> QED BY <1>2 DEF w

\* What a step leaves alone stays typed.
LEMMA PeerKept ==
  ASSUME TypeInv, UNCHANGED <<issues, cards>>
  PROVE  PeerOK' /\ DOMAIN issues \subseteq DOMAIN issues' /\ DOMAIN cards \subseteq DOMAIN cards'
BY DEF TypeInv, PeerOK, IsIssue, IsCard

LEMMA StoreKept ==
  ASSUME TypeInv, UNCHANGED <<task, binding, roadmap>>,
         DOMAIN issues \subseteq DOMAIN issues', DOMAIN cards \subseteq DOMAIN cards'
  PROVE  StoreOK'
BY DEF TypeInv, StoreOK

LEMMA TaskTyped ==
  ASSUME TypeInv, UNCHANGED <<issues, cards, binding, roadmap>>, IsTask(task')
  PROVE  /\ PeerOK' /\ StoreOK'
         /\ DOMAIN issues \subseteq DOMAIN issues' /\ DOMAIN cards \subseteq DOMAIN cards'
BY PeerKept DEF TypeInv, StoreOK

\* A request that begins takes note of the task and of a title or a column.
LEMMA AskTyped ==
  ASSUME Shape, TypeInv, NEW r \in Requests, NEW kind, Begin(r, kind),
         NEW at \in Labels \ {"issue.record", "card.record", "card.partial", "card.keep"}, Go(r, at),
         NEW fields, Keep(r, fields), DOMAIN fields \cap {"doc", "meta", "column", "card"} = {},
         "task" \in DOMAIN fields => IsTask(fields["task"]),
         "number" \in DOMAIN fields => at \notin DocLabels,
         "op" \in DOMAIN fields,
         DOMAIN cards \subseteq DOMAIN cards'
  PROVE  Typed(r)'
<1>1. loc[r] = Fresh /\ pc'[r] = at /\ Typed(r)
  BY BeginFacts DEF Go, Shape, TypeInv
<1>2. /\ loc'[r].doc = loc[r].doc /\ loc'[r].meta = loc[r].meta
      /\ loc'[r].column = loc[r].column /\ loc'[r].card = loc[r].card
      /\ loc'[r].op = fields["op"]
      /\ loc'[r].task = IF "task" \in DOMAIN fields THEN fields["task"] ELSE loc[r].task
      /\ loc'[r].number = IF "number" \in DOMAIN fields THEN fields["number"] ELSE loc[r].number
  BY KeptFields DEF Fields
<1>3. loc[r].number \in Binds
  BY <1>1 DEF Fresh, Binds, None
<1> QED BY <1>1, <1>2, <1>3 DEF Typed, DocLabels

\* The peer opens an issue, overwrites one, or shows one it has.
LEMMA CallEffectTyped ==
  ASSUME Shape, TypeInv, NEW r \in Requests, NEW n \in 1..MaxIssues, CallEffect(r, n)
  PROVE  /\ DOMAIN issues' \subseteq 1..MaxIssues /\ \A k \in DOMAIN issues' : IsIssue(issues'[k])
         /\ n \in DOMAIN issues' /\ DOMAIN issues \subseteq DOMAIN issues'
<1>0. IsTask(loc[r].task) /\ \A k \in DOMAIN issues : IsIssue(issues[k])
  BY DEF TypeInv, Typed, PeerOK
<1>1. CASE loc[r].op = "create"
  <2> DEFINE new == Issue(loc[r].task.title, Open, Number(loc[r].task.milestone), None)
  <2>1. n = Cardinality(DOMAIN issues) + 1 /\ issues' = Extend(issues, n, new)
    BY <1>1, Zenon DEF CallEffect
  <2>2. n \notin DOMAIN issues /\ DOMAIN issues' = DOMAIN issues \cup {n}
    BY <2>1, IssuesExtended
  <2>3. IsIssue(new)
    BY <1>0, NumberIsMilestone DEF IsIssue, Issue, IsTask
  <2> HIDE DEF new
  <2>4. issues'[n] = new /\ \A k \in DOMAIN issues : issues'[k] = issues[k]
    BY <2>1, <2>2 DEF Extend
  <2> QED BY <1>0, <2>2, <2>3, <2>4 DEF TypeInv, PeerOK
<1>2. CASE loc[r].op = "push"
  <2>1. n \in DOMAIN issues /\ issues' = [issues EXCEPT ![n] = Pushed(loc[r].task, issues[n])]
    BY <1>2, Zenon DEF CallEffect
  <2>2. IsIssue(Pushed(loc[r].task, issues[n]))
    BY <1>0, <2>1, NumberIsMilestone DEF IsIssue, IsTask, Pushed, Issue, StateOf
  <2> QED BY <1>0, <2>1, <2>2 DEF TypeInv, PeerOK
<1>3. CASE loc[r].op \notin {"create", "push"}
  BY <1>0, <1>3 DEF CallEffect, TypeInv, PeerOK
<1> QED BY <1>1, <1>2, <1>3

\* The answer names an issue the peer has.
LEMMA CallIssueTyped ==
  ASSUME Shape, TypeInv, NEW r \in Requests, CallIssue(r)
  PROVE  TypedStep(r)
<1>1. /\ pc[r] = "issue.call" /\ UNCHANGED <<cards, task, binding, roadmap>>
      /\ IsTask(loc[r].task) /\ Typed(r)
  BY DEF CallIssue, At, PeerOnly, TypeInv, Typed
<1>2. /\ DOMAIN issues' \subseteq 1..MaxIssues /\ \A k \in DOMAIN issues' : IsIssue(issues'[k])
      /\ DOMAIN issues \subseteq DOMAIN issues'
  <2>1. CASE issues' = issues
    BY <2>1 DEF TypeInv, PeerOK
  <2>2. CASE \E n \in 1..MaxIssues : CallEffect(r, n)
    BY <2>2, CallEffectTyped
  <2> QED BY <2>1, <2>2 DEF CallIssue
<1>3. PeerOK' /\ StoreOK'
  BY <1>1, <1>2, StoreKept DEF TypeInv, PeerOK
<1>4. CASE Go(r, "issue.fail") /\ UNCHANGED loc
  <2>1. Typed(r)'
    BY <1>1, <1>4, GoTyped DEF Labels, DocLabels
  <2> QED BY <1>1, <1>2, <1>3, <1>4, <2>1 DEF TypedStep, Labels
<1>5. ASSUME NEW n \in 1..MaxIssues, CallEffect(r, n), Go(r, "issue.record"),
             Keep(r, [number |-> n, meta |-> issues'[n]])
      PROVE  TypedStep(r)
  <2>1. pc'[r] = "issue.record" /\ n \in DOMAIN issues' /\ IsIssue(issues'[n])
    BY <1>5, CallEffectTyped DEF Go, Shape
  <2>2. /\ loc'[r].number = n /\ loc'[r].meta = issues'[n] /\ loc'[r].task = loc[r].task
        /\ loc'[r].doc = loc[r].doc /\ loc'[r].column = loc[r].column
        /\ loc'[r].card = loc[r].card /\ loc'[r].op = loc[r].op
    BY <1>5, KeptFields DEF Fields
  <2>3. Typed(r)'
    BY <1>1, <2>1, <2>2 DEF Typed, DocLabels
  <2> QED BY <1>1, <1>2, <1>3, <1>5, <2>3 DEF TypedStep, Labels
<1> QED BY <1>4, <1>5 DEF CallIssue

\* The mirror of an issue is a task's.
LEMMA Mirrored ==
  ASSUME NEW t, IsTask(t), NEW n \in 0..MaxIssues, NEW meta, IsIssue(meta)
  PROVE  /\ IsTask(Mirror(t, n, meta)) /\ Mirror(t, n, meta).issue = n
         /\ Mirror(t, n, meta).card = t.card /\ Mirror(t, n, meta).state = meta.state
         /\ Mirror(t, n, meta).status = t.status
<1> DEFINE bind == IF meta.milestone = Number(t.milestone) THEN t.milestone ELSE meta.milestone
<1>1. bind \in Binds
  <2>1. meta.milestone \in Binds /\ t.milestone \in Binds
    <3>1. t.milestone \in Binds
      BY DEF IsTask
    <3>2. meta.milestone \in Milestones /\ Milestones \subseteq Binds
      BY DEF IsIssue, Milestones, Binds
    <3> QED BY <3>1, <3>2
  <2> QED BY <2>1
<1> HIDE DEF bind
<1> DEFINE fields == [issue |-> n, state |-> meta.state, issueTitle |-> meta.title,
                      issueError |-> FALSE, milestone |-> bind]
<1>2. Mirror(t, n, meta) = With(t, fields)
  BY DEF Mirror, bind
<1>3. IsTask(With(t, fields))
  BY <1>1, WithIsTask DEF IsIssue
<1>4. /\ With(t, fields).issue = n /\ With(t, fields).card = t.card
      /\ With(t, fields).state = meta.state /\ With(t, fields).status = t.status
  BY WithLinks
<1> QED BY <1>2, <1>3, <1>4

LEMMA RecordIssueTyped ==
  ASSUME Shape, TypeInv, NEW r \in Requests, RecordIssue(r)
  PROVE  TypedStep(r)
<1> DEFINE l == loc[r]
           title == IF l.adopt /\ l.meta.title # Untitled THEN l.meta.title ELSE task.title
           mirrored == Mirror(task, l.number, l.meta)
<1>1. /\ pc[r] = "issue.record" /\ UNCHANGED <<issues, cards, binding, roadmap>>
      /\ task' = With(mirrored, [title |-> title])
  BY DEF RecordIssue, At, TaskOnly
<1>2. IsTask(task) /\ IsIssue(l.meta) /\ l.number \in 0..MaxIssues
  BY <1>1, BoardAssumption DEF TypeInv, StoreOK, PeerOK, Typed
<1>3. IsTask(mirrored)
  BY <1>2, Mirrored
<1>4. title \in Titles \cup {Untitled}
  BY <1>2 DEF IsTask, IsIssue
<1> HIDE DEF title, mirrored
<1>5. IsTask(task')
  BY <1>1, <1>3, <1>4, WithIsTask
<1>6. /\ PeerOK' /\ StoreOK'
      /\ DOMAIN issues \subseteq DOMAIN issues' /\ DOMAIN cards \subseteq DOMAIN cards'
  BY <1>1, <1>2, <1>5, TaskTyped DEF TypeInv, StoreOK
<1>7. CASE Leave(r)
  BY <1>6, <1>7, LeaveTyped DEF TypedStep
<1>8. ASSUME NEW c \in ColumnsFor(l.meta.state, task.status), Go(r, "issue.move"),
             Keep(r, [column |-> c])
      PROVE  TypedStep(r)
  <2>1. c \in Columns
    BY <1>8, BoardAssumption DEF ColumnsFor
  <2>2. /\ loc'[r].column = c /\ loc'[r].meta = l.meta /\ loc'[r].task = l.task
        /\ loc'[r].doc = l.doc /\ loc'[r].card = l.card /\ pc'[r] = "issue.move"
    BY <1>8, KeptFields DEF Fields, Go, Shape
  <2>3. Typed(r)'
    BY <1>6, <2>1, <2>2 DEF Typed, TypeInv, DocLabels
  <2> QED BY <1>6, <1>8, <2>3 DEF TypedStep, Labels
<1> QED BY <1>7, <1>8 DEF RecordIssue

\* No issue instead of one.
LEMMA UnlinkedTyped ==
  ASSUME NEW t, IsTask(t)
  PROVE  IsTask(With(t, NoIssue))
<1>1. /\ DOMAIN NoIssue = {"issue", "state", "issueTitle", "issueError"}
      /\ NoIssue.issue = None /\ NoIssue.state = "" /\ NoIssue.issueTitle = ""
      /\ NoIssue.issueError = FALSE /\ None \in 0..MaxIssues
  BY BoardAssumption DEF NoIssue, None
<1> QED BY <1>1, WithIsTask

\* The steps of the requests about the issue.
LEMMA IssueStepsTyped ==
  ASSUME Shape, TypeInv, NEW r \in Requests, IssueStep(r)
  PROVE  TypedStep(r)
<1>0. IsTask(task)
  BY DEF TypeInv, StoreOK
<1>1. CASE LinkIssue(r) \/ PushIssue(r) \/ PullIssue(r)
  <2>1. UNCHANGED <<task, binding, roadmap, issues, cards>> /\ Go(r, "issue.call")
    BY <1>1 DEF LinkIssue, PushIssue, PullIssue, TaskOnly
  <2>2. \A title \in Titles : IsTask([task EXCEPT !.title = title])
    BY <1>0 DEF IsTask
  <2>3. Typed(r)'
    <3>1. CASE LinkIssue(r)
      <4>1. CASE \E n \in 1..MaxIssues : Keep(r, [op |-> "attach", task |-> task, number |-> n])
        BY <1>0, <2>1, <3>1, <4>1, AskTyped DEF LinkIssue, Labels, DocLabels
      <4>2. CASE \E title \in Titles :
                   Keep(r, [op |-> "create", task |-> [task EXCEPT !.title = title]])
        <5>1. PICK sent : /\ IsTask(sent)
                          /\ Keep(r, [op |-> "create", task |-> sent])
          BY <2>2, <4>2
        <5>2. Begin(r, "link")
          BY <3>1 DEF LinkIssue
        <5> QED BY <1>0, <2>1, <5>1, <5>2, AskTyped DEF Labels
      <4> QED BY <3>1, <4>1, <4>2 DEF LinkIssue
    <3>2. CASE PushIssue(r)
      BY <1>0, <2>1, <3>2, AskTyped DEF PushIssue, Labels, DocLabels
    <3>3. CASE PullIssue(r)
      BY <1>0, <2>1, <3>3, AskTyped DEF PullIssue, Labels, DocLabels
    <3> QED BY <1>1, <3>1, <3>2, <3>3
  <2> QED BY <2>1, <2>3, PeerKept, StoreKept DEF TypedStep, Labels
<1>2. CASE UnlinkIssue(r)
  <2>1. task' = With(task, NoIssue) /\ UNCHANGED <<binding, roadmap, issues, cards>> /\ Leave(r)
    BY <1>2 DEF UnlinkIssue, TaskOnly
  <2>2. IsTask(task')
    BY <1>0, <2>1, UnlinkedTyped
  <2> QED BY <1>0, <2>1, <2>2, TaskTyped, LeaveTyped DEF TypedStep
<1>3. CASE MoveByIssue(r) \/ RecordIssueFailure(r)
  <2>1. UNCHANGED <<binding, roadmap, issues, cards>> /\ Leave(r)
    BY <1>3 DEF MoveByIssue, RecordIssueFailure, TaskOnly
  <2>2. IsTask(task') /\ task'.issue = task.issue /\ task'.card = task.card
    BY <1>0, <1>3 DEF MoveByIssue, RecordIssueFailure, IsTask, TypeInv, Typed
  <2> QED BY <1>0, <2>1, <2>2, TaskTyped, LeaveTyped DEF TypedStep
<1> QED BY <1>1, <1>2, <1>3, CallIssueTyped, RecordIssueTyped DEF IssueStep

\* The item a call writes is one the board has, or its next.
LEMMA CardExtended ==
  ASSUME PeerOK, NEW c,
         c \in DOMAIN cards \/ (c = Cardinality(DOMAIN cards) + 1 /\ c <= MaxCards),
         NEW title, NEW status, NEW of \in {"task", "feature"},
         cards' = Extend(cards, c, [title |-> title, status |-> status, of |-> of])
  PROVE  /\ DOMAIN cards' = DOMAIN cards \cup {c} /\ DOMAIN cards' \subseteq 1..MaxCards
         /\ \A k \in DOMAIN cards' : IsCard(cards'[k])
         /\ \E n \in Nat : DOMAIN cards' = 1..n
<1>1. PICK n \in Nat : DOMAIN cards = 1..n
  BY DEF PeerOK
<1>2. Cardinality(DOMAIN cards) = n
  BY <1>1, FS_Interval
<1>3. MaxCards \in Nat /\ \A k \in DOMAIN cards : IsCard(cards[k])
  BY BoardAssumption DEF PeerOK
<1>4. DOMAIN cards' = DOMAIN cards \cup {c}
  BY DEF Extend
<1>5. \A k \in DOMAIN cards' : IsCard(cards'[k])
  <2>1. IsCard([title |-> title, status |-> status, of |-> of])
    BY DEF IsCard
  <2> DEFINE new == [title |-> title, status |-> status, of |-> of]
  <2> HIDE DEF new
  <2>2. \A k \in DOMAIN cards' : cards'[k] \in {new} \cup {cards[j] : j \in DOMAIN cards}
    BY <1>4 DEF Extend, new
  <2> QED BY <1>3, <2>1, <2>2 DEF new
<1>6. CASE c \in DOMAIN cards
  BY <1>1, <1>4, <1>5, <1>6 DEF PeerOK
<1>7. CASE c = n + 1 /\ c <= MaxCards
  <2>1. (1..n) \cup {n + 1} = 1..(n + 1) /\ n + 1 \in Nat
    OBVIOUS
  <2>2. DOMAIN cards' = 1..(n + 1) /\ n + 1 <= MaxCards
    BY <1>1, <1>4, <1>7, <2>1
  <2>3. 1..(n + 1) \subseteq 1..MaxCards
    BY <1>3, <2>2
  <2> QED BY <1>4, <1>5, <2>1, <2>2, <2>3
<1> QED BY <1>2, <1>6, <1>7

\* The answer names a card the board has.
LEMMA CallCardTyped ==
  ASSUME Shape, TypeInv, NEW r \in Requests, CallCard(r)
  PROVE  TypedStep(r)
<1> DEFINE l == loc[r]
           c == IF Known(l) # None THEN Known(l) ELSE Cardinality(DOMAIN cards) + 1
           of == IF l.op = "feature" THEN "feature" ELSE "task"
<1>1. /\ pc[r] = "card.call" /\ UNCHANGED <<issues, task, binding, roadmap, mix>>
      /\ Typed(r) /\ DOMAIN l = Fields
  BY DEF CallCard, At, PeerOnly, TypeInv, Typed, Shape, HoldsOK
<1>2. CASE Go(r, "card.fail") /\ UNCHANGED <<cards, loc, history>>
  <2>1. Typed(r)'
    BY <1>2, GoTyped DEF Labels, DocLabels
  <2> QED BY <1>1, <1>2, <2>1, PeerKept, StoreKept DEF TypedStep, Labels
<1>3. ASSUME c \in DOMAIN cards \/ (Known(l) = None /\ c <= MaxCards), NEW landed \in BOOLEAN, NEW title,
             cards' = Extend(cards, c, [title |-> title, status |-> l.task.status, of |-> of]),
             \/ /\ Go(r, AfterCard(l, landed))
                /\ IF l.op = "feature" /\ ~landed
                   THEN loc' = [loc EXCEPT ![r] = Fresh] ELSE Keep(r, [card |-> c])
             \/ Go(r, "card.fail") /\ UNCHANGED loc
      PROVE  TypedStep(r)
  <2>1. c \in DOMAIN cards \/ (c = Cardinality(DOMAIN cards) + 1 /\ c <= MaxCards)
    BY <1>3
  <2>2. of \in {"task", "feature"}
    OBVIOUS
  <2> HIDE DEF c, of
  <2>3. /\ DOMAIN cards' = DOMAIN cards \cup {c} /\ DOMAIN cards' \subseteq 1..MaxCards
        /\ \A k \in DOMAIN cards' : IsCard(cards'[k])
        /\ \E n \in Nat : DOMAIN cards' = 1..n
    BY <1>3, <2>1, <2>2, CardExtended DEF TypeInv
  <2>4. PeerOK' /\ StoreOK'
    BY <1>1, <2>3, StoreKept DEF TypeInv, PeerOK, IsIssue
  <2>5. CASE Go(r, "card.fail") /\ UNCHANGED loc
    <3>1. Typed(r)'
      BY <2>3, <2>5, GoTyped DEF Labels, DocLabels
    <3> QED BY <1>1, <2>3, <2>4, <2>5, <3>1 DEF TypedStep, Labels
  <2>6. CASE l.op = "feature" /\ ~landed /\ Go(r, AfterCard(l, landed))
             /\ loc' = [loc EXCEPT ![r] = Fresh]
    <3>1. Leave(r)
      BY <2>6 DEF Leave, AfterCard
    <3> QED BY <1>1, <2>3, <2>4, <3>1, LeaveTyped DEF TypedStep
  <2>7. CASE ~(l.op = "feature" /\ ~landed) /\ Go(r, AfterCard(l, landed)) /\ Keep(r, [card |-> c])
    <3>1. AfterCard(l, landed) = IF l.op = "feature" THEN "doc.read"
                                 ELSE IF landed THEN "card.record" ELSE "card.partial"
      BY <2>7 DEF AfterCard
    <3>2. pc'[r] = AfterCard(l, landed)
      BY <2>7 DEF Go, Shape
    <3>3. /\ loc'[r].card = c /\ loc'[r].task = l.task /\ loc'[r].doc = l.doc
          /\ loc'[r].meta = l.meta /\ loc'[r].column = l.column
          /\ loc'[r].number = l.number /\ loc'[r].op = l.op
      BY <2>7, KeptFields DEF Fields
    <3> HIDE DEF l
    <3>4. Typed(r)'
      BY <1>1, <2>3, <3>1, <3>2, <3>3 DEF Typed, DocLabels, l
    <3> QED BY <1>1, <2>3, <2>4, <2>7, <3>1, <3>4 DEF TypedStep, Labels
  <2> QED BY <1>3, <2>5, <2>6, <2>7
<1> QED BY <1>2, <1>3 DEF CallCard

\* The fields of a patch.
LEMMA PatchedTyped ==
  ASSUME NEW t, IsTask(t), NEW p \in Patches
  PROVE  IsTask(Patched(t, p))
<1> DEFINE base == [title |-> Untitled, status |-> Done, issue |-> None, state |-> "",
                    issueTitle |-> "", issueError |-> FALSE, project |-> FALSE, card |-> None,
                    cardError |-> FALSE, milestone |-> 0]
           w == With(base, p)
<1>1. /\ DOMAIN p \subseteq {"title", "issue", "state", "issueTitle", "project", "card", "milestone"}
      /\ IsTask(w)
  BY RequestAssumption DEF IsPatch
<1>2. \A f \in DOMAIN p : w[f] = p[f]
  <2>1. DOMAIN p \subseteq DOMAIN base
    BY <1>1
  <2> HIDE DEF base
  <2> QED BY <2>1, WithFields
<1> HIDE DEF w
<1>3. /\ "title" \in DOMAIN p => p.title \in Titles \cup {Untitled}
      /\ "issue" \in DOMAIN p => p.issue \in 0..MaxIssues
      /\ "state" \in DOMAIN p => p.state \in {"", Open, Closed}
      /\ "issueTitle" \in DOMAIN p => p.issueTitle \in Titles \cup {Untitled, ""}
      /\ "project" \in DOMAIN p => p.project \in BOOLEAN
      /\ "card" \in DOMAIN p => p.card \in 0..MaxCards
      /\ "milestone" \in DOMAIN p => p.milestone \in Binds
  BY <1>1, <1>2 DEF IsTask
<1>4. \A u : IsTask(u) => IsTask(With(u, p))
  BY <1>1, <1>3, WithIsTask
<1> QED BY <1>4, UnlinkedTyped DEF Patched

\* The steps of the requests about the card.
LEMMA CardStepsTyped ==
  ASSUME Shape, TypeInv, NEW r \in Requests, CardStep(r)
  PROVE  TypedStep(r)
<1>0. /\ IsTask(task) /\ Typed(r)
      /\ DOMAIN cards \subseteq 1..MaxCards /\ MaxCards \in Nat
  BY BoardAssumption DEF TypeInv, StoreOK, PeerOK
<1>1. CASE EditTask(r) \/ SyncTask(r) \/ SyncItem(r)
  <2>1. /\ UNCHANGED <<task, binding, roadmap, issues, cards>>
        /\ Go(r, "edit.write") \/ Go(r, "card.call")
    BY <1>1 DEF EditTask, SyncTask, SyncItem, TaskOnly
  <2>2. Typed(r)'
    <3>1. CASE EditTask(r)
      BY <1>0, <2>1, <3>1, AskTyped DEF EditTask, Labels
    <3>2. CASE SyncTask(r)
      BY <1>0, <2>1, <3>2, AskTyped DEF SyncTask, Labels
    <3>3. CASE SyncItem(r)
      <4>1. PICK op \in {"card", "feature"}, feature \in Features \cup {None},
                 title \in Titles, column \in Columns :
              Keep(r, [op |-> op, task |-> [task EXCEPT !.title = title, !.status = column],
                       feature |-> feature])
        BY <3>3 DEF SyncItem
      <4> DEFINE sent == [task EXCEPT !.title = title, !.status = column]
      <4>2. IsTask(sent) /\ sent.card = task.card
        BY <1>0 DEF IsTask
      <4>3. Begin(r, "card") /\ Go(r, "card.call") /\ UNCHANGED cards
        BY <2>1, <3>3 DEF SyncItem
      <4> HIDE DEF sent
      <4>4. Keep(r, [op |-> op, task |-> sent, feature |-> feature])
        BY <4>1 DEF sent
      <4> QED BY <1>0, <4>2, <4>3, <4>4, AskTyped DEF Labels
    <3> QED BY <1>1, <3>1, <3>2, <3>3
  <2> QED BY <2>1, <2>2, PeerKept, StoreKept DEF TypedStep, Labels
<1>2. CASE WriteTask(r)
  <2>1. /\ pc[r] = "edit.write" /\ UNCHANGED <<binding, roadmap, issues, cards>>
        /\ (Go(r, "card.call") /\ Keep(r, [task |-> task'])) \/ Leave(r)
    BY <1>2 DEF WriteTask, At, TaskOnly
  <2>2. IsTask(task')
    BY <1>0, <1>2, PatchedTyped DEF WriteTask
  <2>3. /\ PeerOK' /\ StoreOK'
        /\ DOMAIN issues \subseteq DOMAIN issues' /\ DOMAIN cards \subseteq DOMAIN cards'
    BY <2>1, <2>2, TaskTyped
  <2>4. CASE Go(r, "card.call") /\ Keep(r, [task |-> task'])
    <3>1. /\ pc'[r] = "card.call" /\ loc'[r].task = task' /\ loc'[r].doc = loc[r].doc
          /\ loc'[r].meta = loc[r].meta /\ loc'[r].column = loc[r].column
          /\ loc'[r].card = loc[r].card
      BY <2>4, KeptFields DEF Fields, Go, Shape
    <3>2. Typed(r)'
      BY <1>0, <2>1, <2>2, <3>1 DEF Typed, DocLabels
    <3> QED BY <2>3, <2>4, <3>2 DEF TypedStep, Labels
  <2> QED BY <2>1, <2>3, <2>4, LeaveTyped DEF TypedStep
<1>3. CASE RecordCard(r) \/ KeepCard(r)
  <2> DEFINE fields == IF pc[r] = "card.record"
                       THEN [project |-> TRUE, card |-> loc[r].card, cardError |-> FALSE]
                       ELSE [project |-> TRUE, card |-> loc[r].card]
  <2>1. /\ pc[r] \in {"card.record", "card.keep"} /\ task' \in {task, With(task, fields)}
        /\ UNCHANGED <<binding, roadmap, issues, cards>>
    BY <1>3 DEF RecordCard, KeepCard, At, TaskOnly
  <2>2. loc[r].card \in DOMAIN cards /\ loc[r].card \in 0..MaxCards
    BY <1>0, <2>1 DEF Typed
  <2>3. /\ DOMAIN fields \subseteq {"project", "card", "cardError"}
        /\ "card" \in DOMAIN fields /\ fields.card = loc[r].card
        /\ "project" \in DOMAIN fields => fields.project \in BOOLEAN
        /\ "cardError" \in DOMAIN fields => fields.cardError \in BOOLEAN
    OBVIOUS
  <2> HIDE DEF fields
  <2>4. IsTask(task')
    <3>1. IsTask(With(task, fields))
      BY <1>0, <2>2, <2>3, WithIsTask
    <3> QED BY <1>0, <2>1, <3>1
  <2>5. /\ PeerOK' /\ StoreOK'
        /\ DOMAIN issues \subseteq DOMAIN issues' /\ DOMAIN cards \subseteq DOMAIN cards'
    BY <1>0, <2>1, <2>2, <2>4, TaskTyped
  <2>6. CASE Go(r, "doc.read") /\ UNCHANGED loc /\ pc[r] = "card.record" /\ loc[r].feature # None
    <3>1. loc[r].op \in {"card", "feature"}
      BY <2>6 DEF Shape, HoldsOK, CardLabels
    <3>2. Typed(r)'
      BY <2>5, <2>6, <3>1, GoTyped DEF Labels
    <3> QED BY <2>5, <2>6, <3>2 DEF TypedStep, Labels
  <2>7. CASE Leave(r)
    BY <2>5, <2>7, LeaveTyped DEF TypedStep
  <2> QED BY <1>3, <2>6, <2>7 DEF RecordCard, KeepCard, At
<1>4. CASE RecordPartial(r)
  <2>1. /\ pc[r] = "card.partial" /\ task' = [task EXCEPT !.cardError = TRUE]
        /\ UNCHANGED <<binding, roadmap, issues, cards>>
    BY <1>4 DEF RecordPartial, At, TaskOnly
  <2>2. IsTask(task') /\ task'.issue = task.issue /\ task'.card = task.card
    BY <1>0, <2>1 DEF IsTask
  <2>3. /\ PeerOK' /\ StoreOK'
        /\ DOMAIN issues \subseteq DOMAIN issues' /\ DOMAIN cards \subseteq DOMAIN cards'
    BY <1>0, <2>1, <2>2, TaskTyped
  <2>4. CASE Go(r, "card.keep") /\ UNCHANGED loc
    <3>1. Typed(r)'
      BY <2>1, <2>3, <2>4, GoTyped DEF Labels, DocLabels
    <3> QED BY <2>3, <2>4, <3>1 DEF TypedStep, Labels
  <2> QED BY <1>4, <2>3, <2>4, LeaveTyped DEF RecordPartial, TypedStep
<1>5. CASE RecordCardFailure(r) \/ RecordStatus(r) \/ DetachCard(r)
  <2>1. UNCHANGED <<binding, roadmap, issues, cards>> /\ Leave(r)
    BY <1>5 DEF RecordCardFailure, RecordStatus, DetachCard, TaskOnly
  <2>2. IsTask(task') /\ task'.issue = task.issue /\ task'.card \in {task.card, None}
    <3>1. CASE RecordCardFailure(r) \/ RecordStatus(r)
      BY <1>0, <3>1 DEF RecordCardFailure, RecordStatus, IsTask
    <3>2. CASE DetachCard(r)
      <4>1. /\ DOMAIN NoCard = {"project", "card", "cardError"} /\ NoCard.project = FALSE
            /\ NoCard.card = None /\ NoCard.cardError = FALSE /\ None \in 0..MaxCards
        BY <1>0 DEF NoCard, None
      <4>2. task' = With(task, NoCard)
        BY <3>2 DEF DetachCard
      <4> QED BY <1>0, <4>1, <4>2, WithIsTask, WithLinks
    <3> QED BY <1>5, <3>1, <3>2
  <2> QED BY <1>0, <2>1, <2>2, TaskTyped, LeaveTyped DEF TypedStep
<1>6. CASE DragTask(r)
  <2>1. PICK column \in Columns :
          /\ task' = [task EXCEPT !.status = column]
          /\ \/ Go(r, "status.call") /\ Keep(r, [op |-> "drag", task |-> task'])
             \/ Leave(r)
    BY <1>6 DEF DragTask
  <2>2. /\ Begin(r, "drag") /\ UNCHANGED <<binding, roadmap, issues, cards>>
        /\ IsTask(task') /\ task'.issue = task.issue /\ task'.card = task.card
    BY <1>0, <1>6, <2>1 DEF DragTask, TaskOnly, IsTask
  <2>3. /\ PeerOK' /\ StoreOK'
        /\ DOMAIN issues \subseteq DOMAIN issues' /\ DOMAIN cards \subseteq DOMAIN cards'
    BY <1>0, <2>2, TaskTyped
  <2>4. CASE Go(r, "status.call") /\ Keep(r, [op |-> "drag", task |-> task'])
    <3>1. Typed(r)'
      BY <1>0, <2>2, <2>4, AskTyped DEF Labels
    <3> QED BY <2>3, <2>4, <3>1 DEF TypedStep, Labels
  <2> QED BY <2>1, <2>3, <2>4, LeaveTyped DEF TypedStep
<1>7. CASE CallStatus(r)
  <2>1. /\ pc[r] = "status.call" /\ UNCHANGED <<issues, loc, task, binding, roadmap>>
        /\ Go(r, "card.fail") \/ Go(r, "status.record")
    BY <1>7 DEF CallStatus, At, PeerOnly
  <2>2. DOMAIN cards' = DOMAIN cards /\ \A c \in DOMAIN cards : IsCard(cards'[c])
    BY <1>7 DEF CallStatus, TypeInv, PeerOK, IsCard
  <2>3. PeerOK' /\ StoreOK'
    BY <2>1, <2>2, StoreKept DEF TypeInv, PeerOK, IsIssue
  <2>4. Typed(r)'
    BY <2>1, <2>2, GoTyped DEF Labels, DocLabels
  <2> QED BY <2>1, <2>2, <2>3, <2>4 DEF TypedStep, Labels
<1>8. CASE BindProject(r)
  <2>1. UNCHANGED <<task, roadmap, issues, cards>> /\ binding' \in BOOLEAN /\ Leave(r)
    BY <1>8 DEF BindProject
  <2>2. StoreOK'
    BY <2>1 DEF TypeInv, StoreOK
  <2> QED BY <2>1, <2>2, PeerKept, LeaveTyped DEF TypedStep
<1> QED BY <1>1, <1>2, <1>3, <1>4, <1>5, <1>6, <1>7, <1>8, CallCardTyped DEF CardStep

\* A roadmap with other phases is one.
LEMMA PhasesTyped ==
  ASSUME NEW doc, IsRoadmap(doc), NEW phases, DOMAIN phases \subseteq Phases,
         \A p \in DOMAIN phases : phases[p] \in Binds
  PROVE  IsRoadmap([doc EXCEPT !.phases = phases])
BY DEF IsRoadmap

\* With other features.
LEMMA FeaturesTyped ==
  ASSUME NEW doc, IsRoadmap(doc), NEW features, DOMAIN features \subseteq Features,
         \A f \in DOMAIN features : IsFeature(features[f])
  PROVE  IsRoadmap([doc EXCEPT !.features = features])
BY DEF IsRoadmap

\* With one more published.
LEMMA PublishedTyped ==
  ASSUME NEW doc, IsRoadmap(doc), NEW f \in Features
  PROVE  IsRoadmap([doc EXCEPT !.published = @ \cup {f}])
BY DEF IsRoadmap

\* What a discovery makes of it.
LEMMA DiscoveriesTyped ==
  ASSUME NEW doc, IsRoadmap(doc), NEW d \in Discoveries(doc)
  PROVE  IsRoadmap(d)
<1>1. DOMAIN doc.phases \subseteq Phases /\ \A p \in DOMAIN doc.phases : doc.phases[p] \in Binds
  BY DEF IsRoadmap
<1>2. 0 \in Binds
  BY DEF Binds
<1>3. ASSUME NEW incoming \in SUBSET Phases, d = [doc EXCEPT !.phases = MergePhases(@, incoming)]
      PROVE  IsRoadmap(d)
  <2> DEFINE merged == MergePhases(doc.phases, incoming)
  <2>1. DOMAIN merged \subseteq Phases /\ \A p \in DOMAIN merged : merged[p] \in Binds
    <3>1. CASE incoming = {}
      BY <1>1, <3>1 DEF MergePhases
    <3>2. CASE incoming # {} /\ Bound(doc.phases) = {}
      <4>1. merged = [p \in incoming |-> 0]
        BY <3>2 DEF MergePhases
      <4> QED BY <1>2, <4>1
    <3>3. CASE incoming # {} /\ Bound(doc.phases) # {}
      <4>1. merged = [p \in DOMAIN doc.phases \cup incoming |->
                        IF p \in DOMAIN doc.phases THEN doc.phases[p] ELSE 0]
        BY <3>3 DEF MergePhases
      <4> QED BY <1>1, <1>2, <4>1
    <3> QED BY <3>1, <3>2, <3>3
  <2>2. d = [doc EXCEPT !.phases = merged]
    BY <1>3
  <2> HIDE DEF merged
  <2> QED BY <2>1, <2>2, PhasesTyped
<1>4. IsRoadmap([doc EXCEPT !.phases = [p \in Phases |-> 0]])
  BY <1>2, PhasesTyped
<1> QED BY <1>3, <1>4 DEF Discoveries

\* What a run of features makes of it.
LEMMA WithFeaturesTyped ==
  ASSUME NEW doc, IsRoadmap(doc), NEW d \in WithFeatures(doc)
  PROVE  IsRoadmap(d)
<1>1. PICK in \in UNION {[fresh -> DOMAIN doc.phases] : fresh \in SUBSET (Features \ DOMAIN doc.features)} :
        d = [doc EXCEPT !.features = [f \in DOMAIN @ \cup DOMAIN in |->
                                        IF f \in DOMAIN @ THEN @[f] ELSE NewFeature(in[f])]]
  BY DEF WithFeatures
<1>2. PICK fresh \in SUBSET (Features \ DOMAIN doc.features) : in \in [fresh -> DOMAIN doc.phases]
  BY <1>1
<1>3. /\ DOMAIN in \subseteq Features /\ \A f \in DOMAIN in : in[f] \in Phases
      /\ DOMAIN doc.features \subseteq Features
      /\ \A f \in DOMAIN doc.features : IsFeature(doc.features[f])
  BY <1>2 DEF IsRoadmap
<1>4. \A p \in Phases : IsFeature(NewFeature(p))
  BY BoardAssumption DEF IsFeature, NewFeature, Binds, None
<1> DEFINE features == [f \in DOMAIN doc.features \cup DOMAIN in |->
                          IF f \in DOMAIN doc.features THEN doc.features[f] ELSE NewFeature(in[f])]
<1>5. DOMAIN features \subseteq Features /\ \A f \in DOMAIN features : IsFeature(features[f])
  BY <1>3, <1>4
<1>6. d = [doc EXCEPT !.features = features]
  BY <1>1
<1> HIDE DEF features
<1> QED BY <1>5, <1>6, FeaturesTyped

\* What a client puts back.
LEMMA EditedTyped ==
  ASSUME NEW doc, IsRoadmap(doc), NEW d \in Edited(doc)
  PROVE  IsRoadmap(d)
<1>1. ASSUME NEW f \in DOMAIN doc.features,
             d = [doc EXCEPT !.features = [g \in DOMAIN @ \ {f} |-> @[g]]]
      PROVE  IsRoadmap(d)
  BY <1>1 DEF IsRoadmap
<1> QED BY <1>1, RequestAssumption DEF Edited

\* With the milestone of a feature and of a phase.
LEMMA MilestonedTyped ==
  ASSUME NEW doc, IsRoadmap(doc), NEW f, NEW p, NEW n \in Binds
  PROVE  IsRoadmap(Milestoned(doc, f, p, n))
<1> DEFINE phases == [q \in DOMAIN doc.phases |-> IF q = p THEN n ELSE doc.phases[q]]
           features == [g \in DOMAIN doc.features |->
                          IF g = f THEN [doc.features[g] EXCEPT !.milestone = n] ELSE doc.features[g]]
<1>1. DOMAIN phases \subseteq Phases /\ \A q \in DOMAIN phases : phases[q] \in Binds
  BY DEF IsRoadmap
<1>2. DOMAIN features \subseteq Features /\ \A g \in DOMAIN features : IsFeature(features[g])
  BY DEF IsRoadmap, IsFeature
<1>3. Milestoned(doc, f, p, n) = [[doc EXCEPT !.features = features] EXCEPT !.phases = phases]
  BY DEF Milestoned, IsRoadmap
<1> HIDE DEF phases, features
<1>4. IsRoadmap([doc EXCEPT !.features = features])
  BY <1>2, FeaturesTyped
<1>5. IsRoadmap([[doc EXCEPT !.features = features] EXCEPT !.phases = phases])
  BY <1>1, <1>4, PhasesTyped
<1> QED BY <1>3, <1>5

\* Every document a job or a handler writes is a roadmap.
LEMMA NewDocsTyped ==
  ASSUME NEW l, IsRoadmap(l.doc), l.op \in DocOps, l.card \in 0..MaxCards,
         l.op \in {"assign", "unassign"} => l.number \in Binds,
         NEW d \in NewDocs(l)
  PROVE  IsRoadmap(d)
<1>1. CASE l.op = "discovery"
  BY <1>1, DiscoveriesTyped DEF NewDocs
<1>2. CASE l.op = "features"
  BY <1>2, WithFeaturesTyped DEF NewDocs
<1>3. CASE l.op \in {"competitor", "client"}
  BY <1>3, EditedTyped DEF NewDocs
<1>4. CASE l.op = "assign"
  <2>1. d = Milestoned(l.doc, l.feature, l.phase, l.number)
    BY <1>4 DEF NewDocs
  <2> QED BY <1>4, <2>1, MilestonedTyped
<1>5. CASE l.op = "unassign"
  <2>1. d = Milestoned(l.doc, l.feature, l.phase, 0)
    BY <1>5 DEF NewDocs
  <2> QED BY <2>1, MilestonedTyped DEF Binds
<1>6. CASE l.op \in {"card", "feature"}
  <2> DEFINE features == [g \in DOMAIN l.doc.features |->
                            IF g = l.feature THEN [l.doc.features[g] EXCEPT !.card = l.card]
                                             ELSE l.doc.features[g]]
  <2>1. DOMAIN features \subseteq Features /\ \A g \in DOMAIN features : IsFeature(features[g])
    BY DEF IsRoadmap, IsFeature
  <2>2. d = [l.doc EXCEPT !.features = features]
    BY <1>6 DEF NewDocs
  <2> HIDE DEF features
  <2> QED BY <2>1, <2>2, FeaturesTyped
<1> QED BY <1>1, <1>2, <1>3, <1>4, <1>5, <1>6 DEF DocOps

\* A step that may change the roadmap, and nothing else that is kept.
LEMMA RoadmapTyped ==
  ASSUME TypeInv, UNCHANGED <<issues, cards, binding, task>>, IsRoadmap(roadmap')
  PROVE  /\ PeerOK' /\ StoreOK'
         /\ DOMAIN issues \subseteq DOMAIN issues' /\ DOMAIN cards \subseteq DOMAIN cards'
BY PeerKept DEF TypeInv, StoreOK

\* A request that begins with the roadmap.
LEMMA TakeTyped ==
  ASSUME Shape, TypeInv, NEW r \in Requests, NEW kind, kind \notin {"assign", "unassign"},
         NEW at \in {"doc.write", "boot.read", "publish.next"}, Take(r, kind, at)
  PROVE  TypedStep(r)
<1>1. /\ Begin(r, kind) /\ Go(r, at) /\ Keep(r, [op |-> kind, doc |-> roadmap])
      /\ UNCHANGED <<roadmap, task, binding, issues, cards>>
  BY DEF Take, RoadmapOnly
<1>2. /\ loc'[r].op = kind /\ loc'[r].doc = roadmap /\ loc'[r].task = loc[r].task
      /\ loc'[r].meta = loc[r].meta /\ loc'[r].column = loc[r].column
      /\ loc'[r].card = loc[r].card /\ pc'[r] = at
  BY <1>1, KeptFields DEF Fields, Go, Shape
<1>3. Typed(r) /\ IsRoadmap(roadmap)
  BY DEF TypeInv, StoreOK
<1>4. Typed(r)'
  BY <1>1, <1>2, <1>3 DEF Typed
<1> QED BY <1>1, <1>3, <1>4, RoadmapTyped DEF TypedStep, Labels

\* A feature whose issue the peer opens, refuses, or opens unheard.
LEMMA PublishNextTyped ==
  ASSUME Shape, TypeInv, NEW r \in Requests, PublishNext(r)
  PROVE  TypedStep(r)
<1> DEFINE l == loc[r]
           n == Cardinality(DOMAIN issues) + 1
<1>1. PICK f \in Pending(l) :
        /\ UNCHANGED <<cards, pc, task, binding, roadmap>>
        /\ \/ Keep(r, [tried |-> l.tried \cup {f}]) /\ UNCHANGED issues
           \/ /\ n <= MaxIssues
              /\ issues' = Extend(issues, n, Issue(Untitled, Open, Number(l.doc.features[f].milestone), f))
              /\ \/ Keep(r, [tried |-> l.tried \cup {f}, doc |-> [l.doc EXCEPT !.published = @ \cup {f}]])
                 \/ Keep(r, [tried |-> l.tried \cup {f}])
  BY DEF PublishNext, PeerOnly
<1>2. /\ pc[r] = "publish.next" /\ pc'[r] = "publish.next" /\ Go(r, "publish.next")
      /\ IsRoadmap(l.doc) /\ Typed(r)
  <2>1. pc[r] = "publish.next" /\ pc' = pc
    BY DEF PublishNext, At
  <2> QED BY <2>1 DEF Go, TypeInv, Typed, Shape
<1>3. f \in Features /\ Number(l.doc.features[f].milestone) \in Milestones
  BY <1>2, NumberIsMilestone DEF Pending, IsRoadmap, IsFeature
<1>4. /\ DOMAIN issues' \subseteq 1..MaxIssues /\ \A k \in DOMAIN issues' : IsIssue(issues'[k])
      /\ DOMAIN issues \subseteq DOMAIN issues'
  <2>1. CASE UNCHANGED issues
    BY <2>1 DEF TypeInv, PeerOK
  <2>2. CASE n <= MaxIssues
             /\ issues' = Extend(issues, n, Issue(Untitled, Open, Number(l.doc.features[f].milestone), f))
    <3> DEFINE milestone == Number(l.doc.features[f].milestone)
               new == Issue(Untitled, Open, milestone, f)
    <3>1. IsIssue(new)
      BY <1>3 DEF IsIssue, Issue
    <3> HIDE DEF milestone
    <3>2. n \notin DOMAIN issues /\ DOMAIN issues' = DOMAIN issues \cup {n}
      BY <2>2, IssuesExtended DEF milestone
    <3> HIDE DEF new
    <3>3. issues'[n] = new /\ \A k \in DOMAIN issues : issues'[k] = issues[k]
      BY <2>2, <3>2 DEF Extend, new, milestone
    <3>4. n \in 1..MaxIssues
      <4>1. PICK m \in Nat : DOMAIN issues = 1..m
        BY DEF Shape, IssuesOK
      <4>2. Cardinality(DOMAIN issues) = m
        BY <4>1, FS_Interval
      <4> QED BY <2>2, <4>2, BoardAssumption
    <3> QED BY <3>1, <3>2, <3>3, <3>4 DEF TypeInv, PeerOK
  <2> QED BY <1>1, <2>1, <2>2
<1>5. PeerOK' /\ StoreOK'
  BY <1>1, <1>4, StoreKept DEF TypeInv, PeerOK, IsCard
<1>6. /\ IsRoadmap(loc'[r].doc) /\ loc'[r].task = l.task /\ loc'[r].meta = l.meta
      /\ loc'[r].column = l.column /\ loc'[r].card = l.card /\ loc'[r].op = l.op
  <2>1. ASSUME NEW fields, Keep(r, fields), DOMAIN fields \subseteq {"tried", "doc"},
               "doc" \in DOMAIN fields => IsRoadmap(fields["doc"])
        PROVE  /\ IsRoadmap(loc'[r].doc) /\ loc'[r].task = l.task /\ loc'[r].meta = l.meta
               /\ loc'[r].column = l.column /\ loc'[r].card = l.card /\ loc'[r].op = l.op
    BY <1>2, <2>1, KeptFields DEF Fields
  <2>2. CASE Keep(r, [tried |-> l.tried \cup {f}])
    BY <2>1, <2>2
  <2>3. CASE Keep(r, [tried |-> l.tried \cup {f}, doc |-> [l.doc EXCEPT !.published = @ \cup {f}]])
    <3> DEFINE doc == [l.doc EXCEPT !.published = @ \cup {f}]
    <3>1. IsRoadmap(doc)
      BY <1>2, <1>3, PublishedTyped
    <3>2. Keep(r, [tried |-> l.tried \cup {f}, doc |-> doc])
      BY <2>3
    <3> HIDE DEF doc
    <3> QED BY <2>1, <3>1, <3>2
  <2> QED BY <1>1, <2>2, <2>3
<1>7. Typed(r)'
  BY <1>1, <1>2, <1>6 DEF Typed, DocLabels
<1> QED BY <1>1, <1>2, <1>4, <1>5, <1>7 DEF TypedStep, Labels

\* The steps of the requests about the roadmap.
LEMMA RoadmapStepsTyped ==
  ASSUME Shape, TypeInv, NEW r \in Requests, RoadmapStep(r)
  PROVE  TypedStep(r)
<1>0. Typed(r) /\ IsRoadmap(roadmap) /\ IsTask(task)
  BY DEF TypeInv, StoreOK
<1>1. CASE RunRoadmapJob(r) \/ Publish(r)
  <2>1. \E kind, at : /\ kind \notin {"assign", "unassign"}
                      /\ at \in {"doc.write", "boot.read", "publish.next"} /\ Take(r, kind, at)
    <3>1. CASE Publish(r)
      BY <3>1 DEF Publish
    <3>2. CASE RunRoadmapJob(r)
      BY <3>2, Zenon DEF RunRoadmapJob
    <3> QED BY <1>1, <3>1, <3>2
  <2> QED BY <2>1, TakeTyped
<1>2. CASE ReadRoadmap(r)
  <2>1. /\ UNCHANGED <<roadmap, task, binding, issues, cards>> /\ Keep(r, [doc |-> roadmap])
        /\ pc[r] \in DocLabels
        /\ Go(r, "boot.write") \/ Go(r, "doc.write")
    BY <1>2 DEF ReadRoadmap, RoadmapOnly, At, DocLabels
  <2>2. /\ loc'[r].doc = roadmap /\ loc'[r].task = loc[r].task /\ loc'[r].op = loc[r].op
        /\ loc'[r].number = loc[r].number /\ loc'[r].meta = loc[r].meta
        /\ loc'[r].column = loc[r].column /\ loc'[r].card = loc[r].card
        /\ pc'[r] \in {"boot.write", "doc.write"}
    BY <2>1, KeptFields DEF Fields, Go, Shape
  <2>3. Typed(r)'
    BY <1>0, <2>1, <2>2 DEF Typed
  <2> QED BY <1>0, <2>1, <2>3, RoadmapTyped DEF TypedStep, Labels
<1>3. CASE Bootstrap(r)
  <2>1. /\ roadmap' \in Discoveries(loc[r].doc) /\ UNCHANGED loc
        /\ Go(r, "doc.read") \/ Go(r, "boot.read")
        /\ UNCHANGED <<task, binding, issues, cards>> /\ pc[r] = "boot.write"
    BY <1>3 DEF Bootstrap, RoadmapOnly, At
  <2>2. IsRoadmap(roadmap')
    BY <1>0, <2>1, DiscoveriesTyped DEF Typed
  <2>3. Typed(r)'
    BY <2>1, GoTyped DEF Labels, DocLabels
  <2> QED BY <2>1, <2>2, <2>3, RoadmapTyped DEF TypedStep, Labels
<1>4. CASE WriteRoadmap(r)
  <2>1. /\ roadmap' \in NewDocs(loc[r]) \cup {roadmap} /\ Leave(r) /\ pc[r] = "doc.write"
        /\ UNCHANGED <<task, binding, issues, cards>>
    BY <1>4 DEF WriteRoadmap, RoadmapOnly, At
  <2>2. /\ loc[r].op \in DocOps /\ loc[r].card \in 0..MaxCards
        /\ loc[r].op \in {"assign", "unassign"} => loc[r].number \in Binds
    <3>1. DOMAIN cards \subseteq 1..MaxCards /\ MaxCards \in Nat
      BY BoardAssumption DEF TypeInv, PeerOK
    <3> QED BY <1>0, <2>1, <3>1 DEF Typed, Shape, HoldsOK, DocLabels, None
  <2>3. IsRoadmap(roadmap')
    BY <1>0, <2>1, <2>2, NewDocsTyped DEF Typed
  <2> QED BY <2>1, <2>3, RoadmapTyped, LeaveTyped DEF TypedStep
<1>5. CASE AssignMilestone(r) \/ UnassignMilestone(r)
  <2>1. PICK kind \in {"assign", "unassign"}, at \in {"assign.call", "milestone.task"} :
          Target(r, kind, at)
    BY <1>5 DEF AssignMilestone, UnassignMilestone
  <2>2. PICK f, p, forTask :
          /\ Begin(r, kind) /\ Go(r, at)
          /\ Keep(r, [op |-> kind, feature |-> f, phase |-> p, forTask |-> forTask, task |-> task])
          /\ UNCHANGED <<roadmap, task, binding, issues, cards>>
    BY <2>1 DEF Target, RoadmapOnly
  <2>3. Typed(r)'
    BY <1>0, <2>2, AskTyped DEF Labels
  <2> QED BY <1>0, <2>2, <2>3, RoadmapTyped DEF TypedStep, Labels
<1>6. CASE CallMilestone(r)
  <2>1. UNCHANGED <<roadmap, task, binding, issues, cards>> /\ pc[r] = "assign.call"
    BY <1>6 DEF CallMilestone, PeerOnly, At
  <2>2. ASSUME NEW n \in Binds, Go(r, "milestone.task"), Keep(r, [number |-> n])
        PROVE  TypedStep(r)
    <3>1. /\ loc'[r].doc = loc[r].doc /\ loc'[r].task = loc[r].task /\ loc'[r].number = n
          /\ loc'[r].meta = loc[r].meta /\ loc'[r].column = loc[r].column
          /\ loc'[r].card = loc[r].card /\ pc'[r] = "milestone.task"
      BY <2>2, KeptFields DEF Fields, Go, Shape
    <3>2. Typed(r)'
      BY <1>0, <2>1, <3>1 DEF Typed
    <3> QED BY <1>0, <2>1, <2>2, <3>2, RoadmapTyped DEF TypedStep, Labels
  <2> QED BY <1>0, <1>6, <2>1, <2>2, RoadmapTyped, LeaveTyped DEF CallMilestone, TypedStep
<1>7. CASE SetTaskMilestone(r)
  <2>1. /\ pc[r] = "milestone.task" /\ UNCHANGED <<binding, roadmap, issues, cards>>
        /\ \/ task' = task
           \/ task' = [task EXCEPT !.milestone = loc[r].number]
        /\ (Go(r, "doc.read") /\ UNCHANGED loc) \/ Leave(r)
    <3>1. pc[r] = "milestone.task"
      BY <1>7 DEF SetTaskMilestone, At
    <3> QED BY <1>7, <3>1 DEF SetTaskMilestone, TaskOnly
  <2>2. IsTask(task') /\ task'.issue = task.issue /\ task'.card = task.card
    BY <1>0, <2>1 DEF Typed, DocLabels, IsTask
  <2>3. /\ PeerOK' /\ StoreOK'
        /\ DOMAIN issues \subseteq DOMAIN issues' /\ DOMAIN cards \subseteq DOMAIN cards'
    BY <1>0, <2>1, <2>2, TaskTyped DEF TypeInv, StoreOK
  <2>4. CASE Go(r, "doc.read") /\ UNCHANGED loc
    <3>1. Typed(r)'
      BY <2>1, <2>3, <2>4, GoTyped DEF Labels, DocLabels
    <3> QED BY <2>3, <2>4, <3>1 DEF TypedStep, Labels
  <2> QED BY <2>1, <2>3, <2>4, LeaveTyped DEF TypedStep
<1>8. CASE RecordPublished(r)
  <2>1. roadmap' \in {roadmap, loc[r].doc} /\ Leave(r) /\ UNCHANGED <<task, binding, issues, cards>>
    BY <1>8 DEF RecordPublished, RoadmapOnly
  <2> QED BY <1>0, <2>1, RoadmapTyped, LeaveTyped DEF TypedStep, Typed
<1> QED BY <1>1, <1>2, <1>3, <1>4, <1>5, <1>6, <1>7, <1>8, PublishNextTyped DEF RoadmapStep

\* Somebody edits an issue on GitHub; the server dies.
LEMMA OthersTyped ==
  ASSUME Shape, TypeInv, EditOnGitHub \/ Die \/ Finished
  PROVE  TypeInv'
<1>0. IsTask(Fresh.task)'
  BY DEF TypeInv, IsTask, Fresh
<1>1. CASE EditOnGitHub
  <2>1. UNCHANGED <<cards, task, binding, roadmap, pc, loc>>
    BY <1>1 DEF EditOnGitHub, PeerOnly
  <2>2. DOMAIN issues' = DOMAIN issues /\ \A n \in DOMAIN issues : IsIssue(issues'[n])
    BY <1>1 DEF EditOnGitHub, TypeInv, PeerOK, IsIssue
  <2>3. PeerOK' /\ StoreOK'
    BY <2>1, <2>2, StoreKept DEF TypeInv, PeerOK, IsCard
  <2>4. \A r \in Requests : Typed(r)'
    BY <2>1, <2>2 DEF TypeInv, Typed
  <2> QED BY <1>0, <2>1, <2>3, <2>4 DEF TypeInv
<1>2. CASE Die
  <2>1. /\ UNCHANGED <<task, binding, roadmap, issues, cards>>
        /\ pc' = [r \in Requests |-> IF Busy(r) THEN "dead" ELSE pc[r]]
        /\ loc' = [r \in Requests |-> Fresh]
    BY <1>2 DEF Die
  <2>2. PeerOK' /\ StoreOK'
    BY <2>1, PeerKept, StoreKept
  <2>3. \A r \in Requests : pc'[r] \in {"dead", "idle", "done"} /\ loc'[r] = Fresh
    BY <2>1 DEF Busy
  <2>4. pc' \in [Requests -> Labels]
    BY <2>1, <2>3 DEF Labels
  <2>5. /\ Fresh.doc = NoRoadmap /\ Fresh.op = "none" /\ Fresh.column = Done /\ Fresh.card = None
        /\ Fresh.meta = Issue(Untitled, Open, 0, None)
    BY DEF Fresh
  <2>6. IsRoadmap(NoRoadmap) /\ IsIssue(Issue(Untitled, Open, 0, None)) /\ Done \in Columns
    BY BoardAssumption DEF IsRoadmap, NoRoadmap, IsIssue, Issue, Milestones
  <2>7. IsTask(Fresh.task)
    BY DEF TypeInv
  <2>8. \A r \in Requests : Typed(r)'
    BY <2>3, <2>5, <2>6, <2>7 DEF Typed, DocLabels
  <2> QED BY <1>0, <2>2, <2>4, <2>8 DEF TypeInv
<1>3. CASE Finished
  <2>1. UNCHANGED <<cards, issues, task, binding, roadmap, pc, loc>>
    BY <1>3 DEF Finished, vars
  <2>2. PeerOK' /\ StoreOK'
    BY <2>1, PeerKept, StoreKept
  <2>3. \A r \in Requests : Typed(r)'
    BY <2>1 DEF TypeInv, Typed
  <2> QED BY <1>0, <2>1, <2>2, <2>3 DEF TypeInv
<1> QED BY <1>1, <1>2, <1>3

\* What a behaviour starts with.
LEMMA InitTyped == Init => TypeInv
<1> SUFFICES ASSUME Init PROVE TypeInv
  OBVIOUS
<1>1. /\ task \in Tasks /\ roadmap \in Roadmaps /\ binding \in BOOLEAN
      /\ IsTask(task) /\ IsRoadmap(roadmap)
      /\ task.issue \in {None, 1} /\ task.card \in {None, 1}
  BY StartAssumption, GitHubAssumption DEF Init
<1>2. IsTask(Fresh.task)
  <2>1. Fresh.task = CHOOSE t \in Tasks : TRUE
    BY DEF Fresh
  <2> QED BY <1>1, <2>1, StartAssumption
<1>3. /\ task.issue \in 0..MaxIssues /\ task.card \in 0..MaxCards
      /\ MaxIssues \in Nat /\ MaxCards \in Nat
  BY <1>1, BoardAssumption DEF IsTask
<1>4. PeerOK /\ StoreOK
  <2>1. /\ DOMAIN issues = (IF task.issue = None THEN {} ELSE {task.issue})
        /\ \A n \in DOMAIN issues : issues[n] = Issue(task.title, task.state, Number(task.milestone), None)
    BY DEF Init
  <2>2. task.issue # None => IsIssue(Issue(task.title, task.state, Number(task.milestone), None))
    BY <1>1, StartAssumption, NumberIsMilestone DEF IsTask, IsIssue, Issue
  <2>3. DOMAIN issues \subseteq 1..MaxIssues /\ \A n \in DOMAIN issues : IsIssue(issues[n])
    BY <1>3, <2>1, <2>2 DEF None
  <2>4. /\ DOMAIN cards = (IF task.card = None THEN {} ELSE {task.card})
        /\ \A c \in DOMAIN cards : IsCard(cards[c])
    BY DEF Init, IsCard
  <2>5. DOMAIN cards \subseteq 1..MaxCards
    BY <1>3, <2>4 DEF None
  <2>6. DOMAIN cards = 1..0 \/ DOMAIN cards = 1..1
    BY <1>1, <2>4 DEF None
  <2> QED BY <1>1, <2>1, <2>3, <2>4, <2>5, <2>6 DEF PeerOK, StoreOK
<1>5. pc = [r \in Requests |-> "idle"] /\ \A r \in Requests : loc[r] = Fresh
  BY DEF Init
<1>6. \A r \in Requests : Typed(r)
  <2>1. /\ Fresh.doc = NoRoadmap /\ Fresh.column = Done /\ Fresh.card = None
        /\ Fresh.meta = Issue(Untitled, Open, 0, None)
    BY DEF Fresh
  <2>2. IsRoadmap(NoRoadmap) /\ IsIssue(Issue(Untitled, Open, 0, None)) /\ Done \in Columns
    BY BoardAssumption DEF IsRoadmap, NoRoadmap, IsIssue, Issue, Milestones
  <2> QED BY <1>2, <1>5, <2>1, <2>2 DEF Typed, DocLabels
<1> QED BY <1>2, <1>4, <1>5, <1>6 DEF TypeInv, Labels

LEMMA StepTypes == IInv /\ TypeInv /\ [Next]_vars => TypeInv'
<1> SUFFICES ASSUME IInv, TypeInv, [Next]_vars PROVE TypeInv'
  OBVIOUS
<1>0. Shape
  BY DEF IInv
<1>1. ASSUME NEW r \in Requests, IssueStep(r) \/ CardStep(r) \/ RoadmapStep(r)
      PROVE  TypeInv'
  <2>1. Frame(r)
    BY <1>0, <1>1, IssueSteps, CardSteps, RoadmapSteps DEF Step, IInv
  <2>2. TypedStep(r)
    BY <1>0, <1>1, IssueStepsTyped, CardStepsTyped, RoadmapStepsTyped
  <2> QED BY <2>1, <2>2, StepTyped
<1>2. CASE UNCHANGED vars
  <2>1. UNCHANGED <<cards, issues, task, binding, roadmap, pc, loc>>
    BY <1>2 DEF vars
  <2>2. PeerOK' /\ StoreOK'
    BY <2>1, PeerKept, StoreKept
  <2>3. \A r \in Requests : Typed(r)'
    BY <2>1 DEF TypeInv, Typed
  <2>4. IsTask(Fresh.task)'
    BY DEF TypeInv, IsTask, Fresh
  <2> QED BY <2>1, <2>2, <2>3, <2>4 DEF TypeInv
<1> QED BY <1>0, <1>1, <1>2, OthersTyped DEF Next

\* Whatever requests overlap, fail or die and clients send: the task and the roadmap
\* stay what the documents may hold, and so does what a request has read of them.
THEOREM SyncTypes == Spec => []TypeOK
<1>1. IInv /\ TypeInv => TypeOK
  BY DEF TypeInv, TypeOK, PeerOK, StoreOK, Typed
<1> QED BY <1>1, InitInv, InitTyped, StepInv, StepTypes, PTL DEF Spec

\* What a step makes of the link to the issue.
LEMMA LinksOf ==
  ASSUME Shape, TypeInv, NEW r \in Requests, IssueStep(r) \/ CardStep(r) \/ RoadmapStep(r)
  PROVE  \/ task'.issue \in {task.issue, None} \cup DOMAIN issues'
         \/ WriteTask(r)
<1>0. IsTask(task) /\ Typed(r)
  BY DEF TypeInv, StoreOK
<1>1. \A fields : With(task, fields).issue = IF "issue" \in DOMAIN fields THEN fields.issue ELSE task.issue
  BY <1>0, WithLinks
<1>2. CASE RecordIssue(r)
  <2>1. \E title : task' = With(Mirror(task, loc[r].number, loc[r].meta), [title |-> title])
    BY <1>2 DEF RecordIssue
  <2>2. loc[r].number \in DOMAIN issues /\ issues' = issues
    BY <1>0, <1>2 DEF RecordIssue, Typed, At, TaskOnly
  <2> DEFINE w == Mirror(task, loc[r].number, loc[r].meta)
  <2>3. "issue" \in DOMAIN w /\ w.issue = loc[r].number
    <3>1. IsIssue(loc[r].meta) /\ loc[r].number \in 0..MaxIssues
      BY <1>0, <2>2, BoardAssumption DEF Typed, TypeInv, PeerOK
    <3>2. IsTask(w) /\ w.issue = loc[r].number
      BY <1>0, <3>1, Mirrored
    <3> HIDE DEF w
    <3> QED BY <3>2 DEF IsTask
  <2> HIDE DEF w
  <2>4. \A title : With(w, [title |-> title]).issue = w.issue
    BY <2>3, WithFields
  <2> QED BY <2>1, <2>2, <2>3, <2>4 DEF w
<1>3. CASE UnlinkIssue(r)
  BY <1>1, <1>3 DEF UnlinkIssue, NoIssue
<1>4. CASE LinkIssue(r) \/ PushIssue(r) \/ PullIssue(r) \/ CallIssue(r)
  BY <1>4 DEF LinkIssue, PushIssue, PullIssue, CallIssue, PeerOnly
<1>5. CASE MoveByIssue(r) \/ RecordIssueFailure(r)
  BY <1>0, <1>5 DEF MoveByIssue, RecordIssueFailure, IsTask
<1>6. CASE EditTask(r) \/ SyncTask(r) \/ SyncItem(r) \/ CallCard(r) \/ CallStatus(r) \/ BindProject(r)
  BY <1>6 DEF EditTask, SyncTask, SyncItem, CallCard, CallStatus, BindProject, PeerOnly
<1>7. CASE RecordCard(r) \/ KeepCard(r) \/ DetachCard(r)
  BY <1>1, <1>7 DEF RecordCard, KeepCard, DetachCard, NoCard
<1>8. CASE RecordCardFailure(r) \/ RecordPartial(r) \/ DragTask(r) \/ RecordStatus(r)
  BY <1>0, <1>8 DEF RecordCardFailure, RecordPartial, DragTask, RecordStatus, IsTask
<1>9. CASE RoadmapStep(r)
  <2>1. CASE SetTaskMilestone(r)
    BY <1>0, <2>1 DEF SetTaskMilestone, IsTask
  <2>2. CASE ~SetTaskMilestone(r)
    <3>1. task' = task
      BY <1>9, <2>2 DEF RoadmapStep, RunRoadmapJob, Take, ReadRoadmap, Bootstrap, WriteRoadmap,
         AssignMilestone, UnassignMilestone, Target, CallMilestone, Publish, PublishNext,
         RecordPublished, RoadmapOnly, PeerOnly
    <3> QED BY <3>1
  <2> QED BY <2>1, <2>2
<1> QED BY <1>2, <1>3, <1>4, <1>5, <1>6, <1>7, <1>8, <1>9 DEF IssueStep, CardStep

\* Every link a handler writes is to an issue the peer has, however the answer was
\* delayed, unless a PATCH set it (handleIssueLink, handleIssuePush, handleIssuePull).
THEOREM LinksVerified == Spec => LinksAreVerified
<1>1. IInv /\ TypeInv /\ [Next]_vars =>
        [task'.issue \notin {task.issue, None} =>
           \/ task'.issue \in DOMAIN issues'
           \/ \E r \in Requests : At(r, "edit.write") /\ pc'[r] # "edit.write"]_vars
  <2> SUFFICES ASSUME IInv, TypeInv, Next, task'.issue \notin {task.issue, None},
                      task'.issue \notin DOMAIN issues'
               PROVE  \E r \in Requests : At(r, "edit.write") /\ pc'[r] # "edit.write"
    OBVIOUS
  <2>1. PICK r \in Requests : IssueStep(r) \/ CardStep(r) \/ RoadmapStep(r)
    BY DEF Next, EditOnGitHub, Die, Finished, PeerOnly, vars
  <2>2. Shape /\ WriteTask(r)
    BY <2>1, LinksOf DEF IInv
  <2>3. pc[r] = "edit.write" /\ pc'[r] \in {"card.call", "done"}
    BY <2>2 DEF WriteTask, At, Go, Leave, Shape
  <2> QED BY <2>3 DEF At
<1> QED BY <1>1, InitInv, InitTyped, StepInv, StepTypes, PTL DEF Spec, LinksAreVerified

-----------------------------------------------------------------------------
(* What a request knows while nothing else runs.                           *)

CardLater == {"card.record", "card.partial", "card.keep"}

\* The copies a request holds agree with what is stored, as far as it will rely on
\* them, and what it has from the peer agrees with what it was asked.
Fits(r) ==
  LET l == loc[r] IN
  /\ pc[r] \in {"card.call", "card.record", "card.partial"} /\ l.op # "feature" =>
       l.task.card = task.card
  /\ pc[r] \in CardLater => l.op # "feature" /\ task.card \in {None, l.card}
  /\ pc[r] = "card.call" /\ l.op \in {"edit", "sync"} => l.task.title = task.title
  /\ pc[r] = "card.record" /\ l.op \in {"edit", "sync"} => cards[l.card].title = task.title
  /\ pc[r] = "card.keep" => task.cardError
  /\ pc[r] = "issue.call" /\ l.op = "push" => l.task.status = task.status
  /\ pc[r] = "issue.record" /\ l.op = "push" => l.meta.state = StateOf(task.status)
  /\ pc[r] = "issue.move" => task.state = StateOf(l.column)
  /\ pc[r] \in Taken => l.doc.phases = roadmap.phases

\* The task's cards on the board: the one it names, those it was unbound from, and
\* the one the request is about to name.
CardsAt(r) ==
  \A c \in DOMAIN cards :
    \/ cards[c].of = "feature" \/ c = task.card \/ c \in history.left
    \/ pc[r] \in CardLater /\ loc[r].card = c

KnownInv ==
  ~history.disturbed => /\ \A r \in Requests : Fits(r)
                        /\ \A c \in DOMAIN cards :
                             \/ cards[c].of = "feature" \/ c = task.card \/ c \in history.left
                             \/ \E r \in Requests : pc[r] \in CardLater /\ loc[r].card = c

\* A request that is not under way relies on nothing.
LEMMA RestFits ==
  ASSUME NEW r, pc[r] \in {"idle", "done", "dead"}
  PROVE  Fits(r)
BY DEF Fits, CardLater, Taken

LEMMA LeaveFits ==
  ASSUME Shape, NEW r \in Requests, Leave(r)
  PROVE  Fits(r)' /\ pc'[r] = "done"
BY DEF Leave, Go, Shape, Fits, CardLater, Taken

\* Steps that have nothing to do with the card.
LEMMA CardsKept ==
  ASSUME Shape, NEW r \in Requests, CardsAt(r), UNCHANGED cards, task'.card = task.card,
         UNCHANGED history \/ (\E when : Disturb(when)) \/ NotesOn, pc[r] \notin CardLater
  PROVE  CardsAt(r)'
<1>1. history.left \subseteq history'.left
  BY DEF NotesOn, Disturb, LetGo, Unrecorded, Overwritten, Shape, Notes
<1> QED BY <1>1 DEF CardsAt

\* The task names another card, and those it lets go are noted.
LEMMA CardsLeft ==
  ASSUME Shape, NEW r \in Requests, CardsAt(r), UNCHANGED cards, None \notin DOMAIN cards,
         NEW gone, LetGo(gone), task.card \in {task'.card, None} \cup gone,
         pc[r] \in CardLater => loc[r].card \in {task'.card} \cup gone
  PROVE  CardsAt(r)'
BY DEF CardsAt, LetGo, Shape, Notes

\* Link, unlink, push and pull.
LEMMA IssueFits ==
  ASSUME Shape, TypeInv, NEW r \in Requests, Fits(r), CardsAt(r), IssueStep(r)
  PROVE  Fits(r)' /\ CardsAt(r)'
<1>0. IsTask(task) /\ Typed(r)
  BY DEF TypeInv, StoreOK
<1>1. CASE LinkIssue(r) \/ PushIssue(r) \/ PullIssue(r)
  <2>1. PICK kind, fields :
          /\ Begin(r, kind) /\ Go(r, "issue.call") /\ Keep(r, fields)
          /\ UNCHANGED <<task, cards>> /\ "op" \in DOMAIN fields
          /\ fields["op"] = "push" => "task" \in DOMAIN fields /\ fields["task"] = task
    <3>1. CASE LinkIssue(r)
      <4>1. PICK fields : /\ Keep(r, fields) /\ "op" \in DOMAIN fields
                          /\ fields["op"] # "push"
        <5>1. CASE \E n \in 1..MaxIssues : Keep(r, [op |-> "attach", task |-> task, number |-> n])
          BY <5>1
        <5>2. CASE \E title \in Titles :
                     Keep(r, [op |-> "create", task |-> [task EXCEPT !.title = title]])
          BY <5>2
        <5> QED BY <3>1, <5>1, <5>2 DEF LinkIssue
      <4> QED BY <3>1, <4>1 DEF LinkIssue, TaskOnly
    <3>2. CASE PushIssue(r)
      BY <3>2 DEF PushIssue, TaskOnly
    <3>3. CASE PullIssue(r)
      BY <3>3 DEF PullIssue, TaskOnly
    <3> QED BY <1>1, <3>1, <3>2, <3>3
  <2>2. /\ pc'[r] = "issue.call" /\ loc'[r].op = fields["op"]
        /\ fields["op"] = "push" => loc'[r].task = task
    BY <2>1, KeptFields DEF Fields, Go, Shape
  <2>3. Fits(r)'
    BY <2>1, <2>2 DEF Fits, CardLater, Taken
  <2>4. pc[r] = "idle" /\ \E when : Disturb(when)
    BY <2>1, BeginFacts DEF Begin
  <2> QED BY <2>1, <2>3, <2>4, CardsKept DEF CardLater
<1>2. CASE UnlinkIssue(r)
  <2>1. task' = With(task, NoIssue) /\ Begin(r, "unlink") /\ Leave(r) /\ UNCHANGED cards
    BY <1>2 DEF UnlinkIssue, TaskOnly
  <2>2. "card" \notin DOMAIN NoIssue
    BY DEF NoIssue
  <2>3. task'.card = task.card
    BY <1>0, <2>1, <2>2, WithLinks
  <2>4. pc[r] = "idle" /\ \E when : Disturb(when)
    BY <2>1, BeginFacts DEF Begin
  <2> QED BY <2>1, <2>3, <2>4, LeaveFits, CardsKept DEF CardLater
<1>3. CASE CallIssue(r)
  <2>1. pc[r] = "issue.call" /\ UNCHANGED <<task, cards, history>>
    BY <1>3 DEF CallIssue, At, PeerOnly
  <2>2. CardsAt(r)'
    BY <2>1, CardsKept DEF CardLater
  <2>3. CASE Go(r, "issue.fail") /\ UNCHANGED loc
    <3>1. pc'[r] = "issue.fail"
      BY <2>3 DEF Go, Shape
    <3> QED BY <2>2, <3>1 DEF Fits, CardLater, Taken
  <2>4. ASSUME NEW n \in 1..MaxIssues, CallEffect(r, n), Go(r, "issue.record"),
               Keep(r, [number |-> n, meta |-> issues'[n]])
        PROVE  Fits(r)'
    <3>1. pc'[r] = "issue.record" /\ loc'[r].meta = issues'[n] /\ loc'[r].op = loc[r].op
      BY <2>4, KeptFields DEF Fields, Go, Shape
    <3>2. CASE loc[r].op = "push"
      <4>1. n \in DOMAIN issues /\ issues' = [issues EXCEPT ![n] = Pushed(loc[r].task, issues[n])]
        BY <2>4, <3>2, Zenon DEF CallEffect
      <4>2. issues'[n].state = StateOf(loc[r].task.status)
        BY <4>1 DEF Pushed, Issue
      <4>3. loc[r].task.status = task.status
        BY <2>1, <3>2 DEF Fits
      <4> QED BY <2>1, <3>1, <4>2, <4>3 DEF Fits, CardLater, Taken
    <3>3. CASE loc[r].op # "push"
      BY <3>1, <3>3 DEF Fits, CardLater, Taken
    <3> QED BY <3>2, <3>3
  <2> QED BY <1>3, <2>2, <2>3, <2>4 DEF CallIssue
<1>4. CASE RecordIssue(r)
  <2> DEFINE l == loc[r]
             mirrored == Mirror(task, l.number, l.meta)
             title == IF l.adopt /\ l.meta.title # Untitled THEN l.meta.title ELSE task.title
  <2>1. /\ pc[r] = "issue.record" /\ UNCHANGED <<cards, history>>
        /\ task' = With(mirrored, [title |-> title])
    BY <1>4 DEF RecordIssue, At, TaskOnly, Stored
  <2>2. /\ IsTask(mirrored) /\ mirrored.card = task.card /\ mirrored.state = l.meta.state
        /\ mirrored.status = task.status
    <3>1. IsIssue(l.meta) /\ l.number \in 0..MaxIssues
      BY <1>0, <2>1, BoardAssumption DEF Typed, TypeInv, PeerOK
    <3> HIDE DEF l
    <3> QED BY <1>0, <3>1, Mirrored
  <2> HIDE DEF mirrored, title
  <2>3. task'.card = task.card /\ task'.state = l.meta.state
    BY <2>1, <2>2, WithLinks
  <2>4. CardsAt(r)'
    BY <2>1, <2>3, CardsKept DEF CardLater
  <2>5. ASSUME NEW c \in ColumnsFor(l.meta.state, task.status), Go(r, "issue.move"),
               Keep(r, [column |-> c])
        PROVE  Fits(r)'
    <3>1. pc'[r] = "issue.move" /\ loc'[r].column = c
      BY <2>5, KeptFields DEF Fields, Go, Shape
    <3>2. l.meta.state = StateOf(c)
      BY <2>5 DEF ColumnsFor, StateOf, Done, Reopened, Open, Closed
    <3> QED BY <2>3, <3>1, <3>2 DEF Fits, CardLater, Taken
  <2> QED BY <1>4, <2>4, <2>5, LeaveFits DEF RecordIssue
<1>5. CASE MoveByIssue(r) \/ RecordIssueFailure(r)
  <2>1. /\ pc[r] \in {"issue.move", "issue.fail"} /\ Leave(r) /\ UNCHANGED <<cards, history>>
        /\ task'.card = task.card
    BY <1>0, <1>5 DEF MoveByIssue, RecordIssueFailure, At, TaskOnly, Stored, IsTask
  <2> QED BY <2>1, LeaveFits, CardsKept DEF CardLater
<1> QED BY <1>1, <1>2, <1>3, <1>4, <1>5 DEF IssueStep

\* A call that is answered leaves the card it is about to name, with the title it
\* sent if it landed.
LEMMA CallCardFits ==
  ASSUME Shape, TypeInv, NEW r \in Requests, Fits(r), CardsAt(r), CallCard(r),
         ~history'.disturbed
  PROVE  Fits(r)' /\ CardsAt(r)'
<1> DEFINE l == loc[r]
           c == IF Known(l) # None THEN Known(l) ELSE Cardinality(DOMAIN cards) + 1
           old == IF c \in DOMAIN cards THEN cards[c].title ELSE Untitled
           of == IF l.op = "feature" THEN "feature" ELSE "task"
<1>1. pc[r] = "card.call" /\ UNCHANGED task /\ DOMAIN l = Fields
  BY DEF CallCard, At, PeerOnly, Shape, HoldsOK
<1>2. CASE Go(r, "card.fail") /\ UNCHANGED <<cards, loc, history>>
  <2>1. pc'[r] = "card.fail"
    BY <1>2 DEF Go, Shape
  <2> QED BY <1>1, <1>2, <2>1, CardsKept DEF Fits, CardLater, Taken
<1>3. ASSUME NEW landed \in BOOLEAN, NEW title, landed => title = l.task.title,
             cards' = Extend(cards, c, [title |-> title, status |-> l.task.status, of |-> of]),
             Go(r, AfterCard(l, landed)), UNCHANGED history,
             IF l.op = "feature" /\ ~landed
             THEN loc' = [loc EXCEPT ![r] = Fresh] ELSE Keep(r, [card |-> c])
      PROVE  Fits(r)' /\ CardsAt(r)'
  <2>2. l.op = "feature" => c \notin DOMAIN cards
    <3>1. PICK n \in Nat : DOMAIN cards = 1..n
      BY DEF TypeInv, PeerOK
    <3>2. Cardinality(DOMAIN cards) = n
      BY <3>1, FS_Interval
    <3> QED BY <3>1, <3>2 DEF Known
  <2>3. l.op # "feature" => l.task.card = task.card /\ (task.card # None => c = task.card)
    BY <1>1 DEF Fits, Known
  <2> DEFINE new == [title |-> title, status |-> l.task.status, of |-> of]
  <2>4. new.of = of /\ new.title = title
    OBVIOUS
  <2>5. /\ DOMAIN cards' = DOMAIN cards \cup {c} /\ cards'[c] = new
        /\ \A k \in DOMAIN cards : k # c => cards'[k] = cards[k]
    <3> HIDE DEF new, c
    <3> QED BY <1>3 DEF Extend, new
  <2>6. pc'[r] = AfterCard(l, landed)
    BY <1>3 DEF Go, Shape
  <2> HIDE DEF new
  <2>7. CASE l.op = "feature"
    <3>1. pc'[r] \in {"doc.read", "done"}
      BY <2>6, <2>7 DEF AfterCard
    <3>2. \A k \in DOMAIN cards : k # c
      BY <2>2, <2>7
    <3>3. cards'[c].of = "feature"
      BY <2>4, <2>5, <2>7
    <3> HIDE DEF c, of
    <3>4. CardsAt(r)'
      BY <1>1, <1>3, <2>5, <3>2, <3>3 DEF CardsAt, CardLater
    <3> QED BY <3>1, <3>4 DEF Fits, CardLater, Taken
  <2>8. CASE l.op # "feature"
    <3>1. /\ pc'[r] = IF landed THEN "card.record" ELSE "card.partial"
          /\ pc'[r] \in CardLater
      BY <2>6, <2>8 DEF AfterCard, CardLater
    <3>2. loc'[r].card = c /\ loc'[r].task = l.task /\ loc'[r].op = l.op
      BY <1>3, <2>8, KeptFields DEF Fields
    <3>3. cards'[c].title = title
      BY <2>4, <2>5
    <3>4. task.card \in {None, c}
      BY <2>3, <2>8
    <3>5. l.op \in {"edit", "sync"} => l.task.title = task.title
      BY <1>1 DEF Fits
    <3> HIDE DEF c, of
    <3>6. CardsAt(r)'
      BY <1>1, <1>3, <2>5, <3>1, <3>2 DEF CardsAt, CardLater
    <3>7. Fits(r)'
      <4>1. /\ pc'[r] \in {"card.call", "card.record", "card.partial"} /\ loc'[r].op # "feature"
            /\ loc'[r].task.card = task'.card /\ task'.card \in {None, loc'[r].card}
        BY <1>1, <2>3, <2>8, <3>1, <3>2, <3>4
      <4>2. pc'[r] = "card.record" /\ loc'[r].op \in {"edit", "sync"} =>
              cards'[loc'[r].card].title = task'.title
        BY <1>1, <1>3, <3>1, <3>2, <3>3, <3>5
      <4>3. pc'[r] \in {"card.record", "card.partial"}
        BY <3>1
      <4> QED BY <4>1, <4>2, <4>3 DEF Fits, CardLater, Taken
    <3> QED BY <3>6, <3>7
  <2> QED BY <2>7, <2>8
<1>4. ~Disturb(TRUE)
  BY DEF Disturb, Shape, Notes
<1>5. ASSUME NEW landed \in BOOLEAN,
             cards' = Extend(cards, c, [title |-> IF landed THEN l.task.title ELSE old,
                                        status |-> l.task.status, of |-> of]),
             Go(r, AfterCard(l, landed)), UNCHANGED history,
             IF l.op = "feature" /\ ~landed
             THEN loc' = [loc EXCEPT ![r] = Fresh] ELSE Keep(r, [card |-> c])
      PROVE  Fits(r)' /\ CardsAt(r)'
  <2> DEFINE title == IF landed THEN l.task.title ELSE old
  <2>1. landed => title = l.task.title
    OBVIOUS
  <2>2. cards' = Extend(cards, c, [title |-> title, status |-> l.task.status, of |-> of])
    BY <1>5
  <2> HIDE DEF title
  <2> QED BY <1>3, <1>5, <2>1, <2>2
<1> QED BY <1>2, <1>4, <1>5 DEF CallCard

\* Edits, syncs, drags and the bindings of cards.
LEMMA CardFits ==
  ASSUME Shape, TypeInv, NEW r \in Requests, Fits(r), CardsAt(r), CardStep(r),
         ~history'.disturbed
  PROVE  Fits(r)' /\ CardsAt(r)'
<1>0. IsTask(task) /\ Typed(r) /\ None \notin DOMAIN cards
  BY DEF TypeInv, StoreOK, PeerOK, None
<1>1. CASE EditTask(r) \/ SyncTask(r) \/ SyncItem(r)
  <2>1. PICK kind : Begin(r, kind) /\ UNCHANGED <<task, cards>>
    BY <1>1 DEF EditTask, SyncTask, SyncItem, TaskOnly
  <2>2. CardsAt(r)'
    <3>1. pc[r] = "idle" /\ \E when : Disturb(when)
      BY <2>1, BeginFacts DEF Begin
    <3> QED BY <2>1, <3>1, CardsKept DEF CardLater
  <2>3. CASE EditTask(r)
    <3>1. pc'[r] = "edit.write"
      BY <2>3 DEF EditTask, Go, Shape
    <3> QED BY <2>2, <3>1 DEF Fits, CardLater, Taken
  <2>4. CASE SyncTask(r)
    <3>1. pc'[r] = "card.call" /\ Keep(r, [op |-> "sync", task |-> task])
      BY <2>4 DEF SyncTask, Go, Shape
    <3>2. loc'[r].task = task
      BY <3>1, KeptFields DEF Fields
    <3> QED BY <2>1, <2>2, <3>1, <3>2 DEF Fits, CardLater, Taken
  <2>5. CASE SyncItem(r)
    <3>1. PICK op \in {"card", "feature"}, feature \in Features \cup {None},
               title \in Titles, column \in Columns :
            Keep(r, [op |-> op, task |-> [task EXCEPT !.title = title, !.status = column],
                     feature |-> feature])
      BY <2>5 DEF SyncItem
    <3> DEFINE sent == [task EXCEPT !.title = title, !.status = column]
    <3>2. sent.card = task.card
      BY <1>0 DEF IsTask
    <3> HIDE DEF sent
    <3>3. Keep(r, [op |-> op, task |-> sent, feature |-> feature])
      BY <3>1 DEF sent
    <3>4. pc'[r] = "card.call"
      BY <2>5 DEF SyncItem, Go, Shape
    <3>5. loc'[r].task = sent /\ loc'[r].op = op
      BY <3>3, KeptFields DEF Fields
    <3> QED BY <2>1, <2>2, <3>2, <3>4, <3>5 DEF Fits, CardLater, Taken
  <2> QED BY <1>1, <2>3, <2>4, <2>5
<1>2. CASE WriteTask(r)
  <2>1. (Go(r, "card.call") /\ Keep(r, [task |-> task'])) \/ Leave(r)
    BY <1>2 DEF WriteTask
  <2>2. pc[r] = "edit.write" /\ UNCHANGED cards /\ LetGo({task.card} \ {task'.card})
    BY <1>2 DEF WriteTask, At, TaskOnly
  <2>3. CardsAt(r)'
    <3> DEFINE gone == {task.card} \ {task'.card}
    <3>1. LetGo(gone) /\ task.card \in {task'.card, None} \cup gone
      BY <2>2
    <3> HIDE DEF gone
    <3> QED BY <1>0, <2>2, <3>1, CardsLeft DEF CardLater
  <2>4. CASE Go(r, "card.call") /\ Keep(r, [task |-> task'])
    <3>1. pc'[r] = "card.call" /\ loc'[r].task = task'
      BY <2>4, KeptFields DEF Fields, Go, Shape
    <3> QED BY <2>3, <3>1 DEF Fits, CardLater, Taken
  <2> QED BY <2>1, <2>3, <2>4, LeaveFits
<1>3. CASE RecordCard(r) \/ KeepCard(r)
  <2> DEFINE fields == IF pc[r] = "card.record"
                       THEN [project |-> TRUE, card |-> loc[r].card, cardError |-> FALSE]
                       ELSE [project |-> TRUE, card |-> loc[r].card]
  <2>1. /\ pc[r] \in CardLater /\ UNCHANGED cards
        /\ Go(r, "doc.read") \/ Leave(r)
        /\ \/ task' = With(task, fields) /\ UNCHANGED history
           \/ UNCHANGED task /\ LetGo({loc[r].card} \ {task.card})
    BY <1>3 DEF RecordCard, KeepCard, At, TaskOnly, Stored, CardLater
  <2>2. "card" \in DOMAIN fields /\ fields.card = loc[r].card
    OBVIOUS
  <2> HIDE DEF fields
  <2>3. task.card \in {None, loc[r].card}
    BY <2>1 DEF Fits
  <2>4. pc'[r] \in {"doc.read", "done"}
    BY <2>1 DEF Leave, Go, Shape
  <2>5. Fits(r)'
    BY <2>4 DEF Fits, CardLater, Taken
  <2>6. CASE task' = With(task, fields) /\ UNCHANGED history
    <3>1. task'.card = loc[r].card
      BY <1>0, <2>2, <2>6, WithLinks
    <3> QED BY <1>0, <2>1, <2>3, <2>5, <2>6, <3>1 DEF CardsAt
  <2>7. CASE UNCHANGED task /\ LetGo({loc[r].card} \ {task.card})
    <3> DEFINE gone == {loc[r].card} \ {task.card}
    <3>1. LetGo(gone) /\ loc[r].card \in {task'.card} \cup gone /\ task.card = task'.card
      BY <2>7
    <3> HIDE DEF gone
    <3> QED BY <1>0, <2>1, <2>5, <3>1, CardsLeft
  <2> QED BY <2>1, <2>6, <2>7
<1>4. CASE RecordPartial(r)
  <2>1. /\ pc[r] = "card.partial" /\ task' = [task EXCEPT !.cardError = TRUE]
        /\ UNCHANGED <<cards, history>>
    BY <1>4 DEF RecordPartial, At, TaskOnly, Stored
  <2>2. task'.cardError /\ task'.card = task.card
    BY <1>0, <2>1 DEF IsTask
  <2>3. /\ loc[r].op # "feature" /\ task.card \in {None, loc[r].card}
        /\ loc[r].task.card = task.card
    BY <2>1 DEF Fits, CardLater
  <2>4. CASE Go(r, "card.keep") /\ UNCHANGED loc
    <3>1. pc'[r] = "card.keep" /\ loc'[r] = loc[r]
      BY <2>4 DEF Go, Shape
    <3>2. CardsAt(r)'
      BY <2>1, <2>2, <3>1 DEF CardsAt, CardLater
    <3> QED BY <2>2, <2>3, <3>1, <3>2 DEF Fits, CardLater, Taken
  <2>5. CASE loc[r].card = loc[r].task.card /\ Leave(r)
    <3>1. CardsAt(r)'
      BY <2>1, <2>2, <2>3, <2>5 DEF CardsAt
    <3> QED BY <2>5, <3>1, LeaveFits
  <2> QED BY <1>4, <2>4, <2>5 DEF RecordPartial
<1>5. CASE RecordCardFailure(r) \/ RecordStatus(r)
  <2>1. /\ pc[r] \in {"card.fail", "status.record"} /\ UNCHANGED <<cards, history>> /\ Leave(r)
        /\ task'.card = task.card
    BY <1>0, <1>5 DEF RecordCardFailure, RecordStatus, At, TaskOnly, Stored, IsTask
  <2> QED BY <2>1, CardsKept, LeaveFits DEF CardLater
<1>6. CASE DragTask(r)
  <2>1. PICK column : /\ task' = [task EXCEPT !.status = column]
                      /\ \/ Go(r, "status.call") /\ Keep(r, [op |-> "drag", task |-> task'])
                         \/ Leave(r)
    BY <1>6 DEF DragTask
  <2>2. Begin(r, "drag") /\ UNCHANGED cards /\ task'.card = task.card
    BY <1>0, <1>6, <2>1 DEF DragTask, TaskOnly, IsTask
  <2>3. pc[r] = "idle" /\ \E when : Disturb(when)
    BY <2>2, BeginFacts DEF Begin
  <2>4. CardsAt(r)'
    BY <2>2, <2>3, CardsKept DEF CardLater
  <2>5. pc'[r] \in {"status.call", "done"}
    BY <2>1 DEF Leave, Go, Shape
  <2> QED BY <2>4, <2>5 DEF Fits, CardLater, Taken
<1>7. CASE CallStatus(r)
  <2>1. /\ pc[r] = "status.call" /\ UNCHANGED <<task, history, loc>>
        /\ DOMAIN cards' = DOMAIN cards
        /\ \/ Go(r, "card.fail")
           \/ Go(r, "status.record")
    BY <1>7 DEF CallStatus, At, PeerOnly
  <2>2. \A c \in DOMAIN cards : cards'[c].of = cards[c].of
    BY <1>7 DEF CallStatus, TypeInv, PeerOK, IsCard
  <2>3. CardsAt(r)'
    BY <2>1, <2>2 DEF CardsAt, CardLater
  <2>4. pc'[r] \in {"card.fail", "status.record"}
    BY <2>1 DEF Go, Shape
  <2> QED BY <2>3, <2>4 DEF Fits, CardLater, Taken
<1>8. CASE DetachCard(r)
  <2>1. /\ pc[r] = "idle" /\ history'.left = history.left \cup {task.card}
        /\ UNCHANGED cards /\ Leave(r)
    BY <1>8 DEF DetachCard, May, At, TaskOnly
  <2>2. CardsAt(r)'
    BY <2>1 DEF CardsAt, CardLater
  <2> QED BY <2>1, <2>2, LeaveFits
<1>9. CASE BindProject(r)
  <2>1. UNCHANGED <<cards, task>> /\ Begin(r, "bind") /\ Leave(r)
    BY <1>9 DEF BindProject
  <2>2. pc[r] = "idle" /\ \E when : Disturb(when)
    BY <2>1, BeginFacts DEF Begin
  <2> QED BY <2>1, <2>2, CardsKept, LeaveFits DEF CardLater
<1> QED BY <1>1, <1>2, <1>3, <1>4, <1>5, <1>6, <1>7, <1>8, <1>9, CallCardFits DEF CardStep

\* The handlers and jobs of the roadmap.
LEMMA RoadmapFits ==
  ASSUME Shape, TypeInv, NEW r \in Requests, Fits(r), CardsAt(r), RoadmapStep(r)
  PROVE  Fits(r)' /\ CardsAt(r)'
<1>1. CASE RunRoadmapJob(r) \/ Publish(r)
  <2>1. PICK kind, at : Take(r, kind, at) /\ at \in {"doc.write", "boot.read", "publish.next"}
    <3>1. CASE Publish(r)
      BY <3>1 DEF Publish
    <3>2. CASE RunRoadmapJob(r)
      BY <3>2, Zenon DEF RunRoadmapJob
    <3> QED BY <1>1, <3>1, <3>2
  <2>2. /\ Begin(r, kind) /\ Go(r, at) /\ Keep(r, [op |-> kind, doc |-> roadmap])
        /\ UNCHANGED <<roadmap, task, cards>>
    BY <2>1 DEF Take, RoadmapOnly
  <2>3. pc[r] = "idle" /\ \E when : Disturb(when)
    BY <2>2, BeginFacts DEF Begin
  <2>4. pc'[r] = at /\ loc'[r].doc = roadmap
    BY <2>2, KeptFields DEF Fields, Go, Shape
  <2> QED BY <2>1, <2>2, <2>3, <2>4, CardsKept DEF Fits, CardLater, Taken
<1>2. CASE ReadRoadmap(r)
  <2>1. /\ UNCHANGED <<roadmap, task, cards, history>> /\ Keep(r, [doc |-> roadmap])
        /\ pc[r] \in {"boot.read", "doc.read"}
        /\ Go(r, "boot.write") \/ Go(r, "doc.write")
    BY <1>2 DEF ReadRoadmap, RoadmapOnly, At, Stored
  <2>2. pc'[r] \in {"boot.write", "doc.write"} /\ loc'[r].doc = roadmap
    BY <2>1, KeptFields DEF Fields, Go, Shape
  <2> QED BY <2>1, <2>2, CardsKept DEF Fits, CardLater, Taken
<1>3. CASE Bootstrap(r)
  <2>1. /\ pc[r] = "boot.write" /\ pc'[r] \in {"boot.read", "doc.read"}
        /\ UNCHANGED <<task, cards, history>>
    BY <1>3 DEF Bootstrap, RoadmapOnly, At, Go, Shape, Stored
  <2> QED BY <2>1, CardsKept DEF Fits, CardLater, Taken
<1>4. CASE WriteRoadmap(r) \/ RecordPublished(r)
  <2>1. pc[r] \in Taken /\ Leave(r) /\ UNCHANGED <<task, cards>> /\ NotesOn
    BY <1>4 DEF WriteRoadmap, RecordPublished, RoadmapOnly, At, Taken, NotesOn
  <2> QED BY <2>1, CardsKept, LeaveFits DEF CardLater, Taken
<1>5. CASE AssignMilestone(r) \/ UnassignMilestone(r)
  <2>1. PICK kind \in {"assign", "unassign"}, at \in {"assign.call", "milestone.task"} :
          Target(r, kind, at)
    BY <1>5 DEF AssignMilestone, UnassignMilestone
  <2>2. Begin(r, kind) /\ Go(r, at) /\ UNCHANGED <<task, cards>>
    BY <2>1 DEF Target, RoadmapOnly
  <2>3. pc[r] = "idle" /\ (\E when : Disturb(when)) /\ pc'[r] = at
    BY <2>2, BeginFacts DEF Begin, Go, Shape
  <2> QED BY <2>2, <2>3, CardsKept DEF Fits, CardLater, Taken
<1>6. CASE CallMilestone(r)
  <2>1. /\ UNCHANGED <<task, cards, history>> /\ pc[r] = "assign.call"
        /\ pc'[r] \in {"done", "milestone.task"}
    BY <1>6 DEF CallMilestone, PeerOnly, At, Leave, Go, Shape
  <2> QED BY <2>1, CardsKept DEF Fits, CardLater, Taken
<1>7. CASE SetTaskMilestone(r)
  <2>1. /\ pc[r] = "milestone.task" /\ UNCHANGED <<cards, history>>
        /\ pc'[r] \in {"done", "doc.read"}
    BY <1>7 DEF SetTaskMilestone, TaskOnly, Stored, At, Leave, Go, Shape
  <2>2. task'.card = task.card
    BY <1>7 DEF SetTaskMilestone, TypeInv, StoreOK, IsTask
  <2> QED BY <2>1, <2>2, CardsKept DEF Fits, CardLater, Taken
<1>8. CASE PublishNext(r)
  <2>1. /\ pc[r] = "publish.next" /\ UNCHANGED <<pc, roadmap, task, cards>>
        /\ NotesOn
    BY <1>8 DEF PublishNext, PeerOnly, At, NotesOn
  <2>2. loc'[r].doc.phases = loc[r].doc.phases
    <3>1. PICK f : \/ Keep(r, [tried |-> loc[r].tried \cup {f}])
                   \/ Keep(r, [tried |-> loc[r].tried \cup {f},
                               doc |-> [loc[r].doc EXCEPT !.published = @ \cup {f}]])
      BY <1>8 DEF PublishNext
    <3> DEFINE doc == [loc[r].doc EXCEPT !.published = @ \cup {f}]
    <3>2. doc.phases = loc[r].doc.phases
      BY DEF Shape, HoldsOK, IsDoc
    <3> HIDE DEF doc
    <3>3. CASE Keep(r, [tried |-> loc[r].tried \cup {f}])
      BY <3>3, KeptFields DEF Fields
    <3>4. CASE Keep(r, [tried |-> loc[r].tried \cup {f}, doc |-> doc])
      BY <3>2, <3>4, KeptFields DEF Fields
    <3> QED BY <3>1, <3>3, <3>4 DEF doc
  <2>3. loc[r].doc.phases = roadmap.phases
    BY <2>1 DEF Fits, Taken
  <2>4. CardsAt(r)'
    BY <2>1, CardsKept DEF CardLater
  <2> QED BY <2>1, <2>2, <2>3, <2>4 DEF Fits, CardLater, Taken
<1> QED BY <1>1, <1>2, <1>3, <1>4, <1>5, <1>6, <1>7, <1>8 DEF RoadmapStep

\* While nothing else runs, the others rely on nothing before and after a step.
LEMMA OthersRest ==
  ASSUME Shape, TypeInv, SingleInv, NEW r \in Requests, Step(r), ~history'.disturbed
  PROVE  /\ ~history.disturbed
         /\ \A q \in Requests \ {r} : pc[q] \in {"idle", "done", "dead"} /\ pc'[q] = pc[q]
<1>1. ~history.disturbed
  BY DEF Step, Noted
<1>2. \A q \in Requests \ {r} : ~Busy(q)
  BY <1>1 DEF SingleInv, Step, Noted
<1> QED BY <1>1, <1>2 DEF Step, Frame, Busy

\* A step of a request, undisturbed: it relied on nothing false, and does not now.
LEMMA RequestFits ==
  ASSUME Shape, TypeInv, SingleInv, KnownInv, NEW r \in Requests,
         IssueStep(r) \/ CardStep(r) \/ RoadmapStep(r), Step(r), ~history'.disturbed
  PROVE  /\ Fits(r) /\ CardsAt(r) /\ Fits(r)' /\ CardsAt(r)'
         /\ \A q \in Requests \ {r} : Fits(q)'
<1>1. /\ ~history.disturbed
      /\ \A q \in Requests \ {r} : pc[q] \in {"idle", "done", "dead"} /\ pc'[q] = pc[q]
  BY OthersRest
<1>2. Fits(r) /\ CardsAt(r)
  BY <1>1 DEF KnownInv, CardsAt, CardLater
<1>3. \A q \in Requests \ {r} : Fits(q)'
  BY <1>1 DEF Fits, CardLater, Taken
<1> QED BY <1>2, <1>3, IssueFits, CardFits, RoadmapFits

LEMMA StepKnown == IInv /\ TypeInv /\ KnownInv /\ [Next]_vars => KnownInv'
<1> SUFFICES ASSUME IInv, TypeInv, KnownInv, [Next]_vars PROVE KnownInv'
  OBVIOUS
<1>1. ASSUME NEW r \in Requests, IssueStep(r) \/ CardStep(r) \/ RoadmapStep(r)
      PROVE  KnownInv'
  <2>1. Step(r)
    BY <1>1, IssueSteps, CardSteps, RoadmapSteps DEF IInv
  <2>2. CASE history'.disturbed
    BY <2>2 DEF KnownInv
  <2>3. CASE ~history'.disturbed
    BY <1>1, <2>1, <2>3, RequestFits DEF IInv, KnownInv, CardsAt
  <2> QED BY <2>2, <2>3
<1>2. CASE EditOnGitHub \/ Finished \/ UNCHANGED vars
  <2>1. UNCHANGED <<task, roadmap, cards, history, pc, loc>>
    BY <1>2 DEF EditOnGitHub, PeerOnly, Finished, vars
  <2> QED BY <2>1 DEF KnownInv, Fits
<1>3. CASE Die
  BY <1>3 DEF Die, Disturb, IInv, Shape, Notes, KnownInv
<1> QED BY <1>1, <1>2, <1>3 DEF Next

LEMMA InitKnown == Init => KnownInv
<1> SUFFICES ASSUME Init PROVE KnownInv
  OBVIOUS
<1>1. \A r \in Requests : Fits(r)
  BY RestFits DEF Init
<1>2. \A c \in DOMAIN cards : c = task.card
  BY DEF Init
<1> QED BY <1>1, <1>2 DEF KnownInv

SyncInv == IInv /\ TypeInv /\ KnownInv

LEMMA SyncAlways == Spec => []SyncInv
BY InitInv, InitTyped, InitKnown, StepInv, StepTypes, StepKnown, PTL DEF Spec, SyncInv

\* The step that ends a request is a step of that request.
LEMMA EndsItself ==
  ASSUME SyncInv, [Next]_vars, NEW r \in Requests, pc[r] # "done", pc'[r] = "done"
  PROVE  (IssueStep(r) \/ CardStep(r) \/ RoadmapStep(r)) /\ Step(r)
<1>1. ASSUME NEW q \in Requests, IssueStep(q) \/ CardStep(q) \/ RoadmapStep(q)
      PROVE  q = r /\ Step(q)
  <2>1. Step(q)
    BY <1>1, IssueSteps, CardSteps, RoadmapSteps DEF SyncInv, IInv
  <2> QED BY <2>1 DEF Step, Frame
<1>2. ~(EditOnGitHub \/ Finished \/ UNCHANGED vars)
  BY DEF EditOnGitHub, Finished, vars
<1>3. ~Die
  BY DEF Die, SyncInv, IInv, Shape
<1> QED BY <1>1, <1>2, <1>3 DEF Next

\* A request does what its label says.
LEMMA AtItsLabel ==
  ASSUME NEW r \in Requests, IssueStep(r) \/ CardStep(r) \/ RoadmapStep(r)
  PROVE  /\ pc[r] = "issue.record" => RecordIssue(r)
         /\ pc[r] = "issue.move" => MoveByIssue(r)
         /\ pc[r] = "card.record" => RecordCard(r)
         /\ pc[r] = "card.partial" => RecordPartial(r)
         /\ pc[r] = "card.keep" => KeepCard(r)
         /\ pc[r] = "doc.write" => WriteRoadmap(r)
         /\ pc[r] = "boot.write" => Bootstrap(r)
         /\ pc[r] = "publish.next" => PublishNext(r) \/ RecordPublished(r)
         /\ pc[r] \notin Taken => UNCHANGED roadmap
<1>1. CASE IssueStep(r)
  BY <1>1 DEF IssueStep, LinkIssue, UnlinkIssue, PushIssue, PullIssue, CallIssue, RecordIssue,
              MoveByIssue, RecordIssueFailure, Begin, May, At, TaskOnly, PeerOnly
<1>2. CASE CardStep(r)
  BY <1>2 DEF CardStep, EditTask, WriteTask, SyncTask, SyncItem, CallCard, RecordCard,
              RecordCardFailure, RecordPartial, KeepCard, DragTask, CallStatus, RecordStatus,
              DetachCard, BindProject, Begin, May, At, TaskOnly, PeerOnly
<1>3. CASE RoadmapStep(r)
  BY <1>3 DEF RoadmapStep, RunRoadmapJob, ReadRoadmap, Bootstrap, WriteRoadmap, AssignMilestone,
              UnassignMilestone, CallMilestone, SetTaskMilestone, Publish, PublishNext,
              RecordPublished, Take, Target, Begin, May, At, TaskOnly, PeerOnly, Taken
<1> QED BY <1>1, <1>2, <1>3

\* At rest and undisturbed, the board holds the card the task names and those it
\* let go, whatever was refused, failed to rename or was repeated.
THEOREM TheCardIsOne == Spec => []OneCard
<1>1. SyncInv => OneCard
  BY DEF SyncInv, KnownInv, OneCard, Busy, CardLater
<1> QED BY <1>1, SyncAlways, PTL

\* A push or a pull that nothing else met ends with a state the column stands for,
\* unless the move was refused.
THEOREM PushAndPullEndTogether == Spec => PushAndPullAgree
<1>1. ASSUME SyncInv, [Next]_vars, NEW r \in Requests,
             loc[r].op \in {"push", "pull"}, pc[r] \in {"issue.record", "issue.move"},
             pc'[r] = "done", ~history'.disturbed
      PROVE  \/ task'.state = StateOf(task'.status)
             \/ At(r, "issue.move") /\ task' = task
  <2>1. (IssueStep(r) \/ CardStep(r) \/ RoadmapStep(r)) /\ Step(r)
    BY <1>1, EndsItself
  <2>2. Fits(r) /\ IsTask(task) /\ Typed(r)
    BY <1>1, <2>1, RequestFits DEF SyncInv, IInv, TypeInv, StoreOK
  <2>3. CASE pc[r] = "issue.move"
    BY <2>1, <2>2, <2>3, AtItsLabel DEF MoveByIssue, Fits, IsTask, At
  <2>4. CASE pc[r] = "issue.record"
    <3> DEFINE l == loc[r]
               mirrored == Mirror(task, l.number, l.meta)
               title == IF l.adopt /\ l.meta.title # Untitled THEN l.meta.title ELSE task.title
    <3>1. /\ task' = With(mirrored, [title |-> title])
          /\ ~Go(r, "issue.move")
          /\ l.op = "pull" => ColumnsFor(l.meta.state, task.status) = {}
      <4>1. RecordIssue(r)
        BY <2>1, <2>4, AtItsLabel
      <4>2. ~Go(r, "issue.move")
        BY <1>1 DEF Go, SyncInv, IInv, Shape
      <4> QED BY <4>1, <4>2 DEF RecordIssue
    <3>2. /\ IsTask(mirrored) /\ mirrored.state = l.meta.state
          /\ mirrored.status = task.status
      <4>1. IsIssue(l.meta) /\ l.number \in 0..MaxIssues
        BY <1>1, <2>2, <2>4, BoardAssumption DEF Typed, SyncInv, TypeInv, PeerOK
      <4> HIDE DEF l
      <4> QED BY <2>2, <4>1, Mirrored
    <3> HIDE DEF mirrored, title
    <3>3. task'.state = l.meta.state /\ task'.status = task.status
      BY <3>1, <3>2, WithLinks
    <3>4. l.meta.state = StateOf(task.status)
      <4>1. CASE l.op = "push"
        BY <2>2, <2>4, <4>1 DEF Fits
      <4>2. CASE l.op = "pull"
        <5>1. l.meta.state \in {Open, Closed}
          BY <2>2 DEF Typed, IsIssue
        <5>2. ColumnsFor(l.meta.state, task.status) = {}
          BY <3>1, <4>2
        <5> QED BY <5>1, <5>2 DEF ColumnsFor, StateOf, Open, Closed
      <4> QED BY <1>1, <4>1, <4>2
    <3> QED BY <3>3, <3>4
  <2> QED BY <1>1, <2>3, <2>4
<1>2. SyncInv /\ [Next]_vars =>
        [\A r \in Requests :
           /\ loc[r].op \in {"push", "pull"} /\ pc[r] \in {"issue.record", "issue.move"}
           /\ pc'[r] = "done" /\ ~history'.disturbed
           => \/ task'.state = StateOf(task'.status)
              \/ At(r, "issue.move") /\ task' = task]_vars
  BY <1>1
<1> QED BY <1>2, SyncAlways, PTL DEF Spec, PushAndPullAgree

\* An edit or a sync that nothing else met ends with its title on the card, or
\* with an error on the task.
THEOREM RenameIsSeen == Spec => RenameLandsOrFails
<1>1. ASSUME SyncInv, [Next]_vars, NEW r \in Requests,
             loc[r].op \in {"edit", "sync"}, pc[r] \in {"card.record", "card.partial", "card.keep"},
             pc'[r] = "done", ~history'.disturbed
      PROVE  task'.cardError \/ cards'[loc[r].card].title = task'.title
  <2>1. (IssueStep(r) \/ CardStep(r) \/ RoadmapStep(r)) /\ Step(r)
    BY <1>1, EndsItself
  <2>2. Fits(r) /\ IsTask(task)
    BY <1>1, <2>1, RequestFits DEF SyncInv, IInv, TypeInv, StoreOK
  <2>3. CASE pc[r] = "card.partial"
    BY <2>1, <2>2, <2>3, AtItsLabel DEF RecordPartial, IsTask
  <2>4. CASE pc[r] = "card.keep"
    <3>1. task' = With(task, [project |-> TRUE, card |-> loc[r].card])
      BY <2>1, <2>4, AtItsLabel DEF KeepCard
    <3>2. task'.cardError = task.cardError
      BY <2>2, <3>1 DEF With, IsTask
    <3> QED BY <2>2, <2>4, <3>2 DEF Fits
  <2>5. CASE pc[r] = "card.record"
    <3>1. /\ \/ task' = task
             \/ task' = With(task, [project |-> TRUE, card |-> loc[r].card, cardError |-> FALSE])
          /\ cards' = cards
      BY <2>1, <2>5, AtItsLabel DEF RecordCard, TaskOnly
    <3>2. task'.title = task.title
      BY <2>2, <3>1, WithLinks
    <3> QED BY <1>1, <2>2, <2>5, <3>1, <3>2 DEF Fits
  <2> QED BY <1>1, <2>3, <2>4, <2>5
<1>2. SyncInv /\ [Next]_vars =>
        [\A r \in Requests :
           /\ loc[r].op \in {"edit", "sync"} /\ pc[r] \in {"card.record", "card.partial", "card.keep"}
           /\ pc'[r] = "done" /\ ~history'.disturbed
           => task'.cardError \/ cards'[loc[r].card].title = task'.title]_vars
  BY <1>1
<1> QED BY <1>2, SyncAlways, PTL DEF Spec, RenameLandsOrFails

\* No discovery takes a phase its milestone.
LEMMA DiscoveriesKeepBound ==
  ASSUME NEW doc, IsRoadmap(doc), NEW d \in Discoveries(doc)
  PROVE  Bound(doc.phases) \subseteq Bound(d.phases)
<1>1. ASSUME NEW incoming \in SUBSET Phases, d = [doc EXCEPT !.phases = MergePhases(@, incoming)]
      PROVE  Bound(doc.phases) \subseteq Bound(d.phases)
  <2> DEFINE merged == MergePhases(doc.phases, incoming)
  <2>1. Bound(doc.phases) \subseteq Bound(merged)
    <3>1. CASE incoming = {}
      BY <3>1 DEF MergePhases
    <3>2. CASE incoming # {} /\ Bound(doc.phases) = {}
      BY <3>2
    <3>3. CASE incoming # {} /\ Bound(doc.phases) # {}
      <4>1. merged = [p \in DOMAIN doc.phases \cup incoming |->
                        IF p \in DOMAIN doc.phases THEN doc.phases[p] ELSE 0]
        BY <3>3 DEF MergePhases
      <4> HIDE DEF merged
      <4> QED BY <4>1 DEF Bound
    <3> QED BY <3>1, <3>2, <3>3
  <2>2. d = [doc EXCEPT !.phases = merged]
    BY <1>1
  <2> HIDE DEF merged
  <2>3. d.phases = merged
    BY <2>2 DEF IsRoadmap
  <2> QED BY <2>1, <2>3
<1>2. ASSUME d = IF DOMAIN doc.phases = {} THEN [doc EXCEPT !.phases = [p \in Phases |-> 0]] ELSE doc
      PROVE  Bound(doc.phases) \subseteq Bound(d.phases)
  BY <1>2 DEF Bound
<1> QED BY <1>1, <1>2 DEF Discoveries

\* Who may take a phase its milestone.
Takes(l, p) == l.op = "client" \/ (l.op \in {"assign", "unassign"} /\ l.phase = p)

\* Of what is written back, nothing else does.
LEMMA NewDocsKeepBound ==
  ASSUME NEW l, IsRoadmap(l.doc), l.op \in DocOps, NEW d \in NewDocs(l),
         NEW p \in Bound(l.doc.phases), p \notin Bound(d.phases)
  PROVE  Takes(l, p)
<1>0. DOMAIN l.doc = {"phases", "features", "published"}
  BY DEF IsRoadmap
<1>1. CASE l.op = "discovery"
  BY <1>1, DiscoveriesKeepBound DEF NewDocs
<1>2. CASE l.op \in {"features", "competitor", "card", "feature"}
  <2>1. d.phases = l.doc.phases
    BY <1>0, <1>2 DEF NewDocs, WithFeatures
  <2> QED BY <2>1
<1>3. CASE l.op \in {"assign", "unassign"}
  <2>1. \E n : d = Milestoned(l.doc, l.feature, l.phase, n)
    BY <1>3 DEF NewDocs
  <2>2. /\ DOMAIN d.phases = DOMAIN l.doc.phases
        /\ \A q \in DOMAIN l.doc.phases : q # l.phase => d.phases[q] = l.doc.phases[q]
    BY <1>0, <2>1 DEF Milestoned
  <2> QED BY <1>3, <2>2 DEF Bound, Takes
<1>4. CASE l.op = "client"
  BY <1>4 DEF Takes
<1> QED BY <1>1, <1>2, <1>3, <1>4 DEF DocOps

\* A phase keeps its milestone through every job and request that no other met, but
\* for a client's document, an assignment and an unassignment of that phase
\* (mergeRoadmapPhases).
THEOREM BoundPhasesStay == Spec => BoundPhasesKept
<1> DEFINE Kept == \A p \in Bound(roadmap.phases) \ Bound(roadmap'.phases) :
                     \E r \in Requests : At(r, "doc.write") /\ Takes(loc[r], p)
<1>0. roadmap'.phases = roadmap.phases => Kept
  OBVIOUS
<1>1. ASSUME SyncInv, ~history'.disturbed, NEW r \in Requests,
             IssueStep(r) \/ CardStep(r) \/ RoadmapStep(r)
      PROVE  Kept
  <2>1. Step(r)
    BY <1>1, IssueSteps, CardSteps, RoadmapSteps DEF SyncInv, IInv
  <2>2. Fits(r) /\ IsRoadmap(loc[r].doc) /\ (pc[r] = "doc.write" => loc[r].op \in DocOps)
    BY <1>1, <2>1, RequestFits DEF SyncInv, IInv, TypeInv, Typed, Shape, HoldsOK, DocLabels
  <2>3. CASE pc[r] \notin Taken
    BY <1>0, <1>1, <2>3, AtItsLabel
  <2>4. CASE pc[r] \in Taken
    <3>1. loc[r].doc.phases = roadmap.phases
      BY <2>2, <2>4 DEF Fits
    <3>2. CASE pc[r] = "doc.write"
      <4>1. roadmap' = roadmap \/ roadmap' \in NewDocs(loc[r])
        BY <1>1, <3>2, AtItsLabel DEF WriteRoadmap
      <4> QED BY <1>0, <2>2, <3>1, <3>2, <4>1, NewDocsKeepBound DEF At
    <3>3. CASE pc[r] = "boot.write"
      <4>1. roadmap' \in Discoveries(loc[r].doc)
        BY <1>1, <3>3, AtItsLabel DEF Bootstrap
      <4> QED BY <2>2, <3>1, <4>1, DiscoveriesKeepBound
    <3>4. CASE pc[r] = "publish.next"
      <4>1. roadmap' = roadmap \/ roadmap' = loc[r].doc
        BY <1>1, <3>4, AtItsLabel DEF PublishNext, PeerOnly, RecordPublished
      <4> QED BY <1>0, <3>1, <4>1
    <3> QED BY <2>4, <3>2, <3>3, <3>4 DEF Taken
  <2> QED BY <2>3, <2>4
<1>2. ASSUME EditOnGitHub \/ Die \/ Finished PROVE Kept
  BY <1>0, <1>2 DEF EditOnGitHub, PeerOnly, Die, Finished, vars
<1>3. ASSUME SyncInv, Next, ~history'.disturbed PROVE Kept
  BY <1>1, <1>2, <1>3 DEF Next
<1>4. SyncInv /\ [Next]_vars =>
        [~history'.disturbed =>
           \A p \in Bound(roadmap.phases) \ Bound(roadmap'.phases) : \E r \in Requests :
             /\ At(r, "doc.write")
             /\ loc[r].op = "client" \/ (loc[r].op \in {"assign", "unassign"} /\ loc[r].phase = p)]_vars
  BY <1>3 DEF Takes
<1> QED BY <1>4, SyncAlways, PTL DEF Spec, BoundPhasesKept

=============================================================================
