----------------------------- MODULE RoadmapSync ---------------------------
(* The roadmap document: the jobs and handlers that read, change and write it. *)
EXTENDS PeerBoard

\* A bind without a number is none here, though unassign clears it.
Bound(phases) == {p \in DOMAIN phases : Number(phases[p]) > 0}

\* Mutant: a new discovery always replaces the phases.
MergePhasesMutant(phases, incoming) ==
  IF incoming = {} THEN phases ELSE [p \in incoming |-> 0]

\* mergeRoadmapPhases: without a bound phase the incoming ones replace all.
MergePhases(phases, incoming) ==
  CASE incoming = {} -> phases
    [] incoming # {} /\ Bound(phases) = {} -> [p \in incoming |-> 0]
    [] OTHER -> [p \in DOMAIN phases \cup incoming |-> IF p \in DOMAIN phases THEN phases[p] ELSE 0]

\* A discovery by the model, or by the builtin, which fills empty phases only.
Discoveries(doc) ==
  {[doc EXCEPT !.phases = MergePhases(@, incoming)] : incoming \in SUBSET Phases}
  \cup {IF DOMAIN doc.phases = {} THEN [doc EXCEPT !.phases = [p \in Phases |-> 0]] ELSE doc}

\* Mutant: the phase a feature names is not looked up.
NewFeatureMutant(phase) == [phase |-> None, milestone |-> 0, card |-> None]

NewFeature(phase) == [phase |-> phase, milestone |-> 0, card |-> None]

\* The features a run adds, each in a phase of the document; a builtin run that
\* adds none puts the document back all the same.  Features of one id are one:
\* publishing skips the second.
WithFeatures(doc) ==
  {[doc EXCEPT !.features = [f \in DOMAIN @ \cup DOMAIN in |->
                               IF f \in DOMAIN @ THEN @[f] ELSE NewFeature(in[f])]] :
     in \in UNION {[fresh -> DOMAIN doc.phases] : fresh \in SUBSET (Features \ DOMAIN doc.features)}}

\* PUT stores any document: what the client got, less a feature, or its own.
Edited(doc) ==
  ClientDocs \cup {doc} \cup {[doc EXCEPT !.features = [g \in DOMAIN @ \ {f} |-> @[g]]] : f \in DOMAIN doc.features}

\* validateRoadmapJSON.
Valid(doc) ==
  /\ DOMAIN doc.phases # {}
  /\ \A f \in DOMAIN doc.features : doc.features[f].phase \in DOMAIN doc.phases

-----------------------------------------------------------------------------
(* GetRoadmap, a change, PutRoadmap: the whole document, in two calls. *)

\* A job or a client starts from the document as it is.
Take(r, kind, label) ==
  /\ Begin(r, kind)
  /\ Keep(r, [op |-> kind, doc |-> roadmap])
  /\ Go(r, label)
  /\ UNCHANGED roadmap /\ RoadmapOnly

RunRoadmapJob(r) ==
  \/ \E kind \in {"discovery", "competitor", "client"} : Take(r, kind, "doc.write")
  \/ Take(r, "features", IF DOMAIN roadmap.phases = {} THEN "boot.read" ELSE "doc.write")

ReadRoadmap(r) ==
  /\ \/ At(r, "boot.read") /\ Go(r, "boot.write")
     \/ At(r, "doc.read") /\ Go(r, "doc.write")
  /\ Keep(r, [doc |-> roadmap])
  /\ UNCHANGED roadmap /\ RoadmapOnly /\ Stored

\* A features job that finds no phases discovers some first; a vision without
\* phases is written too, and the builtin starts over.
Bootstrap(r) ==
  /\ At(r, "boot.write")
  /\ roadmap' \in Discoveries(loc[r].doc)
  /\ Go(r, IF DOMAIN roadmap'.phases = {} THEN "boot.read" ELSE "doc.read")
  /\ UNCHANGED loc /\ RoadmapOnly /\ Stored

\* The milestone of one feature and of one phase, where the document has them.
Milestoned(doc, f, p, n) ==
  [doc EXCEPT
     !.features = [g \in DOMAIN @ |-> IF g = f THEN [@[g] EXCEPT !.milestone = n] ELSE @[g]],
     !.phases = [q \in DOMAIN @ |-> IF q = p THEN n ELSE @[q]]]

Missing(doc, f, p) ==
  f \notin DOMAIN doc.features \cup {None} \/ p \notin DOMAIN doc.phases \cup {None}

\* What is written back.
NewDocs(l) ==
  CASE l.op = "discovery" -> Discoveries(l.doc)
    [] l.op = "features" -> WithFeatures(l.doc)
    [] l.op = "competitor" -> {l.doc}
    [] l.op = "client" -> Edited(l.doc)
    [] l.op = "assign" -> {Milestoned(l.doc, l.feature, l.phase, l.number)}
    [] l.op = "unassign" -> IF Missing(l.doc, l.feature, l.phase) THEN {}
                            ELSE {Milestoned(l.doc, l.feature, l.phase, 0)} \ {l.doc}
    [] l.op \in {"card", "feature"} ->
         {[l.doc EXCEPT !.features =
             [g \in DOMAIN @ |-> IF g = l.feature THEN [@[g] EXCEPT !.card = l.card] ELSE @[g]]]}

\* What a client's document drops of the published, and claims to be.
Overwritten(l, old, new) ==
  [history EXCEPT !.unrecorded = @ \cup (old.published \ new.published),
                  !.claimed = @ \cup (new.published \ l.doc.published)]

\* Nothing is written when there is nothing to say, or PutRoadmap fails.
WriteRoadmap(r) ==
  /\ At(r, "doc.write")
  /\ roadmap' \in NewDocs(loc[r]) \cup {roadmap}
  /\ history' = IF loc[r].op = "client" /\ roadmap' # roadmap
                THEN Overwritten(loc[r], roadmap, roadmap') ELSE history
  /\ UNCHANGED mix /\ RoadmapOnly
  /\ Leave(r)

-----------------------------------------------------------------------------
(* Milestones of the task, of a feature and of a phase. *)

Target(r, kind, label) ==
  /\ Begin(r, kind)
  /\ \E f \in Features \cup {None}, p \in Phases \cup {None}, forTask \in BOOLEAN :
       /\ forTask \/ f # None \/ p # None
       /\ Keep(r, [op |-> kind, feature |-> f, phase |-> p, forTask |-> forTask, task |-> task])
  /\ Go(r, label)
  /\ UNCHANGED roadmap /\ RoadmapOnly

AssignMilestone(r) == Target(r, "assign", "assign.call")
UnassignMilestone(r) == Target(r, "unassign", "milestone.task")

\* The peer finds or makes the milestone, and may answer without its number; an
\* assignment of none clears.
CallMilestone(r) ==
  /\ At(r, "assign.call")
  /\ \/ Leave(r)
     \/ Go(r, "milestone.task") /\ \E n \in Binds : Keep(r, [number |-> n])
  /\ UNCHANGED <<issues, cards, history>> /\ PeerOnly

\* The task first, then the roadmap: an unassignment that then finds no such
\* feature or phase has cleared the task.
SetTaskMilestone(r) ==
  LET l == loc[r] IN
  /\ At(r, "milestone.task")
  /\ task' = IF l.forTask /\ (l.op = "assign" \/ l.task.milestone # 0)
             THEN [task EXCEPT !.milestone = l.number] ELSE task
  /\ IF l.feature # None \/ l.phase # None
     THEN Go(r, "doc.read") /\ UNCHANGED loc ELSE Leave(r)
  /\ TaskOnly /\ Stored

-----------------------------------------------------------------------------
(* Publishing: one issue per feature that has none, then one record of all. *)

Publish(r) ==
  /\ Valid(roadmap) /\ DOMAIN roadmap.features # {}
  /\ Take(r, "publish", "publish.next")

Pending(l) == DOMAIN l.doc.features \ (l.doc.published \cup l.tried)

\* Features go by phase, then by id.
Before(doc, f, g) ==
  LET p == doc.features[f].phase  q == doc.features[g].phase
  IN  p < q \/ (p = q /\ f <= g)

\* Mutant: a feature whose issue was refused is recorded too.
PublishNextMutant(r) ==
  \E f \in Pending(loc[r]) :
    /\ At(r, "publish.next")
    /\ Keep(r, [tried |-> loc[r].tried \cup {f},
                doc |-> [loc[r].doc EXCEPT !.published = @ \cup {f}]])
    /\ UNCHANGED <<issues, cards, history, pc>> /\ PeerOnly

\* A refused feature does not keep the others from being published.
PublishNext(r) ==
  \E f \in Pending(loc[r]) :
    LET l == loc[r]
        n == Cardinality(DOMAIN issues) + 1
    IN
    /\ At(r, "publish.next")
    /\ \A g \in Pending(l) : Before(l.doc, f, g)
    /\ \/ /\ Keep(r, [tried |-> l.tried \cup {f}])
          /\ UNCHANGED <<issues, history>>
       \/ /\ n <= MaxIssues
          /\ issues' = Extend(issues, n, Issue(Untitled, Open, Number(l.doc.features[f].milestone), f))
          /\ \/ /\ Keep(r, [tried |-> l.tried \cup {f}, doc |-> [l.doc EXCEPT !.published = @ \cup {f}]])
                /\ UNCHANGED history
             \/ Keep(r, [tried |-> l.tried \cup {f}]) /\ Unrecorded({f})
    /\ UNCHANGED <<cards, pc>> /\ PeerOnly

\* Mutant: a partial failure records nothing.
RecordPublishedMutant(r) ==
  /\ At(r, "publish.next") /\ Pending(loc[r]) = {}
  /\ roadmap' = IF loc[r].tried \subseteq loc[r].doc.published THEN loc[r].doc ELSE roadmap
  /\ RoadmapOnly /\ Stored
  /\ Leave(r)

\* What was published is recorded whatever failed, with the document as it was
\* when publishing began, unless PutRoadmap fails.
RecordPublished(r) ==
  /\ At(r, "publish.next") /\ Pending(loc[r]) = {}
  /\ \/ roadmap' = loc[r].doc /\ UNCHANGED history
     \/ UNCHANGED roadmap /\ Unrecorded(loc[r].doc.published \ roadmap.published)
  /\ UNCHANGED mix /\ RoadmapOnly
  /\ Leave(r)

RoadmapStep(r) ==
  \/ RunRoadmapJob(r) \/ ReadRoadmap(r) \/ Bootstrap(r) \/ WriteRoadmap(r)
  \/ AssignMilestone(r) \/ UnassignMilestone(r) \/ CallMilestone(r) \/ SetTaskMilestone(r)
  \/ Publish(r) \/ PublishNext(r) \/ RecordPublished(r)

=============================================================================
