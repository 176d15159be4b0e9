------------------------ MODULE StatusWorkflowProofs ------------------------
(***************************************************************************)
(* What the shared actions of StatusWorkflow keep, for any workflow and    *)
(* any people: a request that still has the version of the row validated   *)
(* its transition against the status that the row has now.                 *)
(***************************************************************************)
EXTENDS StatusWorkflow, TLAPS

\* The row has not moved under a request that has its version ...
ValidatedNow ==
  \A e \in Editors :
    edit[e].pc \in {"validated", "written"} /\ edit[e].fresh /\ edit[e].to # None
      => Permitted(status, edit[e].to, RoleOf[e])

\* ... and a versioned request that holds the row's lock has its version.
WrittenIsFresh ==
  \A e \in Editors : edit[e].pc = "written" /\ edit[e].versioned => edit[e].fresh

WorkflowInv == WorkflowTypeOK /\ ValidatedNow /\ WrittenIsFresh

EditRequest == [pc : {"idle", "loaded", "validated", "written"},
                versioned : BOOLEAN, fresh : BOOLEAN,
                from : Statuses \cup {None}, to : Statuses \cup {None}]

\* The three kinds of steps that touch the row.
EditStep(e) ==
  \/ Load(e) \/ Refuse(e) \/ Write(e) \/ Commit(e) \/ RollBack(e)
  \/ \E versioned \in BOOLEAN, to \in Statuses \cup {None} : Submit(e, versioned, to)

RemovalStep == StartRemoval \/ WriteRemoval \/ SkipRemoval \/ CommitRemoval \/ RollBackRemoval

ForeignStep == \E newStatus \in Statuses : OtherWrite(newStatus)

-----------------------------------------------------------------------------
LEMMA IdleIsRequest == Idle \in EditRequest
BY DEF Idle, EditRequest

LEMMA OutdatedRequests ==
  ASSUME NEW requests \in [Editors -> EditRequest]
  PROVE  /\ Outdated(requests) \in [Editors -> EditRequest]
         /\ \A e \in Editors :
              /\ Outdated(requests)[e].pc = requests[e].pc
              /\ Outdated(requests)[e].versioned = requests[e].versioned
              /\ Outdated(requests)[e].fresh = FALSE
              /\ Outdated(requests)[e].to = requests[e].to
BY DEF Outdated, EditRequest

\* Nobody has the version of the row any more.
AllStale == \A e \in Editors : edit[e].fresh = FALSE

LEMMA OutdatedMakesStale ==
  ASSUME WorkflowTypeOK, edit' = Outdated(edit)  PROVE AllStale'
<1>1. edit \in [Editors -> EditRequest]
  BY DEF WorkflowTypeOK, EditRequest
<1>. QED  BY <1>1, OutdatedRequests DEF AllStale

LEMMA CommitMakesStale ==
  ASSUME WorkflowTypeOK, NEW e \in Editors, Commit(e)  PROVE AllStale'
<1>1. edit \in [Editors -> EditRequest]
  BY DEF WorkflowTypeOK, EditRequest
<1>2. edit' = [Outdated(edit) EXCEPT ![e] = Idle]
  BY DEF Commit
<1>. QED  BY <1>1, <1>2, OutdatedRequests DEF AllStale, Idle

\* While nobody holds the row, nobody has written it.
LEMMA UnlockedUnwritten ==
  ASSUME WorkflowTypeOK, RowUnlocked
  PROVE  \A e \in Editors : edit[e].pc # "written"
BY WorkflowAssumption DEF WorkflowTypeOK, RowUnlocked

LEMMA WorkflowInitHolds ==
  ASSUME NEW initial \in SUBSET Statuses, WorkflowInit(initial)
  PROVE  WorkflowInv
<1>1. edit \in [Editors -> EditRequest] /\ \A e \in Editors : edit[e].pc = "idle"
  BY IdleIsRequest DEF WorkflowInit, Idle
<1>2. WorkflowTypeOK
  <2>1. \A e \in Editors : edit[e].pc = "written" <=> holder = e
    BY <1>1, WorkflowAssumption DEF WorkflowInit
  <2>2. removing \in 0..MaxRemovals
    BY WorkflowAssumption DEF WorkflowInit
  <2>. QED  BY <1>1, <2>1, <2>2 DEF WorkflowInit, WorkflowTypeOK, EditRequest
<1>. QED  BY <1>1, <1>2 DEF WorkflowInv, ValidatedNow, WrittenIsFresh

-----------------------------------------------------------------------------
\* The frame: steps that leave the row and the requests alone.
LEMMA WorkflowStutters ==
  ASSUME WorkflowInv, UNCHANGED workflowVars  PROVE WorkflowInv'
BY DEF workflowVars, WorkflowInv, WorkflowTypeOK, ValidatedNow,
       WrittenIsFresh, Permitted

LEMMA EditStepTypes ==
  ASSUME WorkflowTypeOK, NEW e \in Editors, EditStep(e)  PROVE WorkflowTypeOK'
<1>. USE DEF WorkflowTypeOK
<1>0. edit \in [Editors -> EditRequest]
  BY DEF EditRequest
<1>1. CASE Load(e)
  <2>1. [Idle EXCEPT !.pc = "loaded", !.fresh = TRUE] \in EditRequest
    BY DEF Idle, EditRequest
  <2>2. edit' \in [Editors -> EditRequest]
    BY <1>0, <1>1, <2>1 DEF Load
  <2>3. \A f \in Editors : edit'[f].pc = "written" <=> edit[f].pc = "written"
    BY <1>1 DEF Load, Idle
  <2>. QED  BY <1>1, <2>2, <2>3 DEF Load, EditRequest
<1>2. CASE Refuse(e)
  <2>2. edit' \in [Editors -> EditRequest]
    BY <1>0, <1>2, IdleIsRequest DEF Refuse
  <2>3. \A f \in Editors : edit'[f].pc = "written" <=> edit[f].pc = "written"
    BY <1>2 DEF Refuse, Idle
  <2>. QED  BY <1>2, <2>2, <2>3 DEF Refuse, EditRequest
<1>3. CASE Write(e)
  <2>1. edit' \in [Editors -> EditRequest]
    BY <1>0, <1>3 DEF Write, EditRequest
  <2>2. \A f \in Editors : edit[f].pc # "written"
    BY <1>3, UnlockedUnwritten DEF Write
  <2>3. \A f \in Editors : edit'[f].pc = "written" <=> f = e
    BY <1>3, <2>2 DEF Write
  <2>. QED  BY <1>3, <2>1, <2>3 DEF Write, EditRequest
<1>4. CASE Commit(e)
  <2>1. edit' \in [Editors -> EditRequest]
    BY <1>0, <1>4, IdleIsRequest, OutdatedRequests DEF Commit
  <2>2. \A f \in Editors : edit'[f].pc # "written"
    BY <1>0, <1>4, OutdatedRequests DEF Commit, Idle
  <2>3. status' \in Statuses
    BY <1>4 DEF Commit, Transitions
  <2>. QED  BY <1>4, <2>1, <2>2, <2>3, WorkflowAssumption DEF Commit, EditRequest
<1>5. CASE RollBack(e)
  <2>1. edit' \in [Editors -> EditRequest]
    BY <1>0, <1>5, IdleIsRequest DEF RollBack
  <2>2. \A f \in Editors : edit'[f].pc # "written"
    BY <1>5 DEF RollBack, Idle
  <2>. QED  BY <1>5, <2>1, <2>2, WorkflowAssumption DEF RollBack, EditRequest
<1>6. ASSUME NEW versioned \in BOOLEAN, NEW to \in Statuses \cup {None}, Submit(e, versioned, to)
      PROVE  WorkflowTypeOK'
  <2>1. edit' \in [Editors -> EditRequest]
    BY <1>0, <1>6 DEF Submit, EditRequest
  <2>2. \A f \in Editors : edit'[f].pc = "written" <=> edit[f].pc = "written"
    BY <1>6 DEF Submit
  <2>. QED  BY <1>6, <2>1, <2>2 DEF Submit, EditRequest
<1>. QED  BY <1>1, <1>2, <1>3, <1>4, <1>5, <1>6 DEF EditStep

LEMMA EditStepVersions ==
  ASSUME WorkflowInv, NEW e \in Editors, EditStep(e)
  PROVE  ValidatedNow' /\ WrittenIsFresh'
<1>. USE DEF WorkflowInv, ValidatedNow, WrittenIsFresh, Permitted
<1>0. edit \in [Editors -> EditRequest]
  BY DEF WorkflowTypeOK, EditRequest
<1>1. CASE Load(e)
  BY <1>0, <1>1 DEF Load, Idle
<1>2. CASE Refuse(e)
  BY <1>0, <1>2 DEF Refuse, Idle
<1>3. CASE Write(e)
  BY <1>0, <1>3 DEF Write, Stale, EditRequest
<1>4. CASE Commit(e)
  <2>1. \A f \in Editors : edit'[f].pc # "written" /\ edit'[f].fresh = FALSE
    <3>1. \A f \in Editors \ {e} : edit[f].pc # "written"
      BY <1>4 DEF Commit, WorkflowTypeOK
    <3>2. edit' = [Outdated(edit) EXCEPT ![e] = Idle]
      BY <1>4 DEF Commit
    <3>3. \A f \in Editors : edit'[f].pc # "written"
      BY <1>0, <3>1, <3>2, OutdatedRequests DEF Idle
    <3>4. \A f \in Editors : edit'[f].fresh = FALSE
      BY <1>4, CommitMakesStale DEF AllStale
    <3>. QED  BY <3>3, <3>4
  <2>. QED  BY <2>1
<1>5. CASE RollBack(e)
  BY <1>0, <1>5 DEF RollBack, Idle
<1>6. ASSUME NEW versioned \in BOOLEAN, NEW to \in Statuses \cup {None}, Submit(e, versioned, to)
      PROVE  ValidatedNow' /\ WrittenIsFresh'
  <2>1. edit' = [edit EXCEPT ![e] =
                   [pc |-> "validated", versioned |-> versioned,
                    fresh |-> versioned => edit[e].fresh,
                    from |-> IF to = None THEN None ELSE status, to |-> to]]
    BY <1>6 DEF Submit
  <2>2. to # None => Permitted(status, to, RoleOf[e])
    BY <1>6 DEF Submit
  <2>3. status' = status
    BY <1>6 DEF Submit
  <2>. QED  BY <1>0, <2>1, <2>2, <2>3
<1>. QED  BY <1>1, <1>2, <1>3, <1>4, <1>5, <1>6 DEF EditStep

\* Any step of a person at the row.
LEMMA EditStepKeeps ==
  ASSUME WorkflowInv, NEW e \in Editors, EditStep(e)  PROVE WorkflowInv'
BY EditStepTypes, EditStepVersions DEF WorkflowInv

\* Who takes the version from everyone, while no person holds the row, leaves
\* nothing to keep.
LEMMA OutdatedKeeps ==
  ASSUME WorkflowInv, holder \notin Editors, edit' = Outdated(edit), holder' = None,
         status' \in Statuses, deleted' \in BOOLEAN, removing' \in 0..MaxRemovals
  PROVE  WorkflowInv'
<1>1. edit \in [Editors -> EditRequest]
  BY DEF WorkflowInv, WorkflowTypeOK, EditRequest
<1>2. \A f \in Editors : edit[f].pc # "written"
  BY DEF WorkflowInv, WorkflowTypeOK
<1>3. /\ edit' \in [Editors -> EditRequest]
      /\ \A f \in Editors : edit'[f].pc # "written" /\ edit'[f].fresh = FALSE
  BY <1>1, <1>2, OutdatedRequests
<1>4. WorkflowTypeOK'
  BY <1>3, WorkflowAssumption DEF WorkflowTypeOK, EditRequest
<1>. QED  BY <1>3, <1>4 DEF WorkflowInv, ValidatedNow, WrittenIsFresh

LEMMA ForeignStepKeeps ==
  ASSUME WorkflowInv, NEW newStatus \in Statuses, OtherWrite(newStatus)  PROVE WorkflowInv'
BY OutdatedKeeps, WorkflowAssumption
   DEF OtherWrite, RowUnlocked, WorkflowInv, WorkflowTypeOK

\* A delete request that only comes, locks the row or lets it go.
LEMMA LockOfRemover ==
  ASSUME WorkflowInv, UNCHANGED <<status, deleted, edit>>,
         holder' = holder \/ {holder, holder'} \subseteq {None, Remover},
         removing' \in 0..MaxRemovals
  PROVE  WorkflowInv'
<1>1. holder' \in Editors \cup {Remover, None}
  BY DEF WorkflowInv, WorkflowTypeOK
<1>2. \A e \in Editors : edit'[e].pc = "written" <=> holder' = e
  BY WorkflowAssumption DEF WorkflowInv, WorkflowTypeOK
<1>3. WorkflowTypeOK'
  BY <1>1, <1>2 DEF WorkflowInv, WorkflowTypeOK
<1>. QED  BY <1>3 DEF WorkflowInv, ValidatedNow, WrittenIsFresh, Permitted

LEMMA RemovalStepKeeps ==
  ASSUME WorkflowInv, RemovalStep  PROVE WorkflowInv'
<1>1. removing' \in 0..MaxRemovals
  BY WorkflowAssumption
     DEF RemovalStep, StartRemoval, WriteRemoval, SkipRemoval, CommitRemoval, RollBackRemoval,
         WorkflowInv, WorkflowTypeOK
<1>2. CASE CommitRemoval
  <2>1. holder \notin Editors
    BY <1>2, WorkflowAssumption DEF CommitRemoval
  <2>. QED  BY <1>1, <1>2, <2>1, OutdatedKeeps DEF CommitRemoval, WorkflowInv, WorkflowTypeOK
<1>3. CASE StartRemoval \/ WriteRemoval \/ SkipRemoval \/ RollBackRemoval
  BY <1>1, <1>3, LockOfRemover
     DEF StartRemoval, WriteRemoval, SkipRemoval, RollBackRemoval, RowUnlocked
<1>. QED  BY <1>2, <1>3 DEF RemovalStep

-----------------------------------------------------------------------------
\* Who moves the row while it is locked by a request: that request, along an
\* edge of the workflow if it carries a version.
LEMMA VersionedMoveIsPermitted ==
  ASSUME WorkflowInv, NEW e \in Editors, EditStep(e),
         NEW f \in Editors, holder = f, edit[f].versioned, status' # status
  PROVE  Permitted(status, status', RoleOf[f])
<1>1. Commit(e)
  BY DEF EditStep, Load, Refuse, Write, RollBack, Submit
<1>2. e = f
  BY <1>1 DEF Commit, WorkflowInv, WorkflowTypeOK
<1>3. edit[f].fresh /\ edit[f].to # None /\ status' = edit[f].to
  BY <1>1, <1>2 DEF Commit, Transitions, WorkflowInv, WrittenIsFresh
<1>. QED  BY <1>1, <1>2, <1>3 DEF Commit, WorkflowInv, ValidatedNow

=============================================================================
