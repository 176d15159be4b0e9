------------------------ MODULE LeadConversionProofs ------------------------
(***************************************************************************)
(* A lead becomes one client and moves along its workflow, for any people, *)
(* any number of LEAD_CONVERTED events and any number of lost conversions. *)
(***************************************************************************)
EXTENDS LeadConversion, StatusWorkflowProofs, FiniteSetTheorems

\* One handler works at a time, and it has found no client.
OneConverting ==
  \A v, w \in Events : event[v] = "converting" /\ event[w] = "converting" => v = w

ConvertingFindsNone == \A v \in Events : event[v] = "converting" => linked = None

IInv == TypeOK /\ WorkflowInv /\ OneConverting /\ ConvertingFindsNone /\ ClientsAreLinked

\* The lead's own part of the types.
ConversionTypeOK ==
  /\ event \in [Events -> Handling]
  /\ linked \in Events \cup {None}
  /\ clients \subseteq Events
  /\ lost \in 0..MaxLost
  /\ \A v \in clients : event[v] = "done"
  /\ linked # None => linked \in clients

ConversionInv == ConversionTypeOK /\ OneConverting /\ ConvertingFindsNone /\ ClientsAreLinked

LEMMA IInvInParts == IInv <=> WorkflowInv /\ ConversionInv
BY DEF IInv, TypeOK, WorkflowInv, ConversionInv, ConversionTypeOK

LEMMA InitEstablishes == Init => IInv
<1>. SUFFICES ASSUME Init  PROVE IInv
  OBVIOUS
<1>1. {"new"} \in SUBSET Statuses
  BY LeadAssumption DEF LeadStatuses
<1>2. WorkflowInv
  BY <1>1, WorkflowInitHolds DEF Init
<1>3. lost \in 0..MaxLost
  BY LeadAssumption DEF Init
<1>4. ConversionInv
  BY <1>3 DEF Init, ConversionInv, ConversionTypeOK, OneConverting, ConvertingFindsNone,
              ClientsAreLinked, Handling
<1>. QED  BY <1>2, <1>4, IInvInParts

-----------------------------------------------------------------------------
\* What a request does to the row.
LEMMA RequestEdits ==
  ASSUME NEW e \in Editors, Request(e)  PROVE EditStep(e)
BY DEF Request, EditStep, OpenLead, SubmitLead, RefuseLead, WriteLead, CommitLead, RollBackLead

LEMMA RemovalRemoves ==
  ASSUME Removal  PROVE RemovalStep /\ UNCHANGED <<status, conversion>>
BY DEF Removal, StartRemoveLead, RemoveLead, CommitRemoveLead, RollBackRemoveLead, RemovalStep,
       StartRemoval, WriteRemoval, CommitRemoval, RollBackRemoval

\* What a handler does to it: nothing, or one write that closes the lead.
LEMMA HandlerWrites ==
  ASSUME NEW v \in Events, Handler(v)
  PROVE  UNCHANGED workflowVars \/ ForeignStep
<1>1. "closed" \in Statuses
  BY LeadAssumption DEF LeadStatuses
<1>. QED  BY <1>1 DEF Handler, BeginConversion, FinishConversion, LoseConversion, ForeignStep

LEMMA WorkflowPreserved ==
  ASSUME WorkflowInv, [Next]_vars  PROVE WorkflowInv'
<1>1. ASSUME NEW e \in Editors, Request(e)  PROVE WorkflowInv'
  BY <1>1, RequestEdits, EditStepKeeps
<1>2. CASE Removal
  BY <1>2, RemovalRemoves, RemovalStepKeeps
<1>3. ASSUME NEW v \in Events, Handler(v)  PROVE WorkflowInv'
  BY <1>3, HandlerWrites, WorkflowStutters, ForeignStepKeeps DEF ForeignStep
<1>4. CASE UNCHANGED vars
  BY <1>4, WorkflowStutters DEF vars
<1>. QED  BY <1>1, <1>2, <1>3, <1>4 DEF Next

-----------------------------------------------------------------------------
LEMMA ConversionStutters ==
  ASSUME ConversionInv, UNCHANGED conversion  PROVE ConversionInv'
BY DEF conversion, ConversionInv, ConversionTypeOK, OneConverting, ConvertingFindsNone,
       ClientsAreLinked

LEMMA ConversionPreserved ==
  ASSUME ConversionInv, [Next]_vars  PROVE ConversionInv'
<1>. USE DEF ConversionInv, ConversionTypeOK, OneConverting, ConvertingFindsNone, ClientsAreLinked
<1>1. ASSUME NEW e \in Editors, Request(e)  PROVE ConversionInv'
  <2>1. CASE WriteLead(e)
    <3>1. event' = event \/ \E v \in Unused : event' = [event EXCEPT ![v] = "queued"]
      BY <2>1 DEF WriteLead
    <3>2. UNCHANGED <<linked, clients, lost>>
      BY <2>1 DEF WriteLead
    <3>. QED  BY <3>1, <3>2 DEF Unused, Handling
  <2>2. CASE ~WriteLead(e)
    <3>1. UNCHANGED conversion
      BY <1>1, <2>2 DEF Request, OpenLead, SubmitLead, RefuseLead, CommitLead, RollBackLead
    <3>. QED  BY <3>1, ConversionStutters
  <2>. QED  BY <2>1, <2>2
<1>2. CASE Removal
  BY <1>2, RemovalRemoves, ConversionStutters
<1>3. ASSUME NEW v \in Events, BeginConversion(v)  PROVE ConversionInv'
  BY <1>3 DEF BeginConversion, AlreadyConverted, AdvisoryLockFree, Handling
<1>4. ASSUME NEW v \in Events, FinishConversion(v)  PROVE ConversionInv'
  <2>1. clients = {}
    BY <1>4, LeadAssumption DEF FinishConversion
  <2>2. event' = [event EXCEPT ![v] = "done"] /\ linked' = v /\ clients' = {v} /\ lost' = lost
    BY <1>4, <2>1 DEF FinishConversion
  <2>. QED  BY <1>4, <2>2 DEF FinishConversion, Handling
<1>5. ASSUME NEW v \in Events, LoseConversion(v)  PROVE ConversionInv'
  <2>1. lost' \in 0..MaxLost
    BY <1>5, LeadAssumption DEF LoseConversion
  <2>. QED  BY <1>5, <2>1 DEF LoseConversion, Handling
<1>6. CASE UNCHANGED vars
  BY <1>6, ConversionStutters DEF vars, conversion
<1>. QED  BY <1>1, <1>2, <1>3, <1>4, <1>5, <1>6 DEF Next, Handler

-----------------------------------------------------------------------------
LEMMA Inductive == Spec => []IInv
<1>1. ASSUME IInv, [Next]_vars  PROVE IInv'
  <2>1. WorkflowInv' /\ ConversionInv'
    BY <1>1, WorkflowPreserved, ConversionPreserved, IInvInParts
  <2>. QED  BY <2>1 DEF IInv, TypeOK, WorkflowInv, ConversionInv, ConversionTypeOK
<1>. QED  BY InitEstablishes, <1>1, PTL DEF Spec

(* The state stays well typed; whoever left a client has been handled to   *)
(* the end, and the lead never names a client that was not committed.      *)
THEOREM TypeCorrect == Spec => []TypeOK
BY Inductive, PTL DEF IInv

(* Whatever was opened, closed, reactivated and converted at the same      *)
(* time, the lead names every client that was made of it ...               *)
THEOREM ClientsLinked == Spec => []ClientsAreLinked
BY Inductive, PTL DEF IInv

(* ... and so there is at most one.                                        *)
THEOREM LeadHasOneClient == Spec => []OneClientPerLead
<1>1. ASSUME IInv  PROVE OneClientPerLead
  <2>1. clients \subseteq {linked}
    BY <1>1 DEF IInv, ClientsAreLinked
  <2>2. IsFiniteSet({linked}) /\ Cardinality({linked}) = 1
    BY FS_Singleton
  <2>3. Cardinality(clients) \in Nat /\ Cardinality(clients) <= 1
    BY <2>1, <2>2, FS_Subset, FS_CardinalityType
  <2>. QED  BY <2>3 DEF OneClientPerLead
<1>. QED  BY Inductive, <1>1, PTL

(* A versioned request moves the lead along an edge that its role may use, *)
(* from the status that the lead has when the request commits.             *)
THEOREM MovesArePermitted == Spec => MovesAlongWorkflow
<1>1. ASSUME IInv, [Next]_vars,
             NEW f \in Editors, holder = f, edit[f].versioned, status' # status
      PROVE  Permitted(status, status', RoleOf[f])
  <2>1. ~RowUnlocked
    BY <1>1, WorkflowAssumption DEF RowUnlocked
  <2>2. PICK e \in Editors : Request(e)
    BY <1>1, <2>1, RemovalRemoves
       DEF Next, vars, workflowVars, Handler, BeginConversion, FinishConversion, OtherWrite,
           LoseConversion
  <2>. QED  BY <1>1, <2>2, RequestEdits, VersionedMoveIsPermitted DEF IInv
<1>2. ASSUME IInv, [Next]_vars
      PROVE  [\A e \in Editors : holder = e /\ edit[e].versioned /\ status' # status =>
                Permitted(status, status', RoleOf[e])]_vars
  BY <1>1, <1>2
<1>. QED  BY Inductive, <1>2, PTL DEF Spec, MovesAlongWorkflow

-----------------------------------------------------------------------------
(* Nothing closes a lead and leaves nobody to convert it: what holds at    *)
(* every moment of ClosedLeadBecomesClient, which needs fairness besides.  *)

\* The lead has its client, or a handler will still give it one, or it was lost.
Tracked ==
  \/ linked # None \/ lost > 0
  \/ \E v \in Events : event[v] \in {"queued", "converting"}

\* The event is out before the commit that closes the lead.
HoldsClose(e) == edit[e].pc = "written" /\ edit[e].to = "closed"

ClosersTracked == \A e \in Editors : HoldsClose(e) => Tracked

ClosedTracked == status = "closed" => Tracked

TrackingInv == ClosersTracked /\ ClosedTracked

\* What is tracked stays tracked: a handler that ends finds a client, leaves
\* one, or is lost.
LEMMA TrackedStays ==
  ASSUME ConversionInv, [Next]_vars, Tracked  PROVE Tracked'
<1>. USE DEF Tracked, ConversionInv, ConversionTypeOK
<1>1. ASSUME NEW e \in Editors, Request(e)  PROVE Tracked'
  <2>1. UNCHANGED <<linked, lost>> /\ \A v \in Events : event'[v] = event[v] \/ event'[v] = "queued"
    BY <1>1 DEF Request, OpenLead, SubmitLead, RefuseLead, WriteLead, CommitLead, RollBackLead,
                conversion
  <2>. QED  BY <2>1
<1>2. CASE Removal
  BY <1>2, RemovalRemoves DEF conversion
<1>3. ASSUME NEW v \in Events, BeginConversion(v)  PROVE Tracked'
  BY <1>3 DEF BeginConversion, AlreadyConverted
<1>4. ASSUME NEW v \in Events, FinishConversion(v)  PROVE Tracked'
  BY <1>4, LeadAssumption DEF FinishConversion
<1>5. ASSUME NEW v \in Events, LoseConversion(v)  PROVE Tracked'
  BY <1>5, LeadAssumption DEF LoseConversion
<1>6. CASE UNCHANGED vars
  BY <1>6 DEF vars
<1>. QED  BY <1>1, <1>2, <1>3, <1>4, <1>5, <1>6 DEF Next, Handler

\* A request that writes "closed" sends an event.
LEMMA CloserSends ==
  ASSUME ConversionInv, NEW e \in Editors, WriteLead(e), edit[e].to = "closed"
  PROVE  Tracked'
BY DEF WriteLead, EmitsConversion, Unused, Tracked, ConversionInv, ConversionTypeOK

\* Who closes the lead: a commit of a request that wrote it, or a handler.
LEMMA WhoCloses ==
  ASSUME IInv, [Next]_vars, status # "closed", status' = "closed"
  PROVE  \/ \E e \in Editors : HoldsClose(e)
         \/ \E v \in Events : FinishConversion(v)
<1>1. ASSUME NEW e \in Editors, Request(e)
      PROVE  HoldsClose(e)
  BY <1>1 DEF HoldsClose, Request, OpenLead, SubmitLead, RefuseLead, WriteLead, CommitLead, RollBackLead,
              Load, Submit, Refuse, Write, Commit, RollBack
<1>2. ~(Removal \/ UNCHANGED vars)
  BY RemovalRemoves DEF vars, workflowVars
<1>3. ASSUME NEW v \in Events, Handler(v)  PROVE FinishConversion(v)
  BY <1>3 DEF Handler, BeginConversion, LoseConversion, workflowVars
<1>. QED  BY <1>1, <1>2, <1>3 DEF Next

\* Who comes to hold a write of "closed": whoever writes it in this step.
LEMMA WhoWrites ==
  ASSUME IInv, [Next]_vars, NEW e \in Editors,
         HoldsClose(e)'
  PROVE  HoldsClose(e) \/ (WriteLead(e) /\ edit[e].to = "closed")
<1>. USE DEF HoldsClose
<1>0. edit \in [Editors -> EditRequest]
  BY DEF IInv, TypeOK, WorkflowTypeOK, EditRequest
<1>1. CASE edit' = edit
  BY <1>1
<1>2. CASE edit' = Outdated(edit)
  BY <1>0, <1>2, OutdatedRequests
<1>3. ASSUME NEW f \in Editors, Request(f)
      PROVE  HoldsClose(e) \/ (WriteLead(e) /\ edit[e].to = "closed")
  <2>1. CASE WriteLead(f)
    <3>1. edit' = [edit EXCEPT ![f].pc = "written"]
      BY <2>1 DEF WriteLead, Write
    <3>2. CASE e = f
      <4>1. edit'[e].to = edit[e].to
        BY <1>0, <3>1, <3>2 DEF EditRequest
      <4>. QED  BY <2>1, <3>2, <4>1
    <3>3. CASE e # f
      <4>1. edit'[e] = edit[e]
        BY <1>0, <3>1, <3>3
      <4>. QED  BY <4>1
    <3>. QED  BY <3>2, <3>3
  <2>2. CASE CommitLead(f)
    BY <1>0, <2>2, OutdatedRequests DEF CommitLead, Commit, Idle
  <2>3. CASE OpenLead(f) \/ RefuseLead(f) \/ RollBackLead(f)
    <3>1. edit'[f].pc # "written" /\ \A g \in Editors : g # f => edit'[g] = edit[g]
      <4>1. CASE OpenLead(f)
        BY <1>0, <4>1 DEF OpenLead, Load, Idle
      <4>2. CASE RefuseLead(f)
        BY <1>0, <4>2 DEF RefuseLead, Refuse, Idle
      <4>3. CASE RollBackLead(f)
        BY <1>0, <4>3 DEF RollBackLead, RollBack, Idle
      <4>. QED  BY <2>3, <4>1, <4>2, <4>3
    <3>. QED  BY <3>1
  <2>4. CASE \E versioned \in BOOLEAN, to \in Statuses \cup {None} : SubmitLead(f, versioned, to)
    BY <1>0, <2>4 DEF SubmitLead, Submit
  <2>. QED  BY <1>3, <2>1, <2>2, <2>3, <2>4 DEF Request
<1>4. CASE Removal
  <2>1. edit' = edit \/ edit' = Outdated(edit)
    BY <1>4, RemovalRemoves
       DEF RemovalStep, StartRemoval, WriteRemoval, SkipRemoval, CommitRemoval, RollBackRemoval
  <2>. QED  BY <1>1, <1>2, <2>1
<1>. QED  BY <1>1, <1>2, <1>3, <1>4
          DEF Next, vars, workflowVars, Handler, BeginConversion, FinishConversion,
              LoseConversion, OtherWrite

(* From the write that closes a lead on, as long as no conversion was      *)
(* lost, the lead has a client or an event that will give it one: closing  *)
(* twice, rolling back, archiving and deleting in between do not leave a   *)
(* closed lead that nobody converts.                                       *)
THEOREM ClosedIsTracked == Spec => []ClosedTracked
<1>1. Init => TrackingInv
  BY DEF Init, WorkflowInit, Idle, TrackingInv, ClosersTracked, ClosedTracked, HoldsClose
<1>2. ASSUME IInv, TrackingInv, [Next]_vars  PROVE TrackingInv'
  <2>0. ConversionInv
    BY <1>2, IInvInParts
  <2>1. CASE Tracked
    BY <1>2, <2>0, <2>1, TrackedStays DEF TrackingInv, ClosersTracked, ClosedTracked
  <2>2. CASE ~Tracked
    <3>1. ClosersTracked'
      BY <1>2, <2>0, <2>2, WhoWrites, CloserSends DEF TrackingInv, ClosersTracked
    <3>2. ASSUME NEW v \in Events  PROVE ~FinishConversion(v)
      BY <2>2 DEF FinishConversion, Tracked
    <3>3. ClosedTracked'
      BY <1>2, <2>2, <3>2, WhoCloses DEF TrackingInv, ClosersTracked, ClosedTracked
    <3>. QED  BY <3>1, <3>3 DEF TrackingInv
  <2>. QED  BY <2>1, <2>2
<1>. QED  BY <1>1, <1>2, Inductive, PTL DEF Spec, TrackingInv

=============================================================================
