---------------------- MODULE ContractSignatureProofs ----------------------
(***************************************************************************)
(* The contract and its signature for any people, contents, envelopes,     *)
(* webhook requests and faults.  The invariant says what the copies are    *)
(* worth that a request and the scheduler took: while the copy is fresh,   *)
(* it holds the link of the row, and a signed document is not in it.       *)
(***************************************************************************)
EXTENDS ContractSignature, StatusWorkflowProofs

-----------------------------------------------------------------------------
(* The row of the contract.                                                *)

Payloads == [doc : Docs \cup {None}, meta : BOOLEAN,
             platform : Platforms \cup {None}, link : Envelopes \cup {None}]

RowTypeOK ==
  /\ doc \in Docs \cup {None}
  /\ link \in Envelopes \cup {None}
  /\ platform \in Platforms \cup {None}
  /\ payload \in [Editors -> Payloads]
  /\ edits \in 0..MaxEdits
  /\ scan \in [pc : {"idle", "read"}, link : Envelopes \cup {None}, fresh : BOOLEAN]
  /\ blind \in BOOLEAN /\ renamed \in BOOLEAN

\* A copy that is fresh agrees with the row.
CopiesCurrent ==
  /\ \A e \in Editors : edit[e].pc \in {"validated", "written"} /\ edit[e].fresh =>
       /\ payload[e].meta => payload[e].link = link
       /\ status \in SIGNATURE_LOCKED_STATUSES => payload[e].doc \in {None, doc}
  /\ scan.pc = "read" /\ scan.fresh => scan.link = link

(* The provider.                                                           *)

HookStates == [pc : {"idle", "seen", "resolving", "applying", "noting", "applied"},
               env : Envelopes \cup {None}, tracked : BOOLEAN]

Sent == {s \in Envelopes : send[s] # "none"}

ProviderInv ==
  /\ send \in [Envelopes -> {"none", "created", "done"}]
  /\ acked \subseteq completed /\ missed \subseteq acked
  /\ completed \subseteq Sent
  /\ ledger \in [Envelopes -> {"none", "open", "processed"}]
  /\ hook \in [Hooks -> HookStates]
  /\ \A h \in Hooks : hook[h].pc # "idle" => hook[h].env \in completed
  /\ faults \in 0..MaxFaults

\* Every copy of the link names an envelope that was created.
LinksSent ==
  /\ link \in Sent \cup {None} /\ scan.link \in Sent \cup {None}
  /\ \A e \in Editors : payload[e].link \in Sent \cup {None}

(* The two counters.                                                       *)

SigningsOK ==
  /\ signings \in 0..1
  /\ status = "awaiting_signature" => signings = 0

RemovalsOK ==
  /\ announced \in Nat /\ undone \in 0..faults
  /\ RemovalsAccounted
  /\ holder = Remover => ~deleted

IInv == /\ WorkflowInv /\ RowTypeOK /\ CopiesCurrent /\ ProviderInv /\ LinksSent
        /\ SigningsOK /\ RemovalsOK

LEMMA IInvTypes == IInv => TypeOK
<1>. SUFFICES ASSUME IInv  PROVE TypeOK
  OBVIOUS
<1>1. announced \in Nat /\ undone \in 0..MaxFaults
  BY ContractAssumption DEF IInv, RemovalsOK, ProviderInv
<1>. QED
  BY <1>1 DEF IInv, TypeOK, WorkflowInv, RowTypeOK, ProviderInv, LinksSent, SigningsOK,
              Payloads, HookStates, Sent

LEMMA InitEstablishes == Init => IInv
<1>. SUFFICES ASSUME Init  PROVE IInv
  OBVIOUS
<1>1. WorkflowInv
  BY ContractAssumption, WorkflowInitHolds DEF Init
<1>2. RowTypeOK
  <2>1. NoPayload \in Payloads /\ edits \in 0..MaxEdits
    BY ContractAssumption DEF Init, Payloads, NoPayload
  <2>2. doc \in Docs \cup {None}
    BY ContractAssumption DEF Init
  <2>. QED  BY <2>1, <2>2 DEF Init, RowTypeOK
<1>3. CopiesCurrent
  BY DEF Init, WorkflowInit, CopiesCurrent, NoPayload
<1>4. ProviderInv
  <2>1. NoHook \in HookStates /\ NoHook.pc = "idle"
    BY DEF HookStates, NoHook
  <2>2. faults \in 0..MaxFaults
    BY ContractAssumption DEF Init
  <2>. QED  BY <2>1, <2>2 DEF Init, ProviderInv
<1>5. LinksSent
  BY DEF Init, LinksSent, NoPayload
<1>6. SigningsOK /\ RemovalsOK
  BY WorkflowAssumption DEF Init, WorkflowInit, SigningsOK, RemovalsOK, RemovalsAccounted
<1>. QED  BY <1>1, <1>2, <1>3, <1>4, <1>5, <1>6 DEF IInv

-----------------------------------------------------------------------------
(* The workflow.                                                           *)

LEMMA RequestEdits ==
  ASSUME NEW e \in Editors, Request(e)  PROVE EditStep(e)
BY DEF Request, EditStep, OpenContract, SubmitContract, RefuseContract, WriteContract,
       CommitContract, RollBackContract

LEMMA RemovalRemoves ==
  ASSUME Removal  PROVE RemovalStep /\ status' = status
BY DEF Removal, StartRemoveContract, RemoveContract, SkipRemoveContract, CommitRemoveContract,
       RollBackRemoveContract, RemovalStep, StartRemoval, WriteRemoval, SkipRemoval,
       CommitRemoval, RollBackRemoval

LEMMA OthersWrite ==
  ASSUME WorkflowInv,
         \/ ScanRead \/ ScanWrite
         \/ \E s \in Envelopes : Sending(s)
         \/ \E h \in Hooks : Webhook(h)
  PROVE  UNCHANGED workflowVars \/ ForeignStep
<1>1. {"awaiting_signature", "signed", status} \subseteq Statuses
  BY ContractAssumption DEF ContractStatuses, WorkflowInv, WorkflowTypeOK
<1>2. CASE ScanRead \/ ScanWrite
  BY <1>1, <1>2 DEF ScanRead, ScanWrite, ForeignStep
<1>3. ASSUME NEW s \in Envelopes, Sending(s)  PROVE UNCHANGED workflowVars \/ ForeignStep
  BY <1>1, <1>3 DEF Sending, CreateEnvelope, LinkEnvelope, OrphanEnvelope, CompleteEnvelope,
                    ForeignStep
<1>4. ASSUME NEW h \in Hooks, Webhook(h)  PROVE UNCHANGED workflowVars \/ ForeignStep
  BY <1>1, <1>4 DEF Webhook, Receive, Ingest, Resolve, ApplySignature, FindNotAwaiting,
                    NoteStatus, Finish, FailHook, CrashHook, ForeignStep
<1>. QED  BY <1>2, <1>3, <1>4

LEMMA WorkflowPreserved ==
  ASSUME WorkflowInv, [Next]_vars  PROVE WorkflowInv'
<1>1. ASSUME NEW e \in Editors, Request(e)  PROVE WorkflowInv'
  BY <1>1, RequestEdits, EditStepKeeps
<1>2. CASE Removal
  BY <1>2, RemovalRemoves, RemovalStepKeeps
<1>3. ASSUME UNCHANGED workflowVars \/ ForeignStep  PROVE WorkflowInv'
  BY <1>3, WorkflowStutters, ForeignStepKeeps DEF ForeignStep
<1>4. CASE UNCHANGED vars
  BY <1>3, <1>4 DEF vars
<1>. QED  BY <1>1, <1>2, <1>3, <1>4, OthersWrite DEF Next

-----------------------------------------------------------------------------
(* The row and the copies of it.                                           *)

\* What the webhook and a removal do to the row: nothing but a new status or
\* deleted_at, which takes the version from every copy.
RowFrame == /\ UNCHANGED <<doc, link, platform, payload, edits, blind, renamed>>
            /\ \/ UNCHANGED <<status, edit, scan>>
               \/ AllStale' /\ scan' = [scan EXCEPT !.fresh = FALSE]

RowInv == RowTypeOK /\ CopiesCurrent

LEMMA FrameKeepsRow ==
  ASSUME RowInv, RowFrame  PROVE RowInv'
BY DEF RowInv, RowFrame, RowTypeOK, CopiesCurrent, AllStale

LEMMA WebhookFrame ==
  ASSUME WorkflowInv, NEW h \in Hooks, Webhook(h)  PROVE RowFrame
<1>1. CASE ApplySignature(h)
  BY <1>1, OutdatedMakesStale DEF ApplySignature, OtherWrite, RowFrame, WorkflowInv
<1>2. CASE ~ApplySignature(h)
  BY <1>2 DEF Webhook, Receive, Ingest, Resolve, FindNotAwaiting, NoteStatus, Finish,
              FailHook, CrashHook, RowFrame, workflowVars, contract
<1>. QED  BY <1>1, <1>2

LEMMA SendingRow ==
  ASSUME WorkflowInv, RowInv, NEW s \in Envelopes, Sending(s)  PROVE RowInv'
<1>1. CASE LinkEnvelope(s)
  <2>1. AllStale'
    BY <1>1, OutdatedMakesStale DEF LinkEnvelope, OtherWrite, WorkflowInv
  <2>. QED
    BY <1>1, <2>1, ContractAssumption DEF LinkEnvelope, RowInv, RowTypeOK, CopiesCurrent, AllStale
<1>2. CASE ~LinkEnvelope(s)
  <2>1. RowFrame
    BY <1>2 DEF Sending, CreateEnvelope, OrphanEnvelope, CompleteEnvelope, RowFrame,
                workflowVars, contract
  <2>. QED  BY <2>1, FrameKeepsRow
<1>. QED  BY <1>1, <1>2

LEMMA SchedulerRow ==
  ASSUME WorkflowInv, RowInv, ScanRead \/ ScanWrite  PROVE RowInv'
<1>1. CASE ScanRead
  BY <1>1 DEF ScanRead, workflowVars, RowInv, RowTypeOK, CopiesCurrent
<1>2. CASE ScanWrite
  <2>1. AllStale'
    BY <1>2, OutdatedMakesStale DEF ScanWrite, OtherWrite, WorkflowInv
  <2>. QED  BY <1>2, <2>1 DEF ScanWrite, RowInv, RowTypeOK, CopiesCurrent, AllStale
<1>. QED  BY <1>1, <1>2

LEMMA RemovalFrame ==
  ASSUME WorkflowInv, Removal  PROVE RowFrame
<1>1. CASE CommitRemoveContract
  BY <1>1, OutdatedMakesStale DEF CommitRemoveContract, CommitRemoval, RowFrame, WorkflowInv
<1>2. CASE ~CommitRemoveContract
  BY <1>2 DEF Removal, StartRemoveContract, StartRemoval, RemoveContract, WriteRemoval,
              SkipRemoveContract, SkipRemoval, RollBackRemoveContract, RollBackRemoval,
              RowFrame, contract
<1>. QED  BY <1>1, <1>2

LEMMA RequestRow ==
  ASSUME WorkflowInv, RowInv, NEW e \in Editors, Request(e)  PROVE RowInv'
<1>. USE DEF RowInv, RowTypeOK, CopiesCurrent
<1>0. edit \in [Editors -> EditRequest] /\ NoPayload \in Payloads
  BY DEF WorkflowInv, WorkflowTypeOK, EditRequest, NoPayload, Payloads
<1>1. CASE OpenContract(e)
  BY <1>0, <1>1 DEF OpenContract, Load, Idle, contract
<1>2. ASSUME NEW versioned \in BOOLEAN, NEW to \in Statuses \cup {None}, NEW content \in Contents,
             SubmitContract(e, versioned, to, content)
      PROVE  RowInv'
  <2>1. PICK p \in Payloads :
          /\ payload' = [payload EXCEPT ![e] = p]
          /\ p.doc = content.doc /\ (p.meta => p.link = link)
    <3>1. /\ content.doc \in Docs \cup {None} /\ content.meta \in BOOLEAN
          /\ content.platform \in Platforms \cup {None}
      BY ContractAssumption
    <3>. DEFINE meta == content.meta \/ to = "signed"
                p    == [doc |-> content.doc, meta |-> meta, platform |-> content.platform,
                         link |-> IF meta THEN link ELSE None]
    <3>2. meta \in BOOLEAN
      BY <3>1
    <3>3. p \in Payloads /\ p.doc = content.doc /\ (p.meta => p.link = link)
      BY <3>1, <3>2 DEF Payloads
    <3>4. payload' = [payload EXCEPT ![e] = p]
      BY <1>2 DEF SubmitContract
    <3>. QED  BY <3>3, <3>4
  <2>2. status \in SIGNATURE_LOCKED_STATUSES => content.doc \in {None, doc}
    BY <1>2 DEF SubmitContract, assertSignedFieldsUnchanged
  <2>3. edits' \in 0..MaxEdits
    BY <1>2, ContractAssumption DEF SubmitContract
  <2>4. /\ UNCHANGED <<doc, link, platform, scan, blind, renamed, status>>
        /\ \A f \in Editors \ {e} : edit'[f] = edit[f]
    BY <1>2 DEF SubmitContract, Submit
  <2>5. RowTypeOK'
    BY <2>1, <2>3, <2>4
  <2>6. CopiesCurrent'
    BY <2>1, <2>2, <2>4
  <2>. QED  BY <2>5, <2>6
<1>3. CASE RefuseContract(e)
  BY <1>0, <1>3 DEF RefuseContract, Refuse, Idle
<1>4. CASE WriteContract(e)
  BY <1>0, <1>4 DEF WriteContract, Write, contract
<1>5. CASE CommitContract(e)
  <2>1. AllStale'
    BY <1>5, CommitMakesStale DEF CommitContract, WorkflowInv
  <2>2. RowTypeOK'
    BY <1>0, <1>5 DEF CommitContract, preserveServerOwnedMetadata, Payloads, Overwrites
  <2>. QED  BY <1>5, <2>1, <2>2 DEF CommitContract, AllStale
<1>6. CASE RollBackContract(e)
  BY <1>0, <1>6 DEF RollBackContract, RollBack, Idle
<1>. QED  BY <1>1, <1>2, <1>3, <1>4, <1>5, <1>6 DEF Request

LEMMA RowPreserved ==
  ASSUME WorkflowInv, RowInv, [Next]_vars  PROVE RowInv'
<1>1. CASE UNCHANGED vars
  BY <1>1, FrameKeepsRow DEF vars, workflowVars, contract, RowFrame
<1>2. ASSUME NEW h \in Hooks, Webhook(h)  PROVE RowInv'
  BY <1>2, WebhookFrame, FrameKeepsRow
<1>3. CASE Removal
  BY <1>3, RemovalFrame, FrameKeepsRow
<1>. QED  BY <1>1, <1>2, <1>3, RequestRow, SchedulerRow, SendingRow DEF Next

-----------------------------------------------------------------------------
(* The provider.                                                           *)

\* Everything but the sends and the webhook leaves the provider alone ...
LEMMA OthersKeepProvider ==
  ASSUME (\E e \in Editors : Request(e)) \/ Removal \/ ScanRead \/ ScanWrite
  PROVE  UNCHANGED provider
BY DEF Request, OpenContract, SubmitContract, RefuseContract, WriteContract, CommitContract,
       RollBackContract, Removal, StartRemoveContract, RemoveContract, SkipRemoveContract,
       CommitRemoveContract, RollBackRemoveContract, ScanRead, ScanWrite

\* ... and the faults, unless it is a removal that is rolled back.
LEMMA OthersFaults ==
  ASSUME ProviderInv, (\E e \in Editors : Request(e)) \/ Removal \/ ScanRead \/ ScanWrite
  PROVE  /\ faults' = faults \/ RollBackRemoveContract
         /\ faults' \in 0..MaxFaults
<1>1. faults' = faults \/ RollBackRemoveContract
  BY DEF Request, OpenContract, SubmitContract, RefuseContract, WriteContract, CommitContract,
         RollBackContract, Removal, StartRemoveContract, RemoveContract, SkipRemoveContract,
         CommitRemoveContract, ScanRead, ScanWrite
<1>. QED  BY <1>1, ContractAssumption DEF RollBackRemoveContract, ProviderInv

LEMMA ProviderFrame ==
  ASSUME ProviderInv, UNCHANGED provider, faults' \in 0..MaxFaults
  PROVE  ProviderInv' /\ Sent' = Sent
BY DEF ProviderInv, provider, Sent

LEMMA SendingProvider ==
  ASSUME ProviderInv, NEW s \in Envelopes, Sending(s)
  PROVE  ProviderInv' /\ Sent \subseteq Sent'
BY ContractAssumption
   DEF Sending, CreateEnvelope, LinkEnvelope, OrphanEnvelope, CompleteEnvelope,
       ProviderInv, Sent

\* A webhook request moves on, or ends; with the answer 200 or without.
LEMMA WebhookProvider ==
  ASSUME ProviderInv, NEW h \in Hooks, Webhook(h)
  PROVE  ProviderInv' /\ Sent' = Sent
<1>. USE DEF ProviderInv, Sent
<1>1. NoHook \in HookStates /\ NoHook.pc = "idle"
  BY DEF HookStates, NoHook
<1>2. ASSUME NEW s \in Envelopes, Receive(h, s)  PROVE ProviderInv' /\ Sent' = Sent
  <2>1. faults' \in 0..MaxFaults
    BY <1>2, ContractAssumption DEF Receive
  <2>2. [pc |-> "seen", env |-> s, tracked |-> FALSE] \in HookStates
    BY DEF HookStates
  <2>3. /\ hook' \in [Hooks -> HookStates]
        /\ \A g \in Hooks : hook'[g].pc # "idle" => hook'[g].env \in completed
    <3>1. CASE hook' = hook
      BY <3>1
    <3>2. CASE hook' = [hook EXCEPT ![h] = [pc |-> "seen", env |-> s, tracked |-> FALSE]]
      BY <1>2, <2>2, <3>2 DEF Receive
    <3>. QED  BY <1>2, <3>1, <3>2 DEF Receive
  <2>4. acked' \subseteq completed /\ missed' \subseteq acked'
    BY <1>2 DEF Receive
  <2>. QED  BY <1>2, <2>1, <2>3, <2>4 DEF Receive
<1>3. CASE Ingest(h)
  <2>1. faults' \in 0..MaxFaults
    BY <1>3, ContractAssumption DEF Ingest
  <2>2. ledger' \in [Envelopes -> {"none", "open", "processed"}]
    BY <1>3 DEF Ingest
  <2>3. /\ hook' \in [Hooks -> HookStates]
        /\ \A g \in Hooks : hook'[g].pc # "idle" => hook'[g].env \in completed
    BY <1>3 DEF Ingest, HookAt, HookStates
  <2>. QED  BY <1>3, <2>1, <2>2, <2>3 DEF Ingest
<1>4. ASSUME NEW mark \in {"open", "processed"}
      PROVE  Marked(h, mark) \in [Envelopes -> {"none", "open", "processed"}]
  BY DEF Marked
<1>5. CASE Resolve(h)
  <2>1. ledger' \in [Envelopes -> {"none", "open", "processed"}]
    BY <1>4, <1>5 DEF Resolve
  <2>2. /\ hook' \in [Hooks -> HookStates]
        /\ \A g \in Hooks : hook'[g].pc # "idle" => hook'[g].env \in completed
    BY <1>1, <1>5 DEF Resolve, Answered, HookAt, HookStates
  <2>3. acked' \subseteq completed /\ missed' \subseteq acked'
    BY <1>5 DEF Resolve, Answered
  <2>. QED  BY <1>5, <2>1, <2>2, <2>3 DEF Resolve
<1>6. CASE ApplySignature(h) \/ FindNotAwaiting(h) \/ NoteStatus(h)
  <2>1. \E pc \in {"applied", "noting"} : HookAt(h, pc)
    BY <1>6 DEF ApplySignature, FindNotAwaiting, NoteStatus
  <2>2. hook[h].pc # "idle" /\ UNCHANGED <<send, completed, acked, missed, ledger, faults>>
    BY <1>6 DEF ApplySignature, FindNotAwaiting, NoteStatus
  <2>. QED  BY <2>1, <2>2 DEF HookAt, HookStates
<1>7. CASE Finish(h)
  <2>1. ledger' \in [Envelopes -> {"none", "open", "processed"}]
    BY <1>4, <1>7 DEF Finish
  <2>2. faults' \in 0..MaxFaults
    BY <1>7, ContractAssumption DEF Finish
  <2>. QED  BY <1>1, <1>7, <2>1, <2>2 DEF Finish, Answered
<1>8. CASE FailHook(h) \/ CrashHook(h)
  <2>1. ledger' \in [Envelopes -> {"none", "open", "processed"}]
    BY <1>4, <1>8 DEF FailHook, CrashHook
  <2>2. faults' \in 0..MaxFaults
    BY <1>8, ContractAssumption DEF FailHook, CrashHook
  <2>. QED  BY <1>1, <1>8, <2>1, <2>2 DEF FailHook, CrashHook
<1>. QED  BY <1>2, <1>3, <1>5, <1>6, <1>7, <1>8 DEF Webhook

LEMMA ProviderPreserved ==
  ASSUME ProviderInv, [Next]_vars  PROVE ProviderInv' /\ Sent \subseteq Sent'
<1>1. CASE UNCHANGED vars
  BY <1>1, ProviderFrame DEF vars, ProviderInv
<1>2. CASE (\E e \in Editors : Request(e)) \/ Removal \/ ScanRead \/ ScanWrite
  BY <1>2, ProviderFrame, OthersKeepProvider, OthersFaults
<1>. QED  BY <1>1, <1>2, SendingProvider, WebhookProvider DEF Next

\* Copies are taken of the link, and the link of an envelope that was created.
LEMMA LinksPreserved ==
  ASSUME RowInv, ProviderInv, LinksSent, [Next]_vars  PROVE LinksSent'
<1>. USE DEF RowInv, RowTypeOK, LinksSent
<1>0. Sent \subseteq Sent'
  BY ProviderPreserved
<1>1. ASSUME NEW e \in Editors, Request(e)  PROVE LinksSent'
  BY <1>0, <1>1
     DEF Request, OpenContract, SubmitContract, RefuseContract, WriteContract, CommitContract,
         RollBackContract, preserveServerOwnedMetadata, contract, NoPayload
<1>2. CASE Removal \/ ScanRead \/ ScanWrite
  BY <1>0, <1>2
     DEF Removal, StartRemoveContract, RemoveContract, SkipRemoveContract, CommitRemoveContract,
         RollBackRemoveContract, ScanRead, ScanWrite, contract
<1>3. ASSUME NEW s \in Envelopes, Sending(s)  PROVE LinksSent'
  <2>1. CASE LinkEnvelope(s)
    <3>1. s \in Sent
      BY <2>1 DEF LinkEnvelope, Sent
    <3>. QED  BY <1>0, <2>1, <3>1 DEF LinkEnvelope
  <2>2. CASE ~LinkEnvelope(s)
    BY <1>0, <1>3, <2>2 DEF Sending, CreateEnvelope, OrphanEnvelope, CompleteEnvelope, contract
  <2>. QED  BY <2>1, <2>2
<1>4. ASSUME NEW h \in Hooks, Webhook(h)  PROVE LinksSent'
  BY <1>0, <1>4
     DEF Webhook, Receive, Ingest, Resolve, ApplySignature, FindNotAwaiting, NoteStatus,
         Finish, FailHook, CrashHook, contract
<1>5. CASE UNCHANGED vars
  BY <1>0, <1>5 DEF vars, contract
<1>. QED  BY <1>1, <1>2, <1>3, <1>4, <1>5 DEF Next

-----------------------------------------------------------------------------
(* The counters.                                                           *)

LEMMA SigningsPreserved ==
  ASSUME SigningsOK, [Next]_vars  PROVE SigningsOK'
<1>. USE DEF SigningsOK
<1>1. ASSUME NEW e \in Editors, Request(e)  PROVE SigningsOK'
  BY <1>1
     DEF Request, OpenContract, Load, SubmitContract, Submit, RefuseContract, Refuse,
         WriteContract, Write, CommitContract, Signings, RollBackContract, RollBack
<1>2. CASE Removal \/ ScanRead \/ ScanWrite
  BY <1>2, RemovalRemoves
     DEF Removal, StartRemoveContract, RemoveContract, SkipRemoveContract, CommitRemoveContract,
         RollBackRemoveContract, ScanRead, ScanWrite, OtherWrite, workflowVars
<1>3. ASSUME NEW s \in Envelopes, Sending(s)  PROVE SigningsOK'
  BY <1>3 DEF Sending, CreateEnvelope, LinkEnvelope, OtherWrite, Signings, OrphanEnvelope,
              CompleteEnvelope, workflowVars
<1>4. ASSUME NEW h \in Hooks, Webhook(h)  PROVE SigningsOK'
  <2>1. CASE ApplySignature(h)
    BY <2>1 DEF ApplySignature, AwaitsSignature, OtherWrite, OneMore
  <2>2. CASE ~ApplySignature(h)
    BY <1>4, <2>2 DEF Webhook, Receive, Ingest, Resolve, FindNotAwaiting, rowCount, NoteStatus,
                      Finish, FailHook, CrashHook, workflowVars
  <2>. QED  BY <2>1, <2>2
<1>5. CASE UNCHANGED vars
  BY <1>5 DEF vars, workflowVars
<1>. QED  BY <1>1, <1>2, <1>3, <1>4, <1>5 DEF Next

LEMMA FaultsGrow ==
  ASSUME ProviderInv, [Next]_vars  PROVE faults' >= faults
<1>0. faults \in Nat
  BY ContractAssumption DEF ProviderInv
<1>1. CASE (\E e \in Editors : Request(e)) \/ Removal \/ ScanRead \/ ScanWrite
  BY <1>0, <1>1, OthersFaults DEF RollBackRemoveContract
<1>2. ASSUME NEW s \in Envelopes, Sending(s)  PROVE faults' >= faults
  BY <1>0, <1>2 DEF Sending, CreateEnvelope, LinkEnvelope, OrphanEnvelope, CompleteEnvelope
<1>3. ASSUME NEW h \in Hooks, Webhook(h)  PROVE faults' >= faults
  <2>1. faults' \in {faults, faults + 1}
    BY <1>3 DEF Webhook, Receive, Ingest, Resolve, ApplySignature, FindNotAwaiting, NoteStatus,
                Finish, FailHook, CrashHook
  <2>. QED  BY <1>0, <2>1
<1>4. CASE UNCHANGED vars
  BY <1>0, <1>4 DEF vars
<1>. QED  BY <1>1, <1>2, <1>3, <1>4 DEF Next

\* Everybody but the delete requests leaves the counts alone, and the row as
\* it is or in the hands of somebody else.
LEMMA OthersKeepCounts ==
  ASSUME WorkflowInv,
         \/ \E e \in Editors : Request(e)
         \/ ScanRead \/ ScanWrite
         \/ \E s \in Envelopes : Sending(s)
         \/ \E h \in Hooks : Webhook(h)
         \/ UNCHANGED vars
  PROVE  UNCHANGED <<announced, undone, deleted>> /\ (holder' = Remover <=> holder = Remover)
<1>1. ASSUME NEW e \in Editors, Request(e)
      PROVE  UNCHANGED <<announced, undone, deleted>> /\ (holder' = Remover <=> holder = Remover)
  <2>1. UNCHANGED <<announced, undone>>
    BY <1>1 DEF Request, OpenContract, SubmitContract, RefuseContract, WriteContract,
                CommitContract, RollBackContract, telling
  <2>2. deleted' = deleted /\ (holder' = holder \/ {holder, holder'} \subseteq {None, e})
    BY <1>1, RequestEdits
       DEF EditStep, Load, Refuse, Write, Commit, RollBack, Submit, RowUnlocked,
           WorkflowInv, WorkflowTypeOK
  <2>. QED  BY <2>1, <2>2, WorkflowAssumption
<1>2. CASE ~\E e \in Editors : Request(e)
  <2>1. UNCHANGED <<announced, undone>>
    BY <1>2 DEF ScanRead, ScanWrite, Sending, CreateEnvelope, LinkEnvelope, OrphanEnvelope,
                CompleteEnvelope, Webhook, Receive, Ingest, Resolve, ApplySignature,
                FindNotAwaiting, NoteStatus, Finish, FailHook, CrashHook, telling, vars
  <2>2. UNCHANGED workflowVars \/ ForeignStep
    BY <1>2, OthersWrite DEF vars
  <2>. QED  BY <2>1, <2>2 DEF workflowVars, ForeignStep, OtherWrite
<1>. QED  BY <1>1, <1>2

LEMMA RemovalsPreserved ==
  ASSUME WorkflowInv, ProviderInv, RemovalsOK, [Next]_vars  PROVE RemovalsOK'
<1>. USE DEF RemovalsOK, RemovalsAccounted
<1>0. undone \in Nat /\ faults \in Nat /\ faults' \in Nat /\ faults' >= faults
  BY ContractAssumption, FaultsGrow, ProviderPreserved DEF ProviderInv
<1>1. CASE StartRemoveContract \/ SkipRemoveContract
  BY <1>0, <1>1
     DEF StartRemoveContract, StartRemoval, SkipRemoveContract, SkipRemoval, telling
<1>2. CASE RemoveContract
  BY <1>0, <1>2, WorkflowAssumption DEF RemoveContract, WriteRemoval, Removes, RowUnlocked
<1>3. CASE CommitRemoveContract
  BY <1>0, <1>3, WorkflowAssumption DEF CommitRemoveContract, CommitRemoval, telling
<1>4. CASE RollBackRemoveContract
  BY <1>0, <1>4, WorkflowAssumption DEF RollBackRemoveContract, RollBackRemoval
<1>5. CASE ~Removal
  BY <1>0, <1>5, OthersKeepCounts DEF Next
<1>. QED  BY <1>1, <1>2, <1>3, <1>4, <1>5 DEF Removal

-----------------------------------------------------------------------------
LEMMA StepKeeps ==
  ASSUME IInv, [Next]_vars  PROVE IInv'
BY WorkflowPreserved, RowPreserved, ProviderPreserved, LinksPreserved, SigningsPreserved,
   RemovalsPreserved
   DEF IInv, RowInv

LEMMA Inductive == Spec => []IInv
BY InitEstablishes, StepKeeps, PTL DEF Spec

(* The state stays well typed; an envelope that the row names was created, *)
(* and a webhook request is about a completed one.                         *)
THEOREM TypeCorrect == Spec => []TypeOK
BY Inductive, IInvTypes, PTL

(* A contract that awaits a signature is signed by the provider once.      *)
THEOREM SignedOnce == Spec => []OneSignaturePerRound
<1>1. IInv => OneSignaturePerRound
  BY DEF IInv, SigningsOK, OneSignaturePerRound
<1>. QED  BY Inductive, <1>1, PTL

(* Every CONTRACT_CANCELLED of a delete request is that of the removal     *)
(* that is kept, or of a request that was rolled back after sending it.    *)
THEOREM RemovalsAreAccounted == Spec => []RemovalsAccounted
<1>1. IInv => RemovalsAccounted
  BY DEF IInv, RemovalsOK
<1>. QED  BY Inductive, <1>1, PTL

-----------------------------------------------------------------------------
(* The link and the document.                                              *)

\* What a write that is not blind carries.
LEMMA CommitCarriesCurrent ==
  ASSUME IInv, NEW e \in Editors, CommitContract(e), ~blind'
  PROVE  /\ payload[e].meta => payload[e].link = link
         /\ status \in SIGNATURE_LOCKED_STATUSES => payload[e].doc \in {None, doc}
<1>1. edit[e].pc = "written" /\ edit[e].fresh
  BY DEF CommitContract, Commit, Overwrites, IInv, WorkflowInv, WorkflowTypeOK, WrittenIsFresh
<1>. QED  BY <1>1 DEF IInv, CopiesCurrent

\* While nothing was written blindly, only a new envelope changes the link.
LEMMA LinkChanges ==
  ASSUME IInv, [Next]_vars, link' # link, ~blind'
  PROVE  \E s \in Envelopes : LinkEnvelope(s)
<1>1. ASSUME NEW e \in Editors, CommitContract(e)  PROVE FALSE
  BY <1>1, CommitCarriesCurrent DEF CommitContract, preserveServerOwnedMetadata
<1>2. ASSUME ScanWrite  PROVE FALSE
  BY <1>2 DEF ScanWrite, IInv, CopiesCurrent
<1>. QED
  BY <1>1, <1>2
     DEF Next, vars, Request, OpenContract, SubmitContract, RefuseContract, WriteContract,
         RollBackContract, Removal, StartRemoveContract, RemoveContract, SkipRemoveContract,
         CommitRemoveContract, RollBackRemoveContract, ScanRead, Sending,
         CreateEnvelope, OrphanEnvelope, CompleteEnvelope, Webhook, Receive, Ingest, Resolve,
         ApplySignature, FindNotAwaiting, NoteStatus, Finish, FailHook, CrashHook, contract

(* The link changes only with a new envelope, unless a write went over     *)
(* changes that its author had not seen.                                   *)
THEOREM LinkKept == Spec => LinkageKept
<1>1. ASSUME IInv, [Next]_vars, link' # link, ~blind'
      PROVE  \E s \in Envelopes : send[s] = "created" /\ link' = s
  BY <1>1, LinkChanges DEF LinkEnvelope
<1>2. ASSUME IInv, [Next]_vars
      PROVE  [link' # link /\ ~blind' =>
                \E s \in Envelopes : send[s] = "created" /\ link' = s]_vars
  BY <1>1, <1>2
<1>. QED  BY Inductive, <1>2, PTL DEF Spec, LinkageKept

(* The document of a signed contract changes only by such a write.         *)
THEOREM SignedIsFixed == Spec => SignedDocumentFixed
<1>1. ASSUME IInv, [Next]_vars, doc' # doc, ~blind'
      PROVE  status \notin SIGNATURE_LOCKED_STATUSES
  <2>1. PICK e \in Editors : CommitContract(e)
    BY <1>1
       DEF Next, vars, Request, OpenContract, SubmitContract, RefuseContract, WriteContract,
           RollBackContract, Removal, StartRemoveContract, RemoveContract, SkipRemoveContract,
           CommitRemoveContract, RollBackRemoveContract, ScanRead, ScanWrite, Sending,
           CreateEnvelope, LinkEnvelope, OrphanEnvelope, CompleteEnvelope, Webhook, Receive,
           Ingest, Resolve, ApplySignature, FindNotAwaiting, NoteStatus, Finish, FailHook,
           CrashHook, contract
  <2>2. payload[e].doc # None /\ payload[e].doc # doc
    BY <1>1, <2>1 DEF CommitContract
  <2>. QED  BY <1>1, <2>1, <2>2, CommitCarriesCurrent
<1>2. ASSUME IInv, [Next]_vars
      PROVE  [doc' # doc /\ ~blind' => status \notin SIGNATURE_LOCKED_STATUSES]_vars
  BY <1>1, <1>2
<1>. QED  BY Inductive, <1>2, PTL DEF Spec, SignedDocumentFixed

-----------------------------------------------------------------------------
(* An answer of 200 is never given too early: what holds at every moment   *)
(* of SignatureArrives, which needs fairness besides.                      *)

\* Once a contract awaits a signature, no transition leads back to that.
FromAwaiting == ContractStatuses \ {"draft", "under_review"}

Resolved(h) == hook[h].pc \in {"applying", "noting", "applied"}

\* The contract that an envelope is linked to awaits it or has gone on, and
\* so has whoever is done with its completion.
EnvelopesApplied ==
  /\ link # None => send[link] = "done" /\ status \in FromAwaiting
  /\ \A h \in Hooks : Resolved(h) => send[hook[h].env] = "done"
  /\ \A h \in Hooks : hook[h].pc \in {"noting", "applied"} /\ hook[h].env = link =>
       status # "awaiting_signature"
  /\ \A s \in acked \ missed : /\ send[s] = "done"
                               /\ s = link => status # "awaiting_signature" \/ renamed
  /\ \A s \in Envelopes : ledger[s] = "processed" => s \in acked
  /\ link # None => platform = DocuSign \/ renamed

SignatureInv == ~blind => EnvelopesApplied

\* The provider still delivers the completion that a contract waits for.
AnsweredWhenApplied ==
  \A s \in acked : link = s /\ status = "awaiting_signature" => s \in missed \/ renamed \/ blind

LEMMA NoWayBack ==
  ASSUME NEW from \in FromAwaiting, NEW to, NEW role, Permitted(from, to, role)
  PROVE  to \in FromAwaiting \ {"awaiting_signature"}
BY ContractAssumption
   DEF Permitted, CONTRACTS_WORKFLOW, ContractEdge, ContractStatuses, FromAwaiting

\* While nothing was written blindly, a person moves the status along the
\* workflow as it is.
LEMMA CommitMoves ==
  ASSUME IInv, NEW e \in Editors, CommitContract(e), ~blind', status' # status
  PROVE  Permitted(status, status', RoleOf[e])
<1>1. edit[e].pc = "written" /\ edit[e].fresh
  BY DEF CommitContract, Commit, Overwrites, IInv, WorkflowInv, WorkflowTypeOK, WrittenIsFresh
<1>2. edit[e].to # None /\ status' = edit[e].to
  BY DEF CommitContract, Commit, Transitions
<1>. QED  BY <1>1, <1>2 DEF IInv, WorkflowInv, ValidatedNow

LEMMA BlindStays == ASSUME [Next]_vars, ~blind'  PROVE ~blind
BY DEF Next, vars, Request, OpenContract, SubmitContract, RefuseContract, WriteContract,
       CommitContract, RollBackContract, Removal, StartRemoveContract, RemoveContract,
       SkipRemoveContract, CommitRemoveContract, RollBackRemoveContract, ScanRead,
       ScanWrite, Sending, CreateEnvelope, LinkEnvelope, OrphanEnvelope, CompleteEnvelope,
       Webhook, Receive, Ingest, Resolve, ApplySignature, FindNotAwaiting, NoteStatus,
       Finish, FailHook, CrashHook, contract

\* People, removals and the scheduler.
LEMMA RowKeepsApplied ==
  ASSUME IInv, EnvelopesApplied, [Next]_vars, ~blind',
         \/ \E e \in Editors : Request(e)
         \/ Removal \/ ScanRead \/ ScanWrite
  PROVE  EnvelopesApplied'
<1>1. UNCHANGED <<send, completed, acked, missed, ledger, hook>>
  BY OthersKeepProvider DEF provider
<1>2. link' = link
  <2>1. ASSUME NEW s \in Envelopes, LinkEnvelope(s)  PROVE FALSE
    BY <1>1, <2>1 DEF LinkEnvelope, IInv, ProviderInv
  <2>. QED  BY <2>1, LinkChanges
<1>3. status' = status \/ \E e \in Editors : CommitContract(e) /\ status' # status
  BY RemovalRemoves
     DEF Request, OpenContract, Load, SubmitContract, Submit, RefuseContract, Refuse,
         WriteContract, Write, RollBackContract, RollBack, ScanRead, ScanWrite, OtherWrite,
         workflowVars
<1>6. (renamed => renamed') /\ (link' # None => platform' = DocuSign \/ renamed')
  <2>1. CASE \E e \in Editors : CommitContract(e)
    BY <1>2, <2>1 DEF CommitContract, EnvelopesApplied
  <2>2. CASE ~\E e \in Editors : CommitContract(e)
    <3>1. UNCHANGED <<platform, renamed>>
      BY <2>2 DEF Request, OpenContract, SubmitContract, RefuseContract, WriteContract,
                  RollBackContract, Removal, StartRemoveContract, RemoveContract,
                  SkipRemoveContract, CommitRemoveContract, RollBackRemoveContract,
                  ScanRead, ScanWrite, contract
    <3>. QED  BY <1>2, <3>1 DEF EnvelopesApplied
  <2>. QED  BY <2>1, <2>2
<1>4. CASE status' = status
  BY <1>1, <1>2, <1>4, <1>6 DEF EnvelopesApplied, Resolved
<1>5. CASE \E e \in Editors : CommitContract(e) /\ status' # status
  <2>1. PICK e \in Editors : Permitted(status, status', RoleOf[e])
    BY <1>5, CommitMoves
  <2>2. CASE link = None
    <3>1. \A s \in acked : s # None
      BY ContractAssumption DEF IInv, ProviderInv, Sent
    <3>2. \A h \in Hooks : Resolved(h) => hook[h].env # None
      BY ContractAssumption DEF IInv, ProviderInv, Sent, Resolved
    <3>. QED  BY <1>1, <1>2, <1>6, <2>2, <3>1, <3>2 DEF EnvelopesApplied, Resolved
  <2>3. CASE link # None
    <3>1. status' \in FromAwaiting /\ status' # "awaiting_signature"
      BY <2>1, <2>3, NoWayBack DEF EnvelopesApplied
    <3>. QED  BY <1>1, <1>2, <1>6, <3>1 DEF EnvelopesApplied, Resolved
  <2>. QED  BY <2>2, <2>3
<1>. QED  BY <1>3, <1>4, <1>5

\* Envelopes that are created, linked, lost and completed.
LEMMA SendingKeepsApplied ==
  ASSUME IInv, EnvelopesApplied, NEW s \in Envelopes, Sending(s)  PROVE EnvelopesApplied'
<1>0. send \in [Envelopes -> {"none", "created", "done"}] /\ acked \subseteq Envelopes
      /\ (link # None => link \in Envelopes)
      /\ \A h \in Hooks : Resolved(h) => hook[h].env \in Envelopes
  BY DEF IInv, ProviderInv, Sent, Resolved, RowTypeOK
<1>1. UNCHANGED <<acked, missed, ledger, hook>>
  BY DEF Sending, CreateEnvelope, LinkEnvelope, OrphanEnvelope, CompleteEnvelope
<1>2. CASE LinkEnvelope(s)
  <2>1. /\ send[s] = "created" /\ send' = [send EXCEPT ![s] = "done"]
        /\ link' = s /\ status' = "awaiting_signature" /\ platform' = DocuSign
    BY <1>2 DEF LinkEnvelope, OtherWrite
  <2>2. send'[s] = "done" /\ \A t \in Envelopes : send[t] = "done" => send'[t] = "done" /\ t # s
    BY <1>0, <2>1
  <2>3. status' \in FromAwaiting
    BY <2>1 DEF FromAwaiting, ContractStatuses
  <2>. QED  BY <1>0, <1>1, <2>1, <2>2, <2>3 DEF EnvelopesApplied, Resolved
<1>3. CASE ~LinkEnvelope(s)
  <2>1. UNCHANGED <<link, status, platform, renamed>>
    BY <1>3 DEF Sending, CreateEnvelope, OrphanEnvelope, CompleteEnvelope, contract, workflowVars
  <2>2. \A t \in Envelopes : send[t] = "done" => send'[t] = "done"
    BY <1>0, <1>3 DEF Sending, CreateEnvelope, OrphanEnvelope, CompleteEnvelope
  <2>. QED  BY <1>0, <1>1, <2>1, <2>2 DEF EnvelopesApplied, Resolved
<1>. QED  BY <1>2, <1>3

\* A request of the webhook knows what became of the contract ...
Applies(request) ==
  /\ request.pc \in {"applying", "noting", "applied"} => send[request.env] = "done"
  /\ request.pc \in {"noting", "applied"} /\ request.env = link => status # "awaiting_signature"

\* ... and what it answers with 200 is missed, or applied.
AnswersWhenApplied(h) ==
  /\ Applies(hook'[h]) /\ \A g \in Hooks \ {h} : hook'[g] = hook[g]
  /\ \A s \in acked' \ missed' : \/ s \in acked \ missed
                                 \/ /\ send[s] = "done"
                                    /\ s = link => status # "awaiting_signature" \/ renamed
  /\ \A s \in Envelopes : ledger'[s] = "processed" => ledger[s] = "processed" \/ s \in acked'
  /\ acked \subseteq acked'

LEMMA WebhookAnswers ==
  ASSUME IInv, EnvelopesApplied, NEW h \in Hooks, Webhook(h), ~ApplySignature(h)
  PROVE  AnswersWhenApplied(h)
<1>0. /\ hook \in [Hooks -> HookStates] /\ ledger \in [Envelopes -> {"none", "open", "processed"}]
      /\ \A g \in Hooks : hook[g].pc # "idle" => hook[g].env \in Envelopes
  BY DEF IInv, ProviderInv, Sent
<1>1. Applies(hook[h]) /\ \A s \in Envelopes : ledger[s] = "processed" => s \in acked
  BY DEF EnvelopesApplied, Resolved, Applies
<1>2. NoHook.pc = "idle" /\ Applies(NoHook)
  BY DEF NoHook, Applies
<1>3. ASSUME NEW s \in Envelopes, Receive(h, s)  PROVE AnswersWhenApplied(h)
  <2>. DEFINE new == [pc |-> "seen", env |-> s, tracked |-> FALSE]
  <2>1. acked' = acked /\ UNCHANGED <<missed, ledger>>
    BY <1>1, <1>3 DEF Receive, isDuplicate
  <2>2. hook' = hook \/ hook' = [hook EXCEPT ![h] = new]
    BY <1>3 DEF Receive
  <2>3. Applies(new)
    BY DEF Applies
  <2>. HIDE DEF new
  <2>. QED  BY <1>0, <1>1, <2>1, <2>2, <2>3 DEF AnswersWhenApplied
<1>4. ASSUME NEW pc, hook' = [hook EXCEPT ![h].pc = pc], UNCHANGED <<acked, missed, ledger>>,
             Applies([hook[h] EXCEPT !.pc = pc])
      PROVE  AnswersWhenApplied(h)
  BY <1>0, <1>4 DEF AnswersWhenApplied
<1>5. \A pc : /\ [hook[h] EXCEPT !.pc = pc].pc = pc
              /\ [hook[h] EXCEPT !.pc = pc].env = hook[h].env
  BY <1>0 DEF HookStates
<1>6. CASE Ingest(h)
  <2>1. /\ hook'[h].pc = "resolving" /\ \A g \in Hooks \ {h} : hook'[g] = hook[g]
        /\ UNCHANGED <<acked, missed>>
    BY <1>0, <1>6 DEF Ingest, HookAt, HookStates
  <2>2. \A s \in Envelopes : ledger'[s] = "processed" => ledger[s] = "processed"
    BY <1>0, <1>6 DEF Ingest
  <2>. QED  BY <2>1, <2>2 DEF AnswersWhenApplied, Applies
<1>7. CASE Resolve(h)
  <2>1. CASE link = hook[h].env  \* ... whose envelope was sent
    <3>1. send[link] = "done" /\ (platform = DocuSign \/ renamed)
      BY <1>0, <1>7, <2>1, ContractAssumption DEF Resolve, EnvelopesApplied
    <3>2. CASE Named(h)
      <4>1. Applies([hook[h] EXCEPT !.pc = "applying"])
        BY <1>5, <2>1, <3>1 DEF Applies
      <4>. QED  BY <1>4, <1>7, <3>2, <4>1 DEF Resolve, HookAt
    <3>3. CASE ~Named(h)
      <4>1. renamed
        BY <2>1, <3>1, <3>3 DEF Named
      <4>2. /\ hook' = [hook EXCEPT ![h] = NoHook]
            /\ acked' = acked \cup {hook[h].env} /\ missed' = missed
        BY <1>7, <2>1, <3>3 DEF Resolve, Answered
      <4>3. \A s \in Envelopes : ledger'[s] = "processed" => ledger[s] = "processed" \/ s \in acked'
        BY <1>0, <1>7, <3>3, <4>2 DEF Resolve, Marked
      <4>. QED  BY <1>0, <1>2, <2>1, <3>1, <4>1, <4>2, <4>3 DEF AnswersWhenApplied
    <3>. QED  BY <3>2, <3>3
  <2>2. CASE link # hook[h].env
    <3>0. ~Named(h)
      BY <2>2 DEF Named
    <3>1. /\ hook' = [hook EXCEPT ![h] = NoHook]
          /\ acked' = acked \cup {hook[h].env} /\ missed' = missed \cup {hook[h].env}
      BY <1>7, <2>2, <3>0 DEF Resolve, Answered
    <3>2. \A s \in Envelopes : ledger'[s] = "processed" => ledger[s] = "processed" \/ s \in acked'
      BY <1>0, <1>7, <3>0, <3>1 DEF Resolve, Marked
    <3>. QED  BY <1>0, <1>2, <3>1, <3>2 DEF AnswersWhenApplied
  <2>. QED  BY <2>1, <2>2
<1>8. CASE FindNotAwaiting(h)
  <2>1. Applies([hook[h] EXCEPT !.pc = "noting"])
    BY <1>1, <1>5, <1>8 DEF Applies, FindNotAwaiting, AwaitsSignature
  <2>. QED  BY <1>4, <1>8, <2>1 DEF FindNotAwaiting, HookAt, rowCount
<1>9. CASE NoteStatus(h)
  <2>1. Applies([hook[h] EXCEPT !.pc = "applied"])
    BY <1>1, <1>5, <1>9 DEF Applies, NoteStatus
  <2>. QED  BY <1>4, <1>9, <2>1 DEF NoteStatus, HookAt
<1>10. CASE Finish(h)
  <2>1. /\ hook' = [hook EXCEPT ![h] = NoHook] /\ acked' = acked \cup {hook[h].env}
        /\ missed' = missed
    BY <1>10 DEF Finish, Answered
  <2>2. \A s \in Envelopes : ledger'[s] = "processed" => ledger[s] = "processed" \/ s \in acked'
    BY <1>0, <1>10, <2>1 DEF Finish, Marked
  <2>3. /\ send[hook[h].env] = "done"
        /\ hook[h].env = link => status # "awaiting_signature"
    BY <1>1, <1>10 DEF Finish, Applies
  <2>. QED  BY <1>0, <1>2, <2>1, <2>2, <2>3 DEF AnswersWhenApplied
<1>11. CASE FailHook(h) \/ CrashHook(h)
  <2>1. hook' = [hook EXCEPT ![h] = NoHook] /\ UNCHANGED <<acked, missed>>
    BY <1>11 DEF FailHook, CrashHook
  <2>2. \A s \in Envelopes : ledger'[s] = "processed" => ledger[s] = "processed"
    BY <1>0, <1>11 DEF FailHook, CrashHook, Marked
  <2>. QED  BY <1>0, <1>2, <2>1, <2>2 DEF AnswersWhenApplied
<1>. QED  BY <1>3, <1>6, <1>7, <1>8, <1>9, <1>10, <1>11 DEF Webhook

LEMMA WebhookKeepsApplied ==
  ASSUME IInv, EnvelopesApplied, NEW h \in Hooks, Webhook(h)  PROVE EnvelopesApplied'
<1>0. hook \in [Hooks -> HookStates]
  BY DEF IInv, ProviderInv
<1>1. UNCHANGED <<send, link, platform, renamed>>
  BY DEF Webhook, Receive, Ingest, Resolve, ApplySignature, FindNotAwaiting, NoteStatus,
         Finish, FailHook, CrashHook, contract
<1>2. CASE ApplySignature(h)
  <2>1. /\ status' = "signed" /\ hook' = [hook EXCEPT ![h].pc = "applied"]
        /\ hook[h].pc = "applying" /\ UNCHANGED <<acked, missed, ledger>>
    BY <1>2 DEF ApplySignature, OtherWrite, HookAt
  <2>2. status' \in FromAwaiting /\ status' # "awaiting_signature"
    BY <2>1 DEF FromAwaiting, ContractStatuses
  <2>3. \A g \in Hooks : hook'[g].env = hook[g].env /\ (Resolved(g)' => Resolved(g))
    BY <1>0, <2>1 DEF Resolved, HookStates
  <2>. QED  BY <1>1, <2>1, <2>2, <2>3 DEF EnvelopesApplied
<1>3. CASE ~ApplySignature(h)
  <2>1. status' = status
    BY <1>3 DEF Webhook, Receive, Ingest, Resolve, FindNotAwaiting, NoteStatus,
                Finish, FailHook, CrashHook, workflowVars
  <2>2. AnswersWhenApplied(h)
    BY <1>3, WebhookAnswers
  <2>3. \A g \in Hooks : Applies(hook'[g])
    BY <2>2 DEF AnswersWhenApplied, EnvelopesApplied, Resolved, Applies
  <2>. QED  BY <1>1, <2>1, <2>2, <2>3 DEF EnvelopesApplied, Resolved, Applies, AnswersWhenApplied
<1>. QED  BY <1>2, <1>3

(* Unless a write went over changes that its author had not seen, the 200  *)
(* that ends the deliveries of a completed envelope is given only once the *)
(* contract that names it waits no longer, whatever fails, crashes, comes  *)
(* twice or is edited in between; or before the link was written (missed), *)
(* or after a person gave the contract another platform (renamed).         *)
THEOREM NoEarlyAnswer == Spec => []AnsweredWhenApplied
<1>1. Init => SignatureInv
  BY DEF Init, SignatureInv, EnvelopesApplied, Resolved, NoHook
<1>2. ASSUME IInv, SignatureInv, [Next]_vars  PROVE SignatureInv'
  <2>. SUFFICES ASSUME ~blind'  PROVE EnvelopesApplied'
    BY DEF SignatureInv
  <2>1. EnvelopesApplied
    BY <1>2, BlindStays DEF SignatureInv
  <2>2. CASE UNCHANGED vars
    BY <2>1, <2>2 DEF vars, workflowVars, contract, provider, EnvelopesApplied, Resolved
  <2>. QED  BY <1>2, <2>1, <2>2, RowKeepsApplied, SendingKeepsApplied, WebhookKeepsApplied DEF Next
<1>3. SignatureInv => AnsweredWhenApplied
  BY DEF SignatureInv, EnvelopesApplied, AnsweredWhenApplied
<1>. QED  BY <1>1, <1>2, <1>3, Inductive, PTL DEF Spec

=============================================================================
