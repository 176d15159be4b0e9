------------------------- MODULE ContractSignature -------------------------
(***************************************************************************)
(* A contract and its electronic signature: ContractsService,              *)
(* contract-provider-signature.ts, CONTRACTS_WORKFLOW,                     *)
(* ContractExpiryScheduler (modules/contracts/), DocusignService           *)
(* (modules/integrations/docusign/) and WebhookService (.../webhooks/).    *)
(*                                                                         *)
(* The row is edited by people, sent to the provider, signed by the        *)
(* provider's webhook and stamped by a daily scheduler.  All of them write *)
(* the metadata column, which holds the link to the envelope: an edit and  *)
(* the scheduler replace the whole column from a copy read earlier.        *)
(*                                                                         *)
(* AutentiqueService does the same with the link in a column of its own    *)
(* and is not modelled apart.                                              *)
(***************************************************************************)
EXTENDS StatusWorkflow, Naturals, FiniteSets

CONSTANTS Docs,        \* contents of the signature-bound fields, file_url for one
          Platforms,   \* values of signing_platform
          DocuSign,    \* the one of them that sendForSignature writes
          Contents,    \* what an update may carry: metadata?, one of Docs, of Platforms
          Envelopes,   \* one for each call of sendForSignature
          Hooks,       \* webhook requests under way at one time
          InitialStatuses, InitialDocs,
          MaxEdits,    \* bound: update requests
          MaxFaults    \* bound: failures, crashes, deliveries after the last answer

VARIABLES doc,         \* the signature-bound fields; None: nothing attached
          link,        \* metadata.provider_doc_id
          platform,    \* signing_platform
          payload,     \* payload[e]: what the request of e writes besides the status
          edits,
          scan,        \* the scheduler, between its read and its write
          send,        \* send[s]: the call that creates envelope s
          completed,   \* envelopes that all signers have signed
          acked,       \* envelopes whose completion was answered with 200
          missed,      \* completions answered with 200 while no contract had their link
          ledger,      \* ledger[s]: the webhook_events row of the completion
          hook,        \* hook[h]: a webhook request
          signings,    \* provider signatures since the contract last began to await one
          announced,   \* CONTRACT_CANCELLED events of delete requests
          undone,      \* how many of those requests were rolled back
          blind,       \* a write went over changes that its author had not seen
          renamed,     \* a person gave another platform to a contract that has an envelope
          faults

contract == <<doc, link, platform, payload, edits, scan, renamed>>
telling == <<announced, undone>>
provider == <<send, completed, acked, missed, ledger, hook>>
vars == <<workflowVars, contract, provider, signings, telling, blind, faults>>

-----------------------------------------------------------------------------
Managers == {"manager"}                     \* the roles of every transition
Jurists  == Managers \cup {"legal"}         \* those that may also move drafts

ContractStatuses ==
  {"draft", "under_review", "awaiting_signature", "signed", "active", "in_force",
   "expiring", "expired", "terminated", "cancelled"}

ContractEdge(from, to, roles) == [from |-> from, to |-> to, roles |-> roles]

CONTRACTS_WORKFLOW ==
  {ContractEdge({"draft"}, "under_review", Jurists),
   ContractEdge({"under_review"}, "draft", Jurists),
   ContractEdge({"under_review"}, "awaiting_signature", Managers),
   ContractEdge({"awaiting_signature"}, "signed", Managers),
   ContractEdge({"signed"}, "in_force", Managers),
   ContractEdge({"in_force"}, "expiring", Managers),
   ContractEdge({"expiring", "in_force"}, "expired", Managers),
   ContractEdge({"expired", "in_force", "signed"}, "terminated", Managers),
   ContractEdge({"draft", "under_review", "awaiting_signature", "signed", "in_force"},
                "cancelled", Managers)}

SIGNATURE_LOCKED_STATUSES ==
  {"signed", "active", "in_force", "expiring", "expired", "terminated"}

ALERT_STATUSES == {"in_force", "signed", "expiring"}

ASSUME ContractAssumption ==
  /\ Statuses = ContractStatuses /\ Edges = CONTRACTS_WORKFLOW
  /\ InitialStatuses \subseteq Statuses
  /\ InitialDocs \subseteq Docs \cup {None}
  /\ None \notin Docs /\ None \notin Envelopes
  /\ None \notin Platforms /\ DocuSign \in Platforms
  /\ Contents \subseteq [doc : Docs \cup {None}, meta : BOOLEAN, platform : Platforms \cup {None}]
  /\ MaxEdits \in Nat /\ MaxFaults \in Nat

NoPayload == [doc |-> None, meta |-> FALSE, platform |-> None, link |-> None]
NoHook    == [pc |-> "idle", env |-> None, tracked |-> FALSE]

TypeOK ==
  /\ WorkflowTypeOK
  /\ doc \in Docs \cup {None}
  /\ link \in Envelopes \cup {None}
  /\ platform \in Platforms \cup {None}
  /\ payload \in [Editors -> [doc : Docs \cup {None}, meta : BOOLEAN,
                              platform : Platforms \cup {None}, link : Envelopes \cup {None}]]
  /\ edits \in 0..MaxEdits
  /\ scan \in [pc : {"idle", "read"}, link : Envelopes \cup {None}, fresh : BOOLEAN]
  /\ send \in [Envelopes -> {"none", "created", "done"}]
  /\ acked \subseteq completed /\ missed \subseteq acked
  /\ ledger \in [Envelopes -> {"none", "open", "processed"}]
  /\ hook \in [Hooks -> [pc : {"idle", "seen", "resolving", "applying", "noting", "applied"},
                         env : Envelopes \cup {None}, tracked : BOOLEAN]]
  /\ signings \in 0..2 /\ announced \in Nat /\ undone \in 0..MaxFaults
  /\ blind \in BOOLEAN /\ renamed \in BOOLEAN /\ faults \in 0..MaxFaults
  \* an envelope is completed, linked or delivered only if it was created
  /\ \A s \in completed \cup ({link} \ {None}) : send[s] # "none"
  /\ \A h \in Hooks : hook[h].pc # "idle" => hook[h].env \in completed

Init ==
  /\ WorkflowInit(InitialStatuses)
  /\ doc \in InitialDocs
  /\ status \in SIGNATURE_LOCKED_STATUSES => doc # None
  /\ link = None /\ platform = None
  /\ payload = [e \in Editors |-> NoPayload]
  /\ edits = 0
  /\ scan = [pc |-> "idle", link |-> None, fresh |-> FALSE]
  /\ send = [s \in Envelopes |-> "none"]
  /\ completed = {} /\ acked = {} /\ missed = {}
  /\ ledger = [s \in Envelopes |-> "none"]
  /\ hook = [h \in Hooks |-> NoHook]
  /\ signings = 0 /\ announced = 0 /\ undone = 0
  /\ blind = FALSE /\ renamed = FALSE /\ faults = 0

-----------------------------------------------------------------------------
(* Update requests (ContractsService.update).                              *)

OpenContract(e) ==
  /\ edits < MaxEdits
  /\ Load(e)
  /\ UNCHANGED <<contract, provider, signings, blind, telling, faults>>

\* The transition into "signed" has a guard: the document is attached.
GuardAllows(to) == to = "signed" => doc # None

\* mutant: the fields of a signed contract may change
UnsignedFieldsOnly(newDoc) == TRUE
assertSignedFieldsUnchanged(newDoc) ==
  status \in SIGNATURE_LOCKED_STATUSES => newDoc \in {None, doc}

SubmitContract(e, versioned, to, content) ==
  /\ edits < MaxEdits
  /\ Submit(e, versioned, to)
  /\ GuardAllows(to)
  /\ assertSignedFieldsUnchanged(content.doc)
  /\ LET meta == content.meta \/ to = "signed"   \* a manual signature is stamped there
     IN payload' = [payload EXCEPT ![e] =
                      [doc |-> content.doc, meta |-> meta, platform |-> content.platform,
                       link |-> IF meta THEN link ELSE None]]
  /\ edits' = edits + 1
  /\ UNCHANGED <<doc, link, platform, scan, renamed, provider, signings, blind, telling, faults>>

RefuseContract(e) ==
  /\ Refuse(e)
  /\ payload' = [payload EXCEPT ![e] = NoPayload]
  /\ UNCHANGED <<doc, link, platform, edits, scan, renamed, provider, signings, blind, telling, faults>>

WriteContract(e) ==
  /\ Write(e)
  /\ UNCHANGED <<contract, provider, signings, blind, telling, faults>>

\* mutant: the metadata of the client replaces all of the column
clientMetadata(e) == None
preserveServerOwnedMetadata(e) == payload[e].link

\* Whoever awaits a signature anew may be given one more.
Signings(newStatus, count) ==
  IF newStatus = "awaiting_signature" /\ status # newStatus THEN 0 ELSE count

CommitContract(e) ==
  /\ Commit(e)
  /\ doc' = IF payload[e].doc # None THEN payload[e].doc ELSE doc
  /\ link' = IF payload[e].meta THEN preserveServerOwnedMetadata(e) ELSE link
  /\ platform' = IF payload[e].platform # None THEN payload[e].platform ELSE platform
  /\ payload' = [payload EXCEPT ![e] = NoPayload]
  /\ scan' = [scan EXCEPT !.fresh = FALSE]
  /\ signings' = Signings(status', signings)
  /\ blind' = (blind \/ Overwrites(e))
  /\ renamed' = (renamed \/ (link' # None /\ payload[e].platform \notin {None, DocuSign}))
  /\ UNCHANGED <<edits, provider, telling, faults>>

RollBackContract(e) ==
  /\ RollBack(e)
  /\ payload' = [payload EXCEPT ![e] = NoPayload]
  /\ UNCHANGED <<doc, link, platform, edits, scan, renamed, provider, signings, blind, telling, faults>>

StartRemoveContract ==
  /\ StartRemoval
  /\ UNCHANGED <<contract, provider, signings, blind, telling, faults>>

\* mutant: the update does not ask whether the row was deleted already
AlwaysRemoves == TRUE
Removes == ~deleted

\* CONTRACT_CANCELLED is emitted by the request whose update changed the row,
\* before its transaction is committed.
RemoveContract ==
  /\ WriteRemoval /\ Removes
  /\ announced' = announced + 1
  /\ UNCHANGED <<contract, provider, signings, undone, blind, faults>>

SkipRemoveContract ==
  /\ SkipRemoval /\ ~Removes
  /\ UNCHANGED <<contract, provider, signings, telling, blind, faults>>

CommitRemoveContract ==
  /\ CommitRemoval
  /\ scan' = [scan EXCEPT !.fresh = FALSE]
  /\ UNCHANGED <<doc, link, platform, payload, edits, renamed, provider, signings,
                 telling, blind, faults>>

RollBackRemoveContract ==
  /\ RollBackRemoval /\ faults < MaxFaults
  /\ undone' = undone + 1
  /\ faults' = faults + 1
  /\ UNCHANGED <<contract, provider, signings, announced, blind>>

-----------------------------------------------------------------------------
(* The daily scheduler notifies an expiring contract and stamps that in    *)
(* the metadata that it read.  The stamp keeps it away for some days, or   *)
(* until an update of the metadata drops it: it may come any number of     *)
(* times.                                                                  *)
ScanRead ==
  /\ scan.pc = "idle" /\ status \in ALERT_STATUSES /\ ~deleted
  /\ scan' = [pc |-> "read", link |-> link, fresh |-> TRUE]
  /\ UNCHANGED <<workflowVars, doc, link, platform, payload, edits, renamed, provider, signings, blind, telling, faults>>

ScanWrite ==
  /\ scan.pc = "read"
  /\ OtherWrite(status)
  /\ link' = scan.link
  /\ scan' = [pc |-> "idle", link |-> None, fresh |-> FALSE]
  /\ blind' = (blind \/ ~scan.fresh)
  /\ UNCHANGED <<doc, platform, payload, edits, renamed, provider, signings, telling, faults>>

-----------------------------------------------------------------------------
(* sendForSignature: the envelope is created at the provider, then the row *)
(* is written, whatever its status.                                        *)
CreateEnvelope(s) ==
  /\ send[s] = "none"
  /\ send' = [send EXCEPT ![s] = "created"]
  /\ UNCHANGED <<workflowVars, contract, completed, acked, missed, ledger, hook,
                 signings, blind, telling, faults>>

LinkEnvelope(s) ==
  /\ send[s] = "created"
  /\ OtherWrite("awaiting_signature")
  /\ link' = s /\ platform' = DocuSign /\ renamed' = FALSE
  /\ scan' = [scan EXCEPT !.fresh = FALSE]
  /\ send' = [send EXCEPT ![s] = "done"]
  /\ signings' = Signings("awaiting_signature", signings)
  /\ UNCHANGED <<doc, payload, edits, completed, acked, missed, ledger, hook, blind, telling, faults>>

\* The update fails, or the process dies: the envelope is out and nothing names it.
OrphanEnvelope(s) ==
  /\ send[s] = "created" /\ faults < MaxFaults
  /\ send' = [send EXCEPT ![s] = "done"]
  /\ faults' = faults + 1
  /\ UNCHANGED <<workflowVars, contract, completed, acked, missed, ledger, hook,
                 signings, blind, telling>>

\* The signers sign; the provider does not wait for our row.
CompleteEnvelope(s) ==
  /\ send[s] # "none" /\ s \notin completed
  /\ completed' = completed \cup {s}
  /\ UNCHANGED <<workflowVars, contract, send, acked, missed, ledger, hook,
                 signings, blind, telling, faults>>

-----------------------------------------------------------------------------
(* The webhook (DocusignService.handleWebhook).                            *)

HookAt(h, pc) == hook' = [hook EXCEPT ![h].pc = pc]
Answered(h) ==
  /\ acked' = acked \cup {hook[h].env}
  /\ hook' = [hook EXCEPT ![h] = NoHook]

\* mutant: an event is a duplicate as soon as it has a row
IngestedBefore(s) == ledger[s] # "none"
isDuplicate(s) == ledger[s] = "processed"

\* The provider delivers until it has a 200, and may deliver again after that.
Receive(h, s) ==
  /\ hook[h].pc = "idle" /\ s \in completed
  /\ \/ s \notin acked /\ faults' = faults
     \/ s \in acked /\ faults < MaxFaults /\ faults' = faults + 1
  /\ IF isDuplicate(s)
     THEN acked' = acked \cup {s} /\ hook' = hook
     ELSE /\ hook' = [hook EXCEPT ![h] = [pc |-> "seen", env |-> s, tracked |-> FALSE]]
          /\ acked' = acked
  /\ UNCHANGED <<workflowVars, contract, send, completed, missed, ledger, signings, blind, telling>>

OthersAt(h) == {g \in Hooks \ {h} : hook[g].env = hook[h].env}

\* The event is inserted, or its row set back to pending.  An insert that
\* fails (two at a time, or a fault) is logged and the event goes on without a row.
Ingest(h) ==
  /\ hook[h].pc = "seen"
  /\ \/ /\ ledger' = [ledger EXCEPT ![hook[h].env] = "open"]
        /\ hook' = [hook EXCEPT ![h].pc = "resolving", ![h].tracked = TRUE]
        /\ faults' = faults
     \/ /\ HookAt(h, "resolving")
        /\ ledger' = ledger
        /\ IF OthersAt(h) # {} THEN faults' = faults
           ELSE faults < MaxFaults /\ faults' = faults + 1
  /\ UNCHANGED <<workflowVars, contract, send, completed, acked, missed, signings, blind, telling>>

Marked(h, mark) ==
  IF hook[h].tracked THEN [ledger EXCEPT ![hook[h].env] = mark] ELSE ledger

Named(h) == link = hook[h].env /\ platform = DocuSign

\* The contract is looked up by the platform and the link; if there is none,
\* the event is done with.
Resolve(h) ==
  /\ hook[h].pc = "resolving"
  /\ IF Named(h)
     THEN HookAt(h, "applying") /\ UNCHANGED <<acked, missed, ledger>>
     ELSE /\ Answered(h)
          /\ missed' = IF link = hook[h].env THEN missed ELSE missed \cup {hook[h].env}
          /\ ledger' = Marked(h, "processed")
  /\ UNCHANGED <<workflowVars, contract, send, completed, signings, blind, telling, faults>>

-----------------------------------------------------------------------------
(* applyProviderSignature: an update guarded by the status, and when that  *)
(* changed no row, one of the metadata alone, which leaves updated_at.     *)

OneMore == IF signings = 2 THEN 2 ELSE signings + 1

\* mutant: the length of TypeORM's [rows, count] is taken for the count
ResultLength(changed) == 2
rowCount(changed) == IF changed THEN 1 ELSE 0

\* mutant: the update asks for no status
AnyStatus == TRUE
AwaitsSignature == status = "awaiting_signature"

ApplySignature(h) ==
  /\ hook[h].pc = "applying" /\ AwaitsSignature
  /\ OtherWrite("signed")
  /\ HookAt(h, "applied")
  /\ scan' = [scan EXCEPT !.fresh = FALSE]
  /\ signings' = OneMore
  /\ UNCHANGED <<doc, link, platform, payload, edits, renamed, send, completed, acked, missed, ledger, blind, telling, faults>>

\* No row has the status now: the update does not wait for anyone's lock.
FindNotAwaiting(h) ==
  /\ hook[h].pc = "applying" /\ ~AwaitsSignature
  /\ IF rowCount(FALSE) > 0
     THEN HookAt(h, "applied") /\ signings' = OneMore
     ELSE HookAt(h, "noting") /\ signings' = signings
  /\ UNCHANGED <<workflowVars, contract, send, completed, acked, missed, ledger, blind, telling, faults>>

NoteStatus(h) ==
  /\ hook[h].pc = "noting" /\ RowUnlocked
  /\ HookAt(h, "applied")
  /\ UNCHANGED <<workflowVars, contract, send, completed, acked, missed, ledger,
                 signings, blind, telling, faults>>

\* markProcessed swallows its own errors: the answer is 200 either way.
Finish(h) ==
  /\ hook[h].pc = "applied"
  /\ Answered(h)
  /\ \/ ledger' = Marked(h, "processed") /\ faults' = faults
     \/ ledger' = ledger /\ faults < MaxFaults /\ faults' = faults + 1
  /\ UNCHANGED <<workflowVars, contract, send, completed, missed, signings, blind, telling>>

\* An error is recorded and answered with a 5xx.
FailHook(h) ==
  /\ hook[h].pc \in {"resolving", "applying", "noting"} /\ faults < MaxFaults
  /\ ledger' = Marked(h, "open")
  /\ hook' = [hook EXCEPT ![h] = NoHook]
  /\ faults' = faults + 1
  /\ UNCHANGED <<workflowVars, contract, send, completed, acked, missed, signings, blind, telling>>

\* The process dies: no answer and nothing recorded.
CrashHook(h) ==
  /\ hook[h].pc # "idle" /\ faults < MaxFaults
  /\ hook' = [hook EXCEPT ![h] = NoHook]
  /\ faults' = faults + 1
  /\ UNCHANGED <<workflowVars, contract, send, completed, acked, missed, ledger,
                 signings, blind, telling>>

-----------------------------------------------------------------------------
Request(e) ==
  \/ OpenContract(e)
  \/ \E versioned \in BOOLEAN, to \in Statuses \cup {None}, content \in Contents :
       SubmitContract(e, versioned, to, content)
  \/ RefuseContract(e) \/ WriteContract(e) \/ CommitContract(e) \/ RollBackContract(e)

Removal == \/ StartRemoveContract \/ RemoveContract \/ SkipRemoveContract
           \/ CommitRemoveContract \/ RollBackRemoveContract

Sending(s) ==
  CreateEnvelope(s) \/ LinkEnvelope(s) \/ OrphanEnvelope(s) \/ CompleteEnvelope(s)

Webhook(h) ==
  \/ \E s \in Envelopes : Receive(h, s)
  \/ Ingest(h) \/ Resolve(h) \/ ApplySignature(h) \/ FindNotAwaiting(h) \/ NoteStatus(h)
  \/ Finish(h) \/ FailHook(h) \/ CrashHook(h)

Next ==
  \/ \E e \in Editors : Request(e)
  \/ Removal
  \/ ScanRead \/ ScanWrite
  \/ \E s \in Envelopes : Sending(s)
  \/ \E h \in Hooks : Webhook(h)

Spec == Init /\ [][Next]_vars

(* The provider delivers again what was not answered with 200, a webhook   *)
(* request runs on, and a locked row is let go.  Nothing obliges a person, *)
(* a signer or the scheduler to do anything.  Requests, sends and faults   *)
(* are bounded, so that one condition for all of these steps is enough.    *)
Progress ==
  \/ \E e \in Editors : CommitContract(e) \/ RollBackContract(e)
  \/ CommitRemoveContract \/ RollBackRemoveContract
  \/ \E h \in Hooks, s \in Envelopes : s \notin acked /\ Receive(h, s)
  \/ \E h \in Hooks : \/ Ingest(h) \/ Resolve(h) \/ ApplySignature(h)
                      \/ FindNotAwaiting(h) \/ NoteStatus(h) \/ Finish(h)

Fairness == WF_vars(Progress)

FairSpec == Spec /\ Fairness

-----------------------------------------------------------------------------
(* However many deliveries of however many envelopes run at the same time, *)
(* a contract that awaits a signature is signed by the provider once: the  *)
(* guarded update and the row count of applyProviderSignature.             *)
OneSignaturePerRound == signings <= 1

(* However many delete requests find the contract at the same time, every  *)
(* CONTRACT_CANCELLED of theirs is that of the one removal that is kept,   *)
(* or of a request that was rolled back after it had sent it: the guarded  *)
(* update of softDelete, which a request that waited for the row repeats.  *)
RemovalsAccounted ==
  announced = undone + IF deleted \/ holder = Remover THEN 1 ELSE 0

(* Unless a write went over changes that its author had not seen, the link *)
(* to the envelope changes only when a new envelope is sent: a metadata    *)
(* update of a client carries it over (preserveServerOwnedMetadata).       *)
LinkageKept ==
  [][link' # link /\ ~blind' => \E s \in Envelopes : send[s] = "created" /\ link' = s]_vars

(* What contract-provider-signature.ts says without that condition: the    *)
(* linkage is "written only by sendForSignature" and "never erased by a    *)
(* client metadata update".                                                *)
LinkageServerOwned ==
  [][link' # link => \E s \in Envelopes : send[s] = "created" /\ link' = s]_vars

(* What was signed stays as it was signed: the document of a signed        *)
(* contract changes only when an update validated before the signature is  *)
(* written blindly after it (assertSignedFieldsUnchanged, the version).    *)
SignedDocumentFixed ==
  [][doc' # doc /\ ~blind' => status \notin SIGNATURE_LOCKED_STATUSES]_vars

(* A completed envelope that the contract names and waits for ends the     *)
(* wait, through failures, crashes and repeated deliveries, unless the     *)
(* provider delivered it before the link was written or a person gave the  *)
(* contract another platform after that (it is then answered with 200 and  *)
(* not delivered again), or a blind write changed the row.                 *)
SignatureArrives ==
  \A s \in Envelopes :
    [](s \in completed /\ link = s /\ status = "awaiting_signature"
       => <>(status # "awaiting_signature" \/ s \in missed \/ renamed \/ blind))

=============================================================================
