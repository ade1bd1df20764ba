-------------------------- MODULE SupportAttachments --------------------------
(***************************************************************************)
(* The attachments of one ticket.  An upload reserves a row under the lock *)
(* of the ticket, puts the file into the private origin and then marks the *)
(* row as quarantined; whatever goes wrong after the reservation marks it  *)
(* as failed, also when the store had succeeded and only its answer was    *)
(* lost.  The scanner fetches quarantined files and reports what it found, *)
(* possibly more than once.                                                *)
(***************************************************************************)
EXTENDS Naturals, FiniteSets

CONSTANTS
    Attachments,
    MAX_SUPPORT_ATTACHMENTS_PER_TICKET

ASSUME AttachmentAssumption == MAX_SUPPORT_ATTACHMENTS_PER_TICKET \in Nat

Parties == {"requester", "operator"}
Verdicts == {"clean", "infected"}

NoRow == [status |-> "none"]
Row == [status : {"uploading", "quarantined", "failed", "ready", "rejected"},
        uploader : Parties]

VARIABLES
    attachment, \* the rows
    stored,     \* is the object in the origin?
    uploads,    \* uploads in progress, with the stage they have reached
    verdict,    \* reports of the scanner that are on their way
    mayUpload,  \* parties that may read the ticket
    told        \* parties with an unread notification

attachmentVars == <<attachment, stored, uploads, verdict, mayUpload, told>>

Stages == {"none", "counted", "reserved", "put"}

AttachmentsInit ==
    /\ attachment = [a \in Attachments |-> NoRow]
    /\ stored = [a \in Attachments |-> FALSE]
    /\ uploads = [a \in Attachments |-> "none"]
    /\ verdict = [a \in Attachments |-> {}]
    /\ mayUpload = Parties /\ told = {}

Counted ==
    {a \in Attachments :
        attachment[a].status \in {"uploading", "quarantined", "ready", "rejected"}}

\* Fault: the ticket is not locked while its attachments are counted.
TicketUnlocked == TRUE

\* Nobody is between counting and inserting.
TicketFree == \A a \in Attachments : uploads[a] # "counted"

(***************************************************************************)
(* An upload.                                                              *)
(***************************************************************************)
CountAttachments(a) ==
    /\ attachment[a] = NoRow /\ uploads[a] = "none" /\ TicketFree
    /\ Cardinality(Counted) < MAX_SUPPORT_ATTACHMENTS_PER_TICKET
    /\ uploads' = [uploads EXCEPT ![a] = "counted"]
    /\ UNCHANGED <<attachment, stored, verdict, mayUpload, told>>

\* The memberships of the uploader are locked too.
ReserveAttachment(a, u) ==
    /\ uploads[a] = "counted" /\ u \in mayUpload
    /\ attachment' = [attachment EXCEPT ![a] = [status |-> "uploading", uploader |-> u]]
    /\ uploads' = [uploads EXCEPT ![a] = "reserved"]
    /\ UNCHANGED <<stored, verdict, mayUpload, told>>

\* Stored, whether or not the answer arrives.
PutAttachment(a) ==
    /\ uploads[a] = "reserved"
    /\ stored' = [stored EXCEPT ![a] = TRUE]
    /\ uploads' = [uploads EXCEPT ![a] = "put"]
    /\ UNCHANGED <<attachment, verdict, mayUpload, told>>

QuarantineAttachment(a) ==
    /\ uploads[a] = "put" /\ attachment[a].status = "uploading"
    /\ attachment' = [attachment EXCEPT ![a].status = "quarantined"]
    /\ told' = told \cup (Parties \ {attachment[a].uploader})
    /\ UNCHANGED <<stored, uploads, verdict, mayUpload>>

\* The answer to the upload, after which nothing is left to do.
UploadAnswers(a) ==
    /\ uploads[a] = "put" /\ attachment[a].status # "uploading"
    /\ uploads' = [uploads EXCEPT ![a] = "none"]
    /\ UNCHANGED <<attachment, stored, verdict, mayUpload, told>>

\* The catch block; the row of a scanned file has a date, and refuses.
UploadFails(a) ==
    /\ uploads[a] \in {"reserved", "put"}
    /\ attachment' = IF attachment[a].status \in {"ready", "rejected"} THEN attachment
                     ELSE [attachment EXCEPT ![a].status = "failed"]
    /\ uploads' = [uploads EXCEPT ![a] = "none"]
    /\ UNCHANGED <<stored, verdict, mayUpload, told>>

UploadDies(a) ==
    /\ uploads[a] # "none"
    /\ uploads' = [uploads EXCEPT ![a] = "none"]
    /\ UNCHANGED <<attachment, stored, verdict, mayUpload, told>>

(***************************************************************************)
(* The scanner.                                                            *)
(***************************************************************************)
\* The scanner is given only what is quarantined; what it finds depends on the file.
ScanAttachment(a, v) ==
    /\ attachment[a].status = "quarantined" /\ stored[a]
    /\ verdict[a] \in {{}, {v}}
    /\ verdict' = [verdict EXCEPT ![a] = {v}]
    /\ UNCHANGED <<attachment, stored, uploads, mayUpload, told>>

Scannable(a) == attachment[a].status = "quarantined"

RecordSupportAttachmentScan(a, v) ==
    /\ v \in verdict[a] /\ Scannable(a)
    /\ attachment' = [attachment EXCEPT ![a].status =
                         IF v = "clean" THEN "ready" ELSE "rejected"]
    /\ told' = Parties
    /\ UNCHANGED <<stored, uploads, verdict, mayUpload>>

(***************************************************************************)
(* Everything else.                                                        *)
(***************************************************************************)
AccessChanges(u) ==
    /\ mayUpload' = IF u \in mayUpload THEN mayUpload \ {u} ELSE mayUpload \cup {u}
    /\ UNCHANGED <<attachment, stored, uploads, verdict, told>>

ReadsNotifications(u) ==
    /\ u \in told /\ u \in mayUpload
    /\ told' = told \ {u}
    /\ UNCHANGED <<attachment, stored, uploads, verdict, mayUpload>>

AttachmentsNext ==
    \/ \E a \in Attachments :
          \/ CountAttachments(a) \/ PutAttachment(a) \/ QuarantineAttachment(a)
          \/ UploadAnswers(a) \/ UploadFails(a) \/ UploadDies(a)
          \/ \E u \in Parties : ReserveAttachment(a, u)
          \/ \E v \in Verdicts : ScanAttachment(a, v) \/ RecordSupportAttachmentScan(a, v)
    \/ \E u \in Parties : AccessChanges(u) \/ ReadsNotifications(u)

AttachmentsSpec == AttachmentsInit /\ [][AttachmentsNext]_attachmentVars
------------------------------------------------------------------------------
(***************************************************************************)
(* Properties.                                                             *)
(***************************************************************************)
\* Every row is of its table.
AttachmentsTypeOK ==
    /\ attachment \in [Attachments -> Row \cup {NoRow}]
    /\ stored \in [Attachments -> BOOLEAN]
    /\ uploads \in [Attachments -> Stages]
    /\ verdict \in [Attachments -> SUBSET Verdicts]
    /\ mayUpload \subseteq Parties /\ told \subseteq Parties

\* However uploads, failures, lost answers and late reports of the scanner fall
\* together, a ticket never has more files than its limit, and a file can be read
\* only if the scanner has found it clean.
FilesAreFewAndClean ==
    /\ Cardinality(Counted) <= MAX_SUPPORT_ATTACHMENTS_PER_TICKET
    /\ \A a \in Attachments :
          attachment[a].status = "ready" => stored[a] /\ verdict[a] = {"clean"}
================================================================================
