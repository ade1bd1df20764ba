------------------------------ MODULE MCStudents ------------------------------
(***************************************************************************)
(* Small instances for TLC of what students work on and ask for: exams,    *)
(* the lessons of a course and technical support; and of the requests in   *)
(* which everyone's work reaches the server.  They share no state: a       *)
(* behaviour chooses one of them and leaves the others where they start.   *)
(***************************************************************************)
EXTENDS Exams, Learning, SupportTickets, SupportAttachments,
        Requests, TLC

VARIABLE chosen

Init ==
    /\ ExamsInit /\ LearningInit /\ SupportInit /\ AttachmentsInit
    /\ \/ chosen = "course" /\ planned
       \/ chosen = "exam" /\ owner = "provider"
       \/ chosen \in {"ticket", "file", "request"} /\ owner = "provider" /\ planned
    /\ IF chosen = "request" THEN RequestsInit ELSE caller = {} /\ handled = Arrived(GetLive, {})

Waits(component, variables) == chosen # component => UNCHANGED variables

Next ==
    /\ UNCHANGED chosen
    /\ Waits("exam", examVars) /\ Waits("course", learningVars)
    /\ Waits("ticket", supportVars) /\ Waits("file", attachmentVars)
    /\ Waits("request", requestVars)
    /\ \/ chosen = "exam" /\ ExamsNext
       \/ chosen = "course" /\ LearningNext
       \/ chosen = "ticket" /\ SupportNext
       \/ chosen = "file" /\ AttachmentsNext
       \/ chosen = "request" /\ RequestsNext

Spec ==
    Init /\ [][Next]_<<examVars, learningVars, supportVars, attachmentVars, requestVars,
                      chosen>>

\* Every row is of its table.
TypeOK ==
    /\ ExamsTypeOK /\ LearningTypeOK /\ SupportTypeOK /\ AttachmentsTypeOK
    /\ RequestsTypeOK

\* Support answers in the time it promised, with files that are few and clean.
SupportKeepsItsWord == PromisedTimeIsKept /\ FilesAreFewAndClean

Symmetry == Permutations(Questions) \cup Permutations(Options)
================================================================================
