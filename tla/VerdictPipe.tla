------------------------------ MODULE VerdictPipe ------------------------------
(***************************************************************************)
(* What a trace pipeline promises.  Things happen; at the end there is one *)
(* verdict.  As long as nothing went wrong on the way it is the verdict on *)
(* what happened, in the order in which it happened.                       *)
(***************************************************************************)
EXTENDS Naturals, Sequences

CONSTANT Judge(_, _)    \* the verdict of a judge on a sequence of events

VARIABLES
    judge,
    happened,
    intact,         \* nothing has gone wrong on the way
    verdict         \* "none" until the end

pipeVars == <<judge, happened, intact, verdict>>

PipeInit == intact = TRUE /\ verdict = "none"

Happens ==
    /\ verdict = "none"
    /\ Len(happened') = Len(happened) + 1
    /\ SubSeq(happened', 1, Len(happened)) = happened
    /\ intact' \in {intact, FALSE} /\ UNCHANGED <<judge, verdict>>

GoesWrong ==
    /\ verdict = "none" /\ intact' = FALSE
    /\ UNCHANGED <<judge, happened, verdict>>

Conclude ==
    /\ verdict = "none" /\ verdict' \in {"CONFORMS", "VIOLATIONS"}
    /\ intact' \in {intact, FALSE}
    /\ intact' => verdict' = Judge(judge, happened)
    /\ UNCHANGED <<judge, happened>>

PipeSpec == PipeInit /\ [][Happens \/ GoesWrong \/ Conclude]_pipeVars

\* The verdict of a pipe that is intact is the judge's.
VerdictIsJudged == verdict # "none" /\ intact => verdict = Judge(judge, happened)

\* It is the last thing that changes.
VerdictIsLast == [][verdict = "none"]_pipeVars
=============================================================================
