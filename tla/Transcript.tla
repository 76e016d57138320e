----------------------------- MODULE Transcript -----------------------------
(***************************************************************************)
(* What the chat promises about the saved conversation of one log file:    *)
(* it is opened once, questions and answers are only ever added, and an    *)
(* answer belongs to a question that is already there.                     *)
(***************************************************************************)
CONSTANT Questions

VARIABLES opened, asked, answered

transcriptVars == <<opened, asked, answered>>

TranscriptInit == opened = FALSE /\ asked = {} /\ answered = {}

Open == ~opened /\ opened' = TRUE /\ UNCHANGED <<asked, answered>>

\* The first question may open the conversation in the same transaction.
Ask(q) ==
    /\ q \notin asked
    /\ asked' = asked \union {q}
    /\ opened' = TRUE
    /\ UNCHANGED answered

Answer(q) ==
    /\ q \in asked \ answered
    /\ answered' = answered \union {q}
    /\ UNCHANGED <<opened, asked>>

TranscriptNext == Open \/ \E q \in Questions : Ask(q) \/ Answer(q)

TranscriptSpec == TranscriptInit /\ [][TranscriptNext]_transcriptVars
=============================================================================
