-------------------------- MODULE ChatSession_proofs --------------------------
(***************************************************************************)
(* The endpoints keep what Transcript promises of the conversation, for    *)
(* any number of pages and questions, and however connections, streams     *)
(* and commits fail.                                                       *)
(***************************************************************************)
EXTENDS ChatSession, SequenceTheorems, TLAPS

Asked(r) == [q |-> r, role |-> "user"]
Replied(r) == [q |-> r, role |-> "assistant"]

\* Rows of a question appear when its request has come so far: none before the
\* commit, the question's while it is streamed.
RowsOf(r) ==
    /\ req[r] \in {"none", "sent", "found", "missing", "inserted"}
          => \A m \in msgs : m.q # r
    /\ req[r] \in {"asked", "full"}
          => r \in Asks /\ Asked(r) \in msgs /\ Replied(r) \notin msgs

TranscriptInv ==
    /\ usage \in Usages /\ conv \in BOOLEAN
    /\ req \in [Requests -> Phases] /\ msgs \subseteq Message
    /\ \A r \in Requests : RowsOf(r)
-----------------------------------------------------------------------------
\* A history request is not a question.
LEMMA HistoryAsksNothing == \A t : <<t, 0>> \notin Asks
<1> SUFFICES ASSUME NEW t, <<t, 0>> \in Asks
             PROVE  FALSE
    OBVIOUS
<1>1. PICK s \in ChatTabs, u \in Usages : <<t, 0>> \in {s} \X (1 .. u.asks[s])
    BY DEF Asks
<1>2. u.asks[s] \in Nat
    BY ChatAssumption DEF Usage
<1> QED
    BY <1>1, <1>2

\* Nobody has asked when the system starts.
LEMMA TranscriptInvInit == ChatInit => TranscriptInv
BY DEF ChatInit, TranscriptInv, RowsOf, Phases

\* A request that moves without touching rows keeps the others' rows.
LEMMA MoveKeeps ==
    ASSUME TranscriptInv, NEW r, NEW phase \in Phases, Move(r, phase),
           UNCHANGED <<usage, msgs>>, conv' \in BOOLEAN,
           r \in Requests => RowsOf(r)'
    PROVE  TranscriptInv'
<1>1. /\ req' \in [Requests -> Phases]
      /\ \A s \in Requests : s # r => req'[s] = req[s]
    BY DEF Move, TranscriptInv
<1>2. ASSUME NEW s \in Requests, s # r
      PROVE  RowsOf(s)'
    BY <1>1, <1>2 DEF RowsOf, TranscriptInv, Asked, Replied
<1> QED
    BY <1>1, <1>2 DEF TranscriptInv

\* The steps that leave the conversation's messages alone.
LEMMA QuietServer ==
    ASSUME TranscriptInv, NEW r \in Requests,
           LookupConv(r) \/ InsertConv(r) \/ RequestFails(r) \/ chat_history(r)
           \/ StreamAnswer(r) \/ StreamBreaks(r) \/ SaveFails(r) \/ Cancelled(r)
    PROVE  TranscriptInv' /\ UNCHANGED msgs
<1>1. UNCHANGED <<usage, msgs>>
    BY DEF LookupConv, InsertConv, RequestFails, chat_history, StreamAnswer,
           StreamBreaks, SaveFails, Cancelled
<1>2. RowsOf(r) /\ req \in [Requests -> Phases]
    BY DEF TranscriptInv
<1>3. PICK phase \in Phases :
        /\ Move(r, phase)
        /\ \/ /\ phase \in {"found", "missing", "inserted"}
              /\ req[r] \in {"sent", "missing"}
           \/ phase = "ended"
           \/ phase = "full" /\ req[r] = "asked"
    <2>1. CASE LookupConv(r)
        BY <2>1 DEF LookupConv, Phases
    <2>2. CASE InsertConv(r)
        BY <2>2 DEF InsertConv, Phases
    <2>3. CASE RequestFails(r) \/ chat_history(r) \/ StreamBreaks(r)
               \/ SaveFails(r) \/ Cancelled(r)
        BY <2>3 DEF RequestFails, chat_history, StreamBreaks, SaveFails,
                    Cancelled, Phases
    <2>4. CASE StreamAnswer(r)
        BY <2>4 DEF StreamAnswer, Phases
    <2> QED
        BY <2>1, <2>2, <2>3, <2>4
<1>4. req'[r] = phase
    BY <1>2, <1>3 DEF Move
<1>5. RowsOf(r)'
    BY <1>1, <1>2, <1>3, <1>4 DEF RowsOf, Asked, Replied
<1>6. conv' \in BOOLEAN
    BY DEF LookupConv, InsertConv, RequestFails, chat_history, StreamAnswer,
           StreamBreaks, SaveFails, Cancelled, TranscriptInv
<1> QED
    BY <1>1, <1>3, <1>5, <1>6, MoveKeeps

\* The question's row is the first of its question.
LEMMA CommitQuestionKeeps ==
    ASSUME TranscriptInv, NEW r \in Requests, CommitQuestion(r)
    PROVE  TranscriptInv' /\ Asked(r) \notin msgs
<1>1. /\ r \in Asks /\ req[r] \in {"found", "inserted"}
      /\ msgs' = msgs \union {Asked(r)}
      /\ req' = [req EXCEPT ![r] = "asked"] /\ UNCHANGED usage
      /\ conv' = TRUE
    BY DEF CommitQuestion, Move, Asked
<1>2. \A m \in msgs : m.q # r
    BY <1>1 DEF TranscriptInv, RowsOf
<1>3. Asked(r).q = r /\ Replied(r).q = r /\ Asked(r) # Replied(r)
    <2>1. Asked(r).role = "user" /\ Replied(r).role = "assistant"
        BY DEF Asked, Replied
    <2> QED
        BY <2>1 DEF Asked, Replied
<1>4. Asked(r) \in Message
    BY <1>1 DEF Asked, Message, Roles
<1>5. /\ req' \in [Requests -> Phases] /\ req'[r] = "asked"
      /\ \A s \in Requests : s # r => req'[s] = req[s]
    BY <1>1 DEF TranscriptInv, Phases
<1>6. RowsOf(r)'
    BY <1>1, <1>2, <1>3, <1>5 DEF RowsOf, Asked, Replied
<1>7. ASSUME NEW s \in Requests, s # r
      PROVE  RowsOf(s)'
    <2>1. RowsOf(s) /\ req'[s] = req[s]
        BY <1>5, <1>7 DEF TranscriptInv
    <2>2. Asked(s).q = s /\ Replied(s).q = s
        BY DEF Asked, Replied
    <2> QED
        BY <1>1, <1>3, <1>7, <2>1, <2>2 DEF RowsOf, Asked, Replied
<1> QED
    BY <1>1, <1>2, <1>3, <1>4, <1>5, <1>6, <1>7 DEF TranscriptInv

\* The answer's row is the first answer to a question that is there.
LEMMA FinishKeeps ==
    ASSUME TranscriptInv, NEW r \in Requests, Finish(r)
    PROVE  /\ TranscriptInv' /\ r \in Asks
           /\ Asked(r) \in msgs /\ Replied(r) \notin msgs
<1>1. /\ req[r] = "full" /\ msgs' = msgs \union {Replied(r)}
      /\ req' = [req EXCEPT ![r] = "ended"] /\ UNCHANGED <<usage, conv>>
    BY DEF Finish, Move, Replied
<1>2. r \in Asks /\ Asked(r) \in msgs /\ Replied(r) \notin msgs
    BY <1>1 DEF TranscriptInv, RowsOf
<1>3. Replied(r) \in Message
    BY <1>2 DEF Replied, Message, Roles
<1>4. /\ req' \in [Requests -> Phases] /\ req'[r] = "ended"
      /\ \A s \in Requests : s # r => req'[s] = req[s]
    BY <1>1 DEF TranscriptInv, Phases
<1>5. ASSUME NEW s \in Requests, s # r
      PROVE  RowsOf(s)'
    <2>1. RowsOf(s) /\ req'[s] = req[s]
        BY <1>4, <1>5 DEF TranscriptInv
    <2>2. Replied(r).q = r /\ Replied(s).q = s
        BY DEF Replied
    <2> QED
        BY <1>1, <1>5, <2>1, <2>2 DEF RowsOf, Asked, Replied
<1>6. RowsOf(r)'
    BY <1>4 DEF RowsOf
<1> QED
    BY <1>1, <1>2, <1>3, <1>4, <1>5, <1>6 DEF TranscriptInv
-----------------------------------------------------------------------------
\* What happens in the browser and on the network leaves the rows alone.
LEMMA OpenChatKeeps ==
    ASSUME TranscriptInv, NEW t \in ChatTabs, OpenChat(t)
    PROVE  TranscriptInv'
<1>1. Move(<<t, 0>>, "sent") /\ UNCHANGED <<usage, conv, msgs>>
    BY DEF OpenChat
<1>2. \A m \in msgs : m.q # <<t, 0>>
    BY HistoryAsksNothing DEF TranscriptInv, Message
<1>3. ASSUME <<t, 0>> \in Requests
      PROVE  RowsOf(<<t, 0>>)'
    BY <1>1, <1>2, <1>3 DEF RowsOf, Move, TranscriptInv
<1> QED
    BY <1>1, <1>3, MoveKeeps DEF Phases, TranscriptInv

LEMMA SendKeeps ==
    ASSUME TranscriptInv, NEW t \in ChatTabs, send(t)
    PROVE  TranscriptInv'
<1>1. PICK n \in 1 .. usage.asks[t] :
        /\ req[<<t, n>>] = "none" /\ Move(<<t, n>>, "sent")
        /\ UNCHANGED <<usage, conv, msgs>>
    BY DEF send
<1>2. ASSUME <<t, n>> \in Requests
      PROVE  RowsOf(<<t, n>>)'
    BY <1>1, <1>2 DEF RowsOf, Move, TranscriptInv
<1> QED
    BY <1>1, <1>2, MoveKeeps DEF Phases, TranscriptInv

LEMMA StayKeeps ==
    ASSUME TranscriptInv, UNCHANGED <<usage, conv, msgs, req>>
    PROVE  TranscriptInv'
BY DEF TranscriptInv, RowsOf, Asked, Replied

\* A step reads or writes rows on the server only.
Quiet == UNCHANGED <<usage, conv, msgs, req>>

LEMMA BrowserIsQuiet ==
    /\ \A r \in Requests : PageStep(r) \/ Drop(r) => Quiet
    /\ \A t \in ChatTabs : CloseChat(t) => Quiet
    /\ ChatRest \/ UNCHANGED chatVars => Quiet
BY DEF PageStep, LoadHistory, HistoryFails, OnToken, OnDone, OnError, Settle,
       StreamRejects, Take, Drop, CloseChat, ChatRest, chatVars, Quiet
-----------------------------------------------------------------------------
LEMMA TranscriptInvStep ==
    TranscriptInv /\ [ChatNext]_chatVars => TranscriptInv'
<1> SUFFICES ASSUME TranscriptInv, [ChatNext]_chatVars
             PROVE  TranscriptInv'
    OBVIOUS
<1>1. ASSUME NEW r \in Requests, ServerStep(r)
      PROVE  TranscriptInv'
    BY <1>1, QuietServer, CommitQuestionKeeps, FinishKeeps DEF ServerStep
<1>2. CASE Quiet
    BY <1>2, StayKeeps DEF Quiet
<1>3. ASSUME NEW t \in ChatTabs, OpenChat(t) \/ send(t)
      PROVE  TranscriptInv'
    BY <1>3, OpenChatKeeps, SendKeeps
<1> QED
    BY <1>1, <1>2, <1>3, BrowserIsQuiet DEF ChatNext

LEMMA TranscriptInvariant == ChatSpec => []TranscriptInv
BY TranscriptInvInit, TranscriptInvStep, PTL DEF ChatSpec
-----------------------------------------------------------------------------
(* The refinement. *)

\* Which questions a row of a role adds.
LEMMA SavedGrows ==
    ASSUME NEW r, NEW role \in Roles,
           msgs' = msgs \union {[q |-> r, role |-> role]}
    PROVE  \A other \in Roles :
               Saved(other)' = IF other = role THEN Saved(other) \union {r}
                                              ELSE Saved(other)
<1> DEFINE row == [q |-> r, role |-> role]
<1>1. row.q = r /\ row.role = role
    OBVIOUS
<1> HIDE DEF row
<1>2. msgs' = msgs \union {row}
    BY DEF row
<1> QED
    BY <1>1, <1>2 DEF Saved

\* A question is in Saved if its row is there.
LEMMA SavedRows ==
    ASSUME msgs \subseteq Message, NEW r, NEW role \in Roles
    PROVE  r \in Saved(role) <=> [q |-> r, role |-> role] \in msgs
<1>1. ASSUME [q |-> r, role |-> role] \in msgs
      PROVE  r \in Saved(role)
    BY <1>1 DEF Saved
<1>2. ASSUME r \in Saved(role)
      PROVE  [q |-> r, role |-> role] \in msgs
    <2>1. PICK m \in msgs : m.q = r /\ m.role = role
        BY <1>2 DEF Saved
    <2>2. m = [q |-> r, role |-> role]
        BY <2>1 DEF Message
    <2> QED
        BY <2>1, <2>2
<1> QED
    BY <1>1, <1>2

PromiseStep == Promise!TranscriptNext \/ UNCHANGED Promise!transcriptVars

LEMMA SavedStays ==
    ASSUME UNCHANGED msgs
    PROVE  Saved("user")' = Saved("user")
           /\ Saved("assistant")' = Saved("assistant")
BY DEF Saved

LEMMA AskRefines ==
    ASSUME TranscriptInv, NEW r \in Requests, CommitQuestion(r)
    PROVE  PromiseStep
<1>1. r \in Asks /\ Asked(r) \notin msgs /\ conv' = TRUE
      /\ msgs' = msgs \union {[q |-> r, role |-> "user"]}
    BY CommitQuestionKeeps DEF CommitQuestion
<1>2. r \notin Saved("user")
    BY <1>1, SavedRows DEF TranscriptInv, Asked, Roles
<1>3. Saved("user")' = Saved("user") \union {r}
      /\ Saved("assistant")' = Saved("assistant")
    BY <1>1, SavedGrows DEF Roles
<1> QED
    BY <1>1, <1>2, <1>3 DEF PromiseStep, Promise!TranscriptNext, Promise!Ask

LEMMA AnswerRefines ==
    ASSUME TranscriptInv, NEW r \in Requests, Finish(r)
    PROVE  PromiseStep
<1>1. /\ r \in Asks /\ Asked(r) \in msgs /\ Replied(r) \notin msgs
      /\ msgs' = msgs \union {[q |-> r, role |-> "assistant"]}
      /\ UNCHANGED conv
    BY FinishKeeps DEF Finish
<1>2. r \in Saved("user") /\ r \notin Saved("assistant")
    BY <1>1, SavedRows DEF TranscriptInv, Asked, Replied, Roles
<1>3. Saved("assistant")' = Saved("assistant") \union {r}
      /\ Saved("user")' = Saved("user")
    BY <1>1, SavedGrows DEF Roles
<1> QED
    BY <1>1, <1>2, <1>3 DEF PromiseStep, Promise!TranscriptNext, Promise!Answer

\* The other steps of the server open the conversation or change nothing.
LEMMA QuietServerRefines ==
    ASSUME TranscriptInv, NEW r \in Requests,
           LookupConv(r) \/ InsertConv(r) \/ RequestFails(r) \/ chat_history(r)
           \/ StreamAnswer(r) \/ StreamBreaks(r) \/ SaveFails(r) \/ Cancelled(r)
    PROVE  PromiseStep
<1>1. /\ UNCHANGED msgs
      /\ conv \in BOOLEAN
      /\ conv' = TRUE \/ UNCHANGED conv
    BY DEF LookupConv, InsertConv, RequestFails, chat_history, StreamAnswer,
           StreamBreaks, SaveFails, Cancelled, TranscriptInv
<1>2. Saved("user")' = Saved("user") /\ Saved("assistant")' = Saved("assistant")
    BY <1>1, SavedStays
<1>3. CASE UNCHANGED conv
    BY <1>2, <1>3 DEF PromiseStep, Promise!transcriptVars
<1>4. CASE ~conv /\ conv' = TRUE
    BY <1>2, <1>4 DEF PromiseStep, Promise!TranscriptNext, Promise!Open
<1> QED
    BY <1>1, <1>3, <1>4

LEMMA StepRefines ==
    TranscriptInv /\ [ChatNext]_chatVars => PromiseStep
<1> SUFFICES ASSUME TranscriptInv, [ChatNext]_chatVars
             PROVE  PromiseStep
    OBVIOUS
<1>1. ASSUME NEW r \in Requests, ServerStep(r)
      PROVE  PromiseStep
    BY <1>1, QuietServerRefines, AskRefines, AnswerRefines DEF ServerStep
<1>2. ASSUME UNCHANGED <<conv, msgs>>
      PROVE  PromiseStep
    BY <1>2, SavedStays DEF PromiseStep, Promise!transcriptVars
<1>3. ASSUME NEW t \in ChatTabs, OpenChat(t) \/ send(t)
      PROVE  UNCHANGED <<conv, msgs>>
    BY <1>3 DEF OpenChat, send
<1> QED
    BY <1>1, <1>2, <1>3, BrowserIsQuiet DEF ChatNext, Quiet

\* Whatever pages, network and endpoints do, the saved conversation is opened
\* once, only grows, and answers only questions that are there (chat.py).
THEOREM ChatKeepsTranscript == ChatSpec => ImplementsTranscript
<1>1. ChatInit => Promise!TranscriptInit
    BY DEF ChatInit, Promise!TranscriptInit, Saved
<1>2. TranscriptInv /\ [ChatNext]_chatVars
        => [Promise!TranscriptNext]_Promise!transcriptVars
    BY StepRefines DEF PromiseStep
<1> QED
    BY <1>1, <1>2, TranscriptInvariant, PTL
       DEF ChatSpec, ImplementsTranscript, Promise!TranscriptSpec
-----------------------------------------------------------------------------
(* What the pages show.                                                    *)

\* The page of r is there and its connection holds.
Live(r) == page[Tab(r)].open = "open" /\ r \notin cut

\* What is on the wire to a page that listens, by how far the server is, what
\* the handler has collected and whether the answer is saved.
AnswerOnWire(phase, w, heard, saved) ==
    \/ phase \in Phases \ {"full", "ended"} /\ w = <<>> /\ heard = "empty"
    \/ phase = "full" /\ w = <<"token">> /\ heard = "empty"
    \/ phase = "full" /\ w = <<>> /\ heard = "full"
    \/ /\ phase = "ended" /\ saved
       /\ \/ w = <<"token", "done", "end">>
          \/ heard = "full" /\ w \in {<<"done", "end">>, <<"end">>, <<>>}
    \/ /\ phase = "ended" /\ ~saved
       /\ w \in {<<"token", "error", "end">>, <<"error", "end">>,
                 <<"token", "end">>, <<"end">>, <<>>}

WireOK(r) ==
    /\ Live(r) => AnswerOnWire(req[r], wire[r], page[Tab(r)].heard[r],
                               Replied(r) \in msgs)
    /\ ~Live(r) => wire[r] \in {<<>>, <<"reject">>}
    /\ req[r] = "none" => /\ wire[r] = <<>> /\ r \notin cut
                          /\ page[Tab(r)].heard[r] = "empty"
    /\ req[r] # "none" /\ r \notin cut => page[Tab(r)].open = "open"

\* The history arrives once, before the page counts as loaded.
HistoryOK(t) ==
    LET h == <<t, 0>> IN
    /\ wire[h] \in {<<>>, <<"rows">>, <<"reject">>}
    /\ req[h] = "none" => wire[h] = <<>> /\ h \notin cut
    /\ h \in cut => wire[h] # <<"rows">>
    /\ h \notin cut /\ req[h] # "ended" => wire[h] = <<>>
    /\ page[t].open = "open" /\ page[t].loaded =>
          wire[h] = <<>> /\ (h \in cut \/ req[h] = "ended")
    /\ page[t].open = "not yet" =>
          page[t] = NewPage /\ \A r \in Requests : Tab(r) = t => req[r] = "none"

\* Bubbles of done events are whole and saved.
BubblesOK(t) ==
    \A m \in page[t].shown :
        m.by = "done" => m.text = "full" /\ Replied(m.q) \in msgs

\* Questions sent after the history stay, and so do their saved answers.
ShownOK(r) ==
    page[Tab(r)].open = "open" /\ req[r] # "none" /\ r \notin page[Tab(r)].early =>
        /\ page[Tab(r)].loaded /\ Shows(Tab(r), r, "user")
        /\ r \notin cut /\ req[r] = "ended" /\ wire[r] \in {<<"end">>, <<>>}
           /\ Replied(r) \in msgs => Shows(Tab(r), r, "assistant")

\* q was sent before r by the same page.
Older(q, r) == Tab(q) = Tab(r) /\ q[2] < r[2]
OrderOK(r) ==
    \A q \in Asks : Older(q, r) /\ req[r] # "none" => req[q] # "none"

\* All earlier streams of a page stay answered while the newest one runs.
Alone(r) ==
    Live(r) /\ req[r] # "none" /\ r \notin page[Tab(r)].overlap =>
        \A q \in Asks : Older(q, r) => Answered(q)

\* Until it has left its trace, the newest question is the one that streams.
Newest(r) == \A q \in Asks : req[q] # "none" => ~Older(r, q)
Traced(r) == page[Tab(r)].error \/ Shows(Tab(r), r, "assistant")
Streams(r) == page[Tab(r)].streaming = [q |-> r, text |-> "full"]
TraceOK(r) ==
    /\ Live(r) /\ Newest(r) /\ Replied(r) \notin msgs
    /\ r \notin page[Tab(r)].early \union page[Tab(r)].overlap
    => /\ req[r] = "ended" /\ wire[r] = <<>> => Traced(r)
       /\ \/ req[r] = "ended" /\ wire[r] = <<"end">>
          \/ req[r] = "full" /\ wire[r] = <<>>
          => Traced(r) \/ Streams(r)

ChatInv ==
    /\ ChatTypeOK /\ TranscriptInv
    /\ \A t \in ChatTabs : HistoryOK(t) /\ BubblesOK(t)
    /\ \A r \in Asks : /\ WireOK(r) /\ ShownOK(r) /\ OrderOK(r)
                       /\ Alone(r) /\ TraceOK(r)
-----------------------------------------------------------------------------
(* Sequences of events, requests and rows.                                 *)

LEMMA TwoEvents ==
    ASSUME NEW S, NEW a \in S, NEW b \in S
    PROVE  <<a>> \o <<b>> = <<a, b>>
<1> DEFINE s == <<a>>  t == <<b>>  w == <<a, b>>
<1>1. s \in Seq(S) /\ t \in Seq(S) /\ w \in Seq(S)
    OBVIOUS
<1>2. /\ Len(s) = 1 /\ Len(t) = 1 /\ Len(w) = 2
      /\ s[1] = a /\ t[1] = b /\ w[1] = a /\ w[2] = b
    OBVIOUS
<1> HIDE DEF s, t, w
<1>3. /\ s \o t \in Seq(S) /\ Len(s \o t) = Len(s) + Len(t)
      /\ \A i \in 1 .. Len(s) + Len(t) :
            (s \o t)[i] = IF i <= Len(s) THEN s[i] ELSE t[i - Len(s)]
    BY <1>1, ConcatProperties
<1>4. \A i \in 1 .. 2 : (s \o t)[i] = w[i]
    BY <1>2, <1>3
<1>5. s \o t = w
    BY <1>1, <1>2, <1>3, <1>4, SeqEqual
<1> QED
    BY <1>5 DEF s, t, w

LEMMA ThreeEvents ==
    ASSUME NEW S, NEW a \in S, NEW b \in S, NEW c \in S
    PROVE  <<a>> \o <<b, c>> = <<a, b, c>>
<1> DEFINE s == <<a>>  t == <<b, c>>  w == <<a, b, c>>
<1>1. s \in Seq(S) /\ t \in Seq(S) /\ w \in Seq(S)
    OBVIOUS
<1>2. /\ Len(s) = 1 /\ Len(t) = 2 /\ Len(w) = 3
      /\ s[1] = a /\ t[1] = b /\ t[2] = c /\ w[1] = a /\ w[2] = b /\ w[3] = c
    OBVIOUS
<1> HIDE DEF s, t, w
<1>3. /\ s \o t \in Seq(S) /\ Len(s \o t) = Len(s) + Len(t)
      /\ \A i \in 1 .. Len(s) + Len(t) :
            (s \o t)[i] = IF i <= Len(s) THEN s[i] ELSE t[i - Len(s)]
    BY <1>1, ConcatProperties
<1>4. \A i \in 1 .. 3 : (s \o t)[i] = w[i]
    <2>1. Len(s) + Len(t) = 3
        BY <1>2
    <2> QED
        BY <1>2, <1>3, <2>1
<1>5. s \o t = w
    BY <1>1, <1>2, <1>3, <1>4, SeqEqual
<1> QED
    BY <1>5 DEF s, t, w

\* What the server appends.
LEMMA Appended ==
    /\ \A w \in {<<"token">>, <<"rows">>, <<"reject">>, <<"end">>,
                 <<"error", "end">>, <<"done", "end">>} : <<>> \o w = w
    /\ <<"token">> \o <<"end">> = <<"token", "end">>
    /\ <<"token">> \o <<"error", "end">> = <<"token", "error", "end">>
    /\ <<"token">> \o <<"done", "end">> = <<"token", "done", "end">>
<1>1. <<"token">> \o <<"end">> = <<"token", "end">>
    BY TwoEvents, "token" \in Events, "end" \in Events DEF Events
<1>2. ASSUME NEW a \in Events
      PROVE  <<"token">> \o <<a, "end">> = <<"token", a, "end">>
    BY ThreeEvents, "token" \in Events, "end" \in Events DEF Events
<1>3. \A w \in {<<"token">>, <<"rows">>, <<"reject">>, <<"end">>,
                 <<"error", "end">>, <<"done", "end">>} : <<>> \o w = w
    OBVIOUS
<1> QED
    BY <1>1, <1>2, <1>3 DEF Events

\* What the page takes from the wire, and what is left.
Wires == {<<>>, <<"rows">>, <<"reject">>, <<"token">>, <<"end">>,
          <<"token", "end">>, <<"done", "end">>, <<"error", "end">>,
          <<"token", "done", "end">>, <<"token", "error", "end">>}

LEMMA Heads ==
    /\ Head(<<"rows">>) = "rows" /\ Tail(<<"rows">>) = <<>>
    /\ Head(<<"reject">>) = "reject" /\ Tail(<<"reject">>) = <<>>
    /\ Head(<<"token">>) = "token" /\ Tail(<<"token">>) = <<>>
    /\ Head(<<"end">>) = "end" /\ Tail(<<"end">>) = <<>>
    /\ Head(<<"token", "end">>) = "token" /\ Tail(<<"token", "end">>) = <<"end">>
    /\ Head(<<"done", "end">>) = "done" /\ Tail(<<"done", "end">>) = <<"end">>
    /\ Head(<<"error", "end">>) = "error" /\ Tail(<<"error", "end">>) = <<"end">>
    /\ Head(<<"token", "done", "end">>) = "token"
       /\ Tail(<<"token", "done", "end">>) = <<"done", "end">>
    /\ Head(<<"token", "error", "end">>) = "token"
       /\ Tail(<<"token", "error", "end">>) = <<"error", "end">>
OBVIOUS

LEMMA Taken ==
    ASSUME NEW w \in Wires \ {<<>>}
    PROVE  /\ Tail(w) \in Wires
           /\ Head(w) \in {"rows", "reject"} => w = <<Head(w)>> /\ Tail(w) = <<>>
           /\ Head(w) = "end" => w = <<"end">> /\ Tail(w) = <<>>
           /\ Head(w) = "done" => w = <<"done", "end">> /\ Tail(w) = <<"end">>
           /\ Head(w) = "error" => w = <<"error", "end">> /\ Tail(w) = <<"end">>
           /\ Head(w) = "token" =>
                \/ w = <<"token">> /\ Tail(w) = <<>>
                \/ w = <<"token", "end">> /\ Tail(w) = <<"end">>
                \/ w = <<"token", "done", "end">> /\ Tail(w) = <<"done", "end">>
                \/ w = <<"token", "error", "end">> /\ Tail(w) = <<"error", "end">>
BY Heads, Zenon DEF Wires

LEMMA WiresTyped == Wires \subseteq Seq(Events)
<1>1. <<>> \in Seq(Events) /\ <<"rows">> \in Seq(Events)
      /\ <<"reject">> \in Seq(Events) /\ <<"token">> \in Seq(Events)
      /\ <<"end">> \in Seq(Events)
    BY DEF Events
<1>2. <<"token", "end">> \in Seq(Events) /\ <<"done", "end">> \in Seq(Events)
      /\ <<"error", "end">> \in Seq(Events)
    BY DEF Events
<1>3. <<"token", "done", "end">> \in Seq(Events)
      /\ <<"token", "error", "end">> \in Seq(Events)
    BY DEF Events
<1> QED
    BY <1>1, <1>2, <1>3 DEF Wires

LEMMA AskShape ==
    ASSUME NEW r \in Asks
    PROVE  /\ Tab(r) \in ChatTabs /\ r[2] \in Nat /\ r[2] >= 1
           /\ r = <<Tab(r), r[2]>> /\ r \in Requests
<1>1. PICK t \in ChatTabs, u \in Usages : r \in {t} \X (1 .. u.asks[t])
    BY DEF Asks
<1>2. u.asks[t] \in Nat
    BY ChatAssumption DEF Usage
<1> QED
    BY <1>1, <1>2 DEF Tab, Requests

LEMMA RequestShape ==
    /\ Requests = History \union Asks /\ History \cap Asks = {}
    /\ \A r \in Requests : Tab(r) \in ChatTabs
    /\ \A r \in History : r = <<Tab(r), 0>>
    /\ \A t \in ChatTabs : Tab(<<t, 0>>) = t /\ <<t, 0>> \in History
BY AskShape, HistoryAsksNothing DEF Requests, History, Tab

\* Rows of different questions, and the two rows of one, differ.
LEMMA RowShape ==
    /\ \A r : Asked(r).q = r /\ Replied(r).q = r
    /\ \A r : Asked(r).role = "user" /\ Replied(r).role = "assistant"
    /\ \A r, s : Asked(r) # Replied(s)
    /\ \A r, s : Replied(r) = Replied(s) => r = s
<1>1. \A r : Asked(r).q = r /\ Replied(r).q = r
             /\ Asked(r).role = "user" /\ Replied(r).role = "assistant"
    BY DEF Asked, Replied
<1>2. \A r, s : Asked(r) # Replied(s)
    <2> SUFFICES ASSUME NEW r, NEW s, Asked(r) = Replied(s) PROVE FALSE
        OBVIOUS
    <2> QED
        BY <1>1
<1>3. \A r, s : Replied(r) = Replied(s) => r = s
    BY <1>1
<1> QED
    BY <1>1, <1>2, <1>3
-----------------------------------------------------------------------------
(* Steps of the endpoints.                                                 *)

\* What the server writes reaches no other request.
LEMMA Written ==
    ASSUME ChatTypeOK, NEW r \in Requests, NEW events \in Wires, Write(r, events)
    PROVE  /\ wire' \in [Requests -> Seq(Events)]
           /\ \A s \in Requests : s # r => wire'[s] = wire[s]
           /\ wire'[r] = IF r \in cut THEN wire[r] ELSE wire[r] \o events
<1>1. wire \in [Requests -> Seq(Events)] /\ events \in Seq(Events)
    BY WiresTyped DEF ChatTypeOK
<1>2. wire[r] \o events \in Seq(Events)
    BY <1>1
<1> QED
    BY <1>1, <1>2 DEF Write

\* A step for r leaves the pages and the other requests alone.
LEMMA ServerFrame ==
    ASSUME ChatTypeOK, NEW r \in Requests, ServerStep(r)
    PROVE  /\ UNCHANGED <<usage, cut, cuts, page>>
           /\ req' \in [Requests -> Phases] /\ req[r] \notin {"none", "ended"}
           /\ req'[r] # "none" /\ req'[r] # "sent"
           /\ wire' \in [Requests -> Seq(Events)]
           /\ \A s \in Requests : s # r => req'[s] = req[s] /\ wire'[s] = wire[s]
           /\ r \in cut => wire'[r] = wire[r]
           /\ msgs' \in {msgs, msgs \union {Asked(r)}, msgs \union {Replied(r)}}
           /\ conv' \in BOOLEAN
           /\ snap' \in [ChatTabs -> SUBSET Message]
<1>1. PICK events \in Wires : Write(r, events) \/ wire' = wire
    <2>1. <<"error", "end">> \in Wires /\ <<"reject">> \in Wires
          /\ <<"rows">> \in Wires /\ <<"token">> \in Wires /\ <<"end">> \in Wires
          /\ <<"done", "end">> \in Wires
        BY DEF Wires
    <2> QED
        BY <2>1
        DEF ServerStep, LookupConv, InsertConv, RequestFails, chat_history,
            CommitQuestion, StreamAnswer, StreamBreaks, Finish, SaveFails,
            Cancelled, Refused
<1>2. /\ wire' \in [Requests -> Seq(Events)]
      /\ \A s \in Requests : s # r => wire'[s] = wire[s]
      /\ r \in cut => wire'[r] = wire[r]
    BY <1>1, Written DEF ChatTypeOK
<1>3. \E phase \in Phases \ {"none", "sent"} : Move(r, phase)
    BY DEF ServerStep, LookupConv, InsertConv, RequestFails, chat_history,
           CommitQuestion, StreamAnswer, StreamBreaks, Finish, SaveFails,
           Cancelled, Phases
<1>4. /\ req' \in [Requests -> Phases] /\ req'[r] # "none" /\ req'[r] # "sent"
      /\ \A s \in Requests : s # r => req'[s] = req[s]
    BY <1>3 DEF Move, ChatTypeOK
<1>5. UNCHANGED <<usage, cut, cuts, page>> /\ req[r] \notin {"none", "ended"}
    BY DEF ServerStep, LookupConv, InsertConv, RequestFails, chat_history,
           CommitQuestion, StreamAnswer, StreamBreaks, Finish, SaveFails,
           Cancelled
<1>6. /\ msgs' \in {msgs, msgs \union {Asked(r)}, msgs \union {Replied(r)}}
      /\ conv' \in BOOLEAN
    BY DEF ServerStep, LookupConv, InsertConv, RequestFails, chat_history,
           CommitQuestion, StreamAnswer, StreamBreaks, Finish, SaveFails,
           Cancelled, ChatTypeOK, Asked, Replied
<1>7. snap' \in [ChatTabs -> SUBSET Message]
    <2>1. snap' = snap \/ snap' = [snap EXCEPT ![Tab(r)] = msgs]
        BY DEF ServerStep, LookupConv, InsertConv, RequestFails, chat_history,
               CommitQuestion, StreamAnswer, StreamBreaks, Finish, SaveFails,
               Cancelled
    <2> QED
        BY <2>1 DEF ChatTypeOK
<1> QED
    BY <1>2, <1>4, <1>5, <1>6, <1>7

\* The stream of an answer goes on as AnswerOnWire says.
LEMMA LiveServer ==
    ASSUME ChatInv, NEW r \in Asks, ServerStep(r), Live(r)
    PROVE  /\ AnswerOnWire(req'[r], wire'[r], page[Tab(r)].heard[r],
                           Replied(r) \in msgs')
           /\ req'[r] = "full" => wire'[r] # <<>>
           /\ req'[r] = "ended" /\ Replied(r) \in msgs'
                => wire'[r] \notin {<<"end">>, <<>>}
           /\ req'[r] = "ended" /\ Replied(r) \notin msgs'
                => /\ wire'[r] # <<>>
                   /\ wire'[r] = <<"end">> => req[r] = "full" /\ wire[r] = <<>>
<1> DEFINE h == page[Tab(r)].heard[r]
<1>1. /\ ChatTypeOK /\ r \in Requests /\ r \notin cut /\ r \notin History
      /\ AnswerOnWire(req[r], wire[r], h, Replied(r) \in msgs)
    BY RequestShape DEF ChatInv, WireOK, Live
<1>2. req[r] \notin {"none", "ended"} => Replied(r) \notin msgs
    BY <1>1, RowShape DEF ChatInv, TranscriptInv, RowsOf, ChatTypeOK, Phases
<1>3. req[r] \notin {"none", "ended"}
    BY <1>1, ServerFrame
<1>4. \A phase : Move(r, phase) => req'[r] = phase
    BY <1>1 DEF Move, ChatTypeOK
<1>5. \A events \in Wires : Write(r, events) => wire'[r] = wire[r] \o events
    BY <1>1, Written
<1>6. /\ <<"error", "end">> \in Wires /\ <<"token">> \in Wires
      /\ <<"end">> \in Wires /\ <<"done", "end">> \in Wires
    BY DEF Wires
<1> HIDE DEF h
<1>7. CASE LookupConv(r) \/ InsertConv(r) \/ CommitQuestion(r)
    <2>1. /\ req'[r] \in {"found", "missing", "inserted", "asked"}
          /\ wire'[r] = wire[r] /\ req[r] \notin {"full", "ended"}
        BY <1>4, <1>7 DEF LookupConv, InsertConv, CommitQuestion
    <2>2. wire[r] = <<>> /\ h = "empty"
        BY <1>1, <2>1 DEF AnswerOnWire
    <2> QED
        BY <2>1, <2>2 DEF AnswerOnWire, Phases, h
<1>8. CASE StreamAnswer(r)
    <2>1. req'[r] = "full" /\ wire'[r] = <<"token">> /\ h = "empty"
        BY <1>1, <1>4, <1>5, <1>6, <1>8, Appended DEF StreamAnswer, AnswerOnWire
    <2> QED
        BY <2>1 DEF AnswerOnWire, h
<1>9. CASE RequestFails(r) \/ StreamBreaks(r)
    <2>1. /\ req'[r] = "ended" /\ msgs' = msgs
          /\ wire'[r] = wire[r] \o <<"error", "end">>
        BY <1>1, <1>4, <1>5, <1>6, <1>9 DEF RequestFails, StreamBreaks, Refused
    <2>2. wire[r] \in {<<>>, <<"token">>}
        BY <1>1, <1>3 DEF AnswerOnWire
    <2>3. wire'[r] \in {<<"error", "end">>, <<"token", "error", "end">>}
        BY <2>1, <2>2, Appended
    <2>4. wire'[r] # <<>> /\ wire'[r] # <<"end">>
        BY <2>3
    <2> QED
        BY <1>2, <1>3, <2>1, <2>3, <2>4 DEF AnswerOnWire
<1>10. CASE Finish(r)
    <2>1. /\ req'[r] = "ended" /\ Replied(r) \in msgs' /\ req[r] = "full"
          /\ wire'[r] = wire[r] \o <<"done", "end">>
        BY <1>4, <1>5, <1>6, <1>10 DEF Finish, Replied
    <2>2. \/ wire[r] = <<"token">> /\ wire'[r] = <<"token", "done", "end">>
          \/ wire[r] = <<>> /\ h = "full" /\ wire'[r] = <<"done", "end">>
        BY <1>1, <2>1, Appended DEF AnswerOnWire
    <2>3. wire'[r] # <<>> /\ wire'[r] # <<"end">>
        BY <2>2
    <2> QED
        BY <2>1, <2>2, <2>3 DEF AnswerOnWire, h
<1>11. CASE SaveFails(r)
    <2>1. /\ req'[r] = "ended" /\ msgs' = msgs /\ req[r] = "full"
          /\ wire'[r] = wire[r] \o <<"end">>
        BY <1>4, <1>5, <1>6, <1>11 DEF SaveFails
    <2>2. \/ wire[r] = <<"token">> /\ wire'[r] = <<"token", "end">>
          \/ wire[r] = <<>> /\ wire'[r] = <<"end">>
        BY <1>1, <2>1, Appended DEF AnswerOnWire
    <2>3. wire'[r] # <<>> /\ <<"token", "end">> # <<"end">>
        BY <2>2
    <2> QED
        BY <1>2, <2>1, <2>2, <2>3 DEF AnswerOnWire
<1> QED
    BY <1>1, <1>7, <1>8, <1>9, <1>10, <1>11
    DEF ServerStep, chat_history, Cancelled

LEMMA ServerHistory ==
    ASSUME ChatInv, NEW r \in Requests, ServerStep(r), NEW t \in ChatTabs
    PROVE  HistoryOK(t)'
<1> DEFINE h == <<t, 0>>
<1>1. ChatTypeOK /\ HistoryOK(t) /\ h \in Requests /\ h \in History /\ Tab(h) = t
    BY RequestShape DEF ChatInv
<1>2. /\ UNCHANGED <<cut, page>> /\ req[r] \notin {"none", "ended"}
      /\ \A s \in Requests : s # r => req'[s] = req[s] /\ wire'[s] = wire[s]
      /\ r \in cut => wire'[r] = wire[r]
      /\ req'[r] # "none"
    BY <1>1, ServerFrame
<1>3. page[t].open = "not yet" => Tab(r) # t
    BY <1>1, <1>2 DEF HistoryOK
<1>4. CASE r # h
    BY <1>1, <1>2, <1>3, <1>4 DEF HistoryOK
<1>5. CASE r = h
    <2>1. r \notin cut => wire[r] = <<>>
        BY <1>1, <1>2, <1>5 DEF HistoryOK
    <2>2. r \notin cut => ~(page[t].open = "open" /\ page[t].loaded)
        BY <1>1, <1>2, <1>5 DEF HistoryOK
    <2>3. r \notin Asks
        BY <1>1, <1>5, RequestShape
    <2>4. r \notin cut =>
             \/ wire'[r] = <<>>
             \/ wire'[r] \in {<<"rows">>, <<"reject">>} /\ req'[r] = "ended"
        <3> SUFFICES ASSUME r \notin cut
                     PROVE  \/ wire'[r] = <<>>
                            \/ /\ wire'[r] \in {<<"rows">>, <<"reject">>}
                               /\ req'[r] = "ended"
            OBVIOUS
        <3>1. \A events \in {<<"rows">>, <<"reject">>} :
                  Write(r, events) => wire'[r] = events
            <4>1. {<<"rows">>, <<"reject">>} \subseteq Wires
                BY DEF Wires
            <4> QED
                BY <1>1, <2>1, <4>1, Written, Appended
        <3>2. \A phase : Move(r, phase) => req'[r] = phase
            BY <1>1 DEF Move, ChatTypeOK
        <3>3. req[r] \notin {"asked", "full"}
            BY <2>3 DEF ChatInv, TranscriptInv, RowsOf
        <3>4. CASE LookupConv(r) \/ InsertConv(r)
            BY <2>1, <3>4 DEF LookupConv, InsertConv
        <3>5. CASE RequestFails(r) \/ chat_history(r)
            BY <1>1, <1>5, <3>1, <3>2, <3>5
            DEF RequestFails, chat_history, Refused
        <3> QED
            BY <2>3, <3>3, <3>4, <3>5
            DEF ServerStep, CommitQuestion, StreamAnswer, StreamBreaks, Finish,
                SaveFails, Cancelled
    <2> QED
        BY <1>1, <1>2, <1>3, <1>5, <2>2, <2>4 DEF HistoryOK
<1> QED
    BY <1>4, <1>5

LEMMA ServerKeeps ==
    ASSUME ChatInv, NEW r \in Requests, ServerStep(r)
    PROVE  ChatInv'
<1>1. ChatTypeOK /\ TranscriptInv /\ TranscriptInv'
    BY TranscriptInvStep DEF ChatInv, ChatNext
<1>2. /\ UNCHANGED <<usage, cut, cuts, page>>
      /\ req' \in [Requests -> Phases] /\ req[r] \notin {"none", "ended"}
      /\ req'[r] # "none" /\ req'[r] # "sent"
      /\ wire' \in [Requests -> Seq(Events)]
      /\ \A s \in Requests : s # r => req'[s] = req[s] /\ wire'[s] = wire[s]
      /\ r \in cut => wire'[r] = wire[r]
      /\ msgs' \in {msgs, msgs \union {Asked(r)}, msgs \union {Replied(r)}}
      /\ conv' \in BOOLEAN
      /\ snap' \in [ChatTabs -> SUBSET Message]
    BY <1>1, ServerFrame
<1>3. ChatTypeOK'
    BY <1>1, <1>2 DEF ChatTypeOK, TranscriptInv
<1>4. \A t \in ChatTabs : HistoryOK(t)'
    BY ServerHistory
<1>5. \A s : s # r => (Replied(s) \in msgs' <=> Replied(s) \in msgs)
    BY <1>2, RowShape
<1>6. \A t \in ChatTabs : BubblesOK(t)'
    BY <1>2 DEF ChatInv, BubblesOK
<1>7. \A s \in Asks : req'[s] # "none" <=> req[s] # "none"
    BY <1>2, RequestShape
<1>8. \A s \in Asks : OrderOK(s)' /\ (Newest(s)' <=> Newest(s))
    BY <1>7 DEF ChatInv, OrderOK, Older, Newest, Tab
<1>9. ASSUME NEW s \in Asks PROVE Alone(s)'
    <2>1. \A q \in Asks : Answered(q) => Answered(q)'
        BY <1>2, RequestShape DEF Answered
    <2> QED
        BY <1>2, <1>7, <2>1 DEF ChatInv, Alone, Live, Older, Tab
<1>10. ASSUME NEW s \in Asks, s # r
       PROVE  WireOK(s)' /\ ShownOK(s)' /\ TraceOK(s)'
    <2>1. /\ req'[s] = req[s] /\ wire'[s] = wire[s]
          /\ Replied(s) \in msgs' <=> Replied(s) \in msgs
        BY <1>2, <1>5, <1>10, RequestShape
    <2>2. WireOK(s)'
        BY <1>2, <2>1 DEF ChatInv, WireOK, Live, Tab, AnswerOnWire
    <2>3. ShownOK(s)'
        BY <1>2, <2>1 DEF ChatInv, ShownOK, Shows, Tab
    <2>4. TraceOK(s)'
        BY <1>2, <1>8, <2>1 DEF ChatInv, TraceOK, Live, Traced, Streams, Shows, Tab
    <2> QED
        BY <2>2, <2>3, <2>4
<1>11. ASSUME r \in Asks
       PROVE  WireOK(r)' /\ ShownOK(r)' /\ TraceOK(r)'
    <2>1. Live(r) =>
           /\ AnswerOnWire(req'[r], wire'[r], page[Tab(r)].heard[r],
                           Replied(r) \in msgs')
           /\ req'[r] = "full" => wire'[r] # <<>>
           /\ req'[r] = "ended" /\ Replied(r) \in msgs'
                => wire'[r] \notin {<<"end">>, <<>>}
           /\ req'[r] = "ended" /\ Replied(r) \notin msgs'
                => /\ wire'[r] # <<>>
                   /\ wire'[r] = <<"end">> => req[r] = "full" /\ wire[r] = <<>>
        BY <1>11, LiveServer
    <2>2. WireOK(r) /\ ShownOK(r) /\ TraceOK(r)
        BY <1>11 DEF ChatInv
    <2>3. Live(r)' <=> Live(r)
        BY <1>2 DEF Live, Tab
    <2>4. ~Live(r) => wire'[r] = wire[r]
        BY <1>2, <2>2 DEF WireOK, Live
    <2>5. WireOK(r)'
        BY <1>2, <2>1, <2>2, <2>3, <2>4 DEF WireOK, Tab
    <2>6. ShownOK(r)'
        BY <1>2, <2>1, <2>2 DEF ShownOK, Shows, Tab, Live
    <2>7. Replied(r) \notin msgs' => Replied(r) \notin msgs
        BY <1>2
    <2>8. TraceOK(r)'
        BY <1>2, <1>8, <1>11, <2>1, <2>2, <2>3, <2>7
        DEF TraceOK, Traced, Streams, Shows, Tab
    <2> QED
        BY <2>5, <2>6, <2>8
<1> QED
    BY <1>1, <1>3, <1>4, <1>6, <1>8, <1>9, <1>10, <1>11 DEF ChatInv
-----------------------------------------------------------------------------
(* Steps of the pages.                                                     *)

\* What waits on any wire.
LEMMA WireShape ==
    ASSUME ChatInv, NEW r \in Requests
    PROVE  /\ wire[r] \in Wires /\ (wire[r] # <<>> => req[r] # "none")
           /\ r \in History => wire[r] \in {<<>>, <<"rows">>, <<"reject">>}
           /\ r \in Asks => wire[r] # <<"rows">>
           /\ r \in Asks /\ Live(r) => wire[r] # <<"reject">>
           /\ r \in Asks /\ ~Live(r) => wire[r] \in {<<>>, <<"reject">>}
<1> DEFINE AnswerWires == {<<>>, <<"token">>, <<"end">>, <<"token", "end">>,
                           <<"done", "end">>, <<"error", "end">>,
                           <<"token", "done", "end">>, <<"token", "error", "end">>}
<1>1. \A w \in AnswerWires : w \in Wires /\ w # <<"rows">> /\ w # <<"reject">>
    BY DEF Wires
<1>2. <<>> # <<"rows">> /\ <<"reject">> # <<"rows">> /\ <<>> \in Wires
      /\ <<"rows">> \in Wires /\ <<"reject">> \in Wires
    BY DEF Wires
<1>3. CASE r \in History
    <2>1. r \notin Asks /\ Tab(r) \in ChatTabs /\ r = <<Tab(r), 0>>
        BY <1>3, RequestShape
    <2>2. /\ wire[r] \in {<<>>, <<"rows">>, <<"reject">>}
          /\ req[r] = "none" => wire[r] = <<>>
        BY <2>1 DEF ChatInv, HistoryOK
    <2> QED
        BY <1>2, <2>1, <2>2
<1>4. CASE r \in Asks
    <2>1. WireOK(r) /\ r \notin History
        BY <1>4, RequestShape DEF ChatInv
    <2>2. CASE Live(r)
        <3>1. wire[r] \in AnswerWires
            BY <2>1, <2>2 DEF WireOK, AnswerOnWire
        <3>2. wire[r] # <<>> => req[r] # "none"
            BY <2>1 DEF WireOK
        <3> HIDE DEF AnswerWires
        <3> QED
            BY <1>1, <2>1, <2>2, <3>1, <3>2
    <2>3. CASE ~Live(r)
        BY <1>2, <2>1, <2>3 DEF WireOK
    <2> QED
        BY <2>2, <2>3
<1> QED
    BY <1>3, <1>4, RequestShape

LEMMA TakeFrame ==
    ASSUME ChatInv, NEW r \in Requests, NEW event, NEW p \in Page,
           Take(r, event, p)
    PROVE  /\ wire[r] \in Wires \ {<<>>} /\ Head(wire[r]) = event
           /\ wire'[r] = Tail(wire[r]) /\ req[r] # "none"
           /\ \A s \in Requests : s # r => wire'[s] = wire[s]
           /\ page'[Tab(r)] = p /\ page' \in [ChatTabs -> Page]
           /\ \A t \in ChatTabs : t # Tab(r) => page'[t] = page[t]
           /\ UNCHANGED <<usage, conv, msgs, req, snap, cut, cuts>>
           /\ ChatTypeOK' /\ TranscriptInv'
<1>1. ChatTypeOK /\ TranscriptInv /\ Tab(r) \in ChatTabs
    BY RequestShape DEF ChatInv
<1>2. wire[r] \in Wires \ {<<>>} /\ Head(wire[r]) = event /\ req[r] # "none"
    BY WireShape DEF Take
<1>3. Tail(wire[r]) \in Seq(Events)
    BY <1>2, Taken, WiresTyped
<1>4. /\ wire' \in [Requests -> Seq(Events)] /\ wire'[r] = Tail(wire[r])
      /\ \A s \in Requests : s # r => wire'[s] = wire[s]
    BY <1>1, <1>3 DEF Take, ChatTypeOK
<1>5. /\ page' \in [ChatTabs -> Page] /\ page'[Tab(r)] = p
      /\ \A t \in ChatTabs : t # Tab(r) => page'[t] = page[t]
    BY <1>1 DEF Take, ChatTypeOK
<1>6. UNCHANGED <<usage, conv, msgs, req, snap, cut, cuts>>
    BY DEF Take
<1>7. ChatTypeOK' /\ TranscriptInv'
    BY <1>1, <1>4, <1>5, <1>6, StayKeeps DEF ChatTypeOK
<1> QED
    BY <1>2, <1>4, <1>5, <1>6, <1>7

\* What every event does to a page, from P to p.
ShowsIn(p, q) == \E m \in p.shown : m.q = q /\ m.role = "assistant"
Grows(P, p) ==
    /\ p.open = P.open /\ p.early = P.early /\ p.overlap = P.overlap
    /\ P.loaded => p.loaded
    /\ P.shown \subseteq p.shown \/ ~(P.open = "open" /\ P.loaded)
    /\ P.error => p.error

\* ... to the question r it is about, and to one that streams.
Heard(r, event, P, p) ==
    /\ p.loaded = P.loaded
    /\ event \in {"token", "done", "error", "end", "reject"}
    /\ \A s \in Asks : s # r => p.heard[s] = P.heard[s]
    /\ event # "token" => p.heard[r] = P.heard[r]
    /\ event = "token" => /\ p.heard[r] = "full"
                          /\ p.streaming = [q |-> r, text |-> "full"]
    /\ event = "done" => ShowsIn(p, r)
    /\ event = "error" => p.error
    /\ event = "end" =>
          \A s \in Asks : P.streaming = [q |-> s, text |-> "full"] => ShowsIn(p, s)
    /\ event = "reject" => p.streaming = P.streaming

TakesRight(r, event, P, p) ==
    /\ Grows(P, p)
    /\ \A m \in p.shown :
          m.by = "done" => m.text = "full" /\ Replied(m.q) \in msgs
    /\ r \in Asks => Heard(r, event, P, p)
    /\ r \in History => p.streaming = P.streaming /\ p.heard = P.heard

LEMMA TakeHistory ==
    ASSUME ChatInv, NEW r \in Requests, NEW event, NEW p \in Page,
           Take(r, event, p), TakesRight(r, event, page[Tab(r)], p),
           NEW t \in ChatTabs
    PROVE  HistoryOK(t)'
<1> DEFINE h == <<t, 0>>
<1>1. ChatTypeOK /\ HistoryOK(t) /\ h \in Requests /\ h \in History /\ Tab(h) = t
    BY RequestShape DEF ChatInv
<1>2. /\ wire[r] \in Wires \ {<<>>} /\ Head(wire[r]) = event
      /\ wire'[r] = Tail(wire[r]) /\ req[r] # "none"
      /\ \A s \in Requests : s # r => wire'[s] = wire[s]
      /\ page'[Tab(r)] = p /\ page' \in [ChatTabs -> Page]
      /\ \A s \in ChatTabs : s # Tab(r) => page'[s] = page[s]
      /\ UNCHANGED <<msgs, req, cut>>
    BY TakeFrame
<1>3. page[t].open = "not yet" => Tab(r) # t
    BY <1>1, <1>2 DEF HistoryOK
<1>4. CASE Tab(r) # t
    BY <1>1, <1>2, <1>4 DEF HistoryOK
<1>5. CASE Tab(r) = t /\ r # h
    <2>1. r \in Asks
        BY <1>5, RequestShape
    <2>2. p.open = page[t].open /\ p.loaded = page[t].loaded
        BY <1>5, <2>1 DEF TakesRight, Heard, Grows
    <2> QED
        BY <1>1, <1>2, <1>3, <1>5, <2>2 DEF HistoryOK
<1>6. CASE r = h
    <2>1. wire'[r] = <<>>
        BY <1>1, <1>2, <1>6, Taken, Heads DEF HistoryOK
    <2>2. p.open = page[t].open
        BY <1>1, <1>6 DEF TakesRight, Grows
    <2>3. h \in cut \/ req[h] = "ended"
        BY <1>1, <1>2, <1>6 DEF HistoryOK
    <2>4. page'[t] = p /\ p.open # "not yet" /\ wire'[h] = <<>>
        BY <1>1, <1>2, <1>3, <1>6, <2>1, <2>2
    <2>5. req'[h] # "none" /\ (h \in cut' \/ req'[h] = "ended")
        BY <1>2, <1>6, <2>3
    <2>6. <<>> # <<"rows">>
        OBVIOUS
    <2> HIDE DEF h
    <2> QED
        BY <2>4, <2>5, <2>6 DEF HistoryOK, h
<1> QED
    BY <1>4, <1>5, <1>6

\* The question whose event is taken.
LEMMA TakeOwn ==
    ASSUME ChatInv, NEW r \in Asks, NEW event, NEW p \in Page,
           Take(r, event, p), TakesRight(r, event, page[Tab(r)], p)
    PROVE  WireOK(r)' /\ ShownOK(r)' /\ TraceOK(r)'
<1> DEFINE P == page[Tab(r)]
           w == wire[r]
<1>1. /\ w \in Wires \ {<<>>} /\ Head(w) = event
      /\ wire'[r] = Tail(w) /\ req[r] # "none"
      /\ page'[Tab(r)] = p
      /\ UNCHANGED <<msgs, req, cut>>
    BY TakeFrame, AskShape
<1>2. Grows(P, p) /\ Heard(r, event, P, p)
    BY DEF TakesRight
<1>3. WireOK(r) /\ ShownOK(r) /\ TraceOK(r)
    BY DEF ChatInv
<1>4. Live(r)' <=> Live(r)
    BY <1>1, <1>2 DEF Live, Grows, Tab
<1>5. Newest(r)' <=> Newest(r)
    BY <1>1 DEF Newest, Older, Tab
<1>6. CASE ~Live(r)
    <2>1. w = <<"reject">> /\ wire'[r] = <<>>
        BY <1>1, <1>6, WireShape, AskShape, Heads
    <2>2. WireOK(r)'
        BY <1>1, <1>2, <1>3, <1>4, <1>6, <2>1 DEF WireOK, Live, Tab, Grows
    <2>3. ShownOK(r)'
        BY <1>1, <1>2, <1>3, <1>6, <2>1 DEF ShownOK, Live, Shows, Tab, Grows
    <2>4. TraceOK(r)'
        BY <1>4, <1>6 DEF TraceOK
    <2> QED
        BY <2>2, <2>3, <2>4
<1>7. CASE Live(r)
    <2>1. AnswerOnWire(req[r], w, P.heard[r], Replied(r) \in msgs)
        BY <1>3, <1>7 DEF WireOK
    <2>2. \/ event = "token" /\ P.heard[r] = "empty" /\ req[r] = "full"
             /\ Tail(w) = <<>>
          \/ event = "token" /\ req[r] = "ended" /\ Replied(r) \in msgs
             /\ Tail(w) = <<"done", "end">>
          \/ event = "token" /\ req[r] = "ended" /\ Replied(r) \notin msgs
             /\ Tail(w) \in {<<"error", "end">>, <<"end">>}
          \/ event = "done" /\ req[r] = "ended" /\ Replied(r) \in msgs
             /\ P.heard[r] = "full" /\ Tail(w) = <<"end">>
          \/ event = "error" /\ req[r] = "ended" /\ Replied(r) \notin msgs
             /\ Tail(w) = <<"end">>
          \/ event = "end" /\ req[r] = "ended" /\ w = <<"end">>
             /\ (Replied(r) \in msgs => P.heard[r] = "full") /\ Tail(w) = <<>>
        BY <1>1, <2>1, Heads, Zenon DEF AnswerOnWire
    <2>3. /\ event = "token" => p.heard[r] = "full"
          /\ event # "token" => p.heard[r] = P.heard[r]
        BY <1>2 DEF Heard
    <2>4. AnswerOnWire(req[r], Tail(w), p.heard[r], Replied(r) \in msgs)
        BY <2>2, <2>3 DEF AnswerOnWire
    <2>5. WireOK(r)'
        BY <1>1, <1>4, <1>7, <2>4 DEF WireOK, Live, Tab
    <2>6. <<"done", "end">> # <<"end">> /\ <<"done", "end">> # <<>>
          /\ <<"end">> # <<>> /\ <<"error", "end">> # <<"end">>
          /\ <<"error", "end">> # <<>>
        OBVIOUS
    <2>7. req[r] = "ended" /\ Tail(w) \in {<<"end">>, <<>>} /\ Replied(r) \in msgs
             => event = "done" \/ w = <<"end">>
        BY <2>2, <2>6
    <2>8. ShownOK(r)'
        BY <1>1, <1>2, <1>3, <1>7, <2>7
        DEF ShownOK, Shows, ShowsIn, Heard, Grows, Live, Tab
    <2>9. TraceOK(r)'
        <3> SUFFICES ASSUME Newest(r), Replied(r) \notin msgs,
                            r \notin P.early \union P.overlap
                     PROVE  /\ req[r] = "ended" /\ Tail(w) = <<>> =>
                                  p.error \/ ShowsIn(p, r)
                            /\ \/ req[r] = "ended" /\ Tail(w) = <<"end">>
                               \/ req[r] = "full" /\ Tail(w) = <<>>
                               => \/ p.error \/ ShowsIn(p, r)
                                  \/ p.streaming = [q |-> r, text |-> "full"]
            BY <1>1, <1>2, <1>4, <1>5
            DEF TraceOK, Traced, Streams, Shows, ShowsIn, Grows, Tab
        <3>1. CASE event = "token"
            BY <1>2, <2>2, <2>6, <3>1 DEF Heard
        <3>2. CASE event = "error"
            BY <1>2, <3>2 DEF Heard
        <3>3. CASE event = "end"
            <4>1. w = <<"end">> /\ req[r] = "ended" /\ Tail(w) = <<>>
                BY <2>2, <3>3
            <4>2. P.error \/ ShowsIn(P, r)
                  \/ P.streaming = [q |-> r, text |-> "full"]
                BY <1>3, <1>7, <4>1
                DEF TraceOK, Traced, Streams, Shows, ShowsIn
            <4>3. P.open = "open" /\ P.loaded
                BY <1>1, <1>3, <1>7 DEF ShownOK, Live
            <4> QED
                BY <1>2, <3>3, <4>1, <4>2, <4>3, <2>6 DEF Heard, Grows, ShowsIn
        <3> QED
            BY <2>2, <3>1, <3>2, <3>3
    <2> QED
        BY <2>5, <2>8, <2>9
<1> QED
    BY <1>6, <1>7

\* The other questions: an older stream is left alone while the newest runs.
LEMMA TakeOthers ==
    ASSUME ChatInv, NEW r \in Requests, NEW event, NEW p \in Page,
           Take(r, event, p), TakesRight(r, event, page[Tab(r)], p),
           NEW s \in Asks, s # r
    PROVE  WireOK(s)' /\ ShownOK(s)' /\ TraceOK(s)'
<1> DEFINE P == page[Tab(r)]
<1>1. /\ wire[r] \in Wires \ {<<>>} /\ Head(wire[r]) = event /\ req[r] # "none"
      /\ wire'[s] = wire[s] /\ page'[Tab(r)] = p
      /\ \A t \in ChatTabs : t # Tab(r) => page'[t] = page[t]
      /\ UNCHANGED <<msgs, req, cut>>
    BY TakeFrame, AskShape
<1>2. WireOK(s) /\ ShownOK(s) /\ TraceOK(s) /\ Alone(s) /\ Tab(s) \in ChatTabs
    BY AskShape DEF ChatInv
<1>3. Newest(s)' <=> Newest(s)
    BY <1>1 DEF Newest, Older, Tab
<1>4. CASE Tab(s) # Tab(r)
    <2>1. page'[Tab(s)] = page[Tab(s)]
        BY <1>1, <1>2, <1>4
    <2> QED
        BY <1>1, <1>2, <1>3, <2>1
        DEF WireOK, ShownOK, TraceOK, Live, Traced, Streams, Shows, Tab
<1>5. CASE Tab(s) = Tab(r)
    <2>1. Grows(P, p) /\ p.heard[s] = P.heard[s]
        BY RequestShape DEF TakesRight, Heard
    <2>2. Live(s)' <=> Live(s)
        BY <1>1, <1>5, <2>1 DEF Live, Grows, Tab
    <2>3. WireOK(s)'
        BY <1>1, <1>2, <1>5, <2>1, <2>2 DEF WireOK, Grows, Tab, Live
    <2>4. ShownOK(s)'
        BY <1>1, <1>2, <1>5, <2>1 DEF ShownOK, Shows, Grows, Tab
    <2>5. TraceOK(s)'
        <3> SUFFICES ASSUME Live(s), Newest(s), Replied(s) \notin msgs,
                            s \notin P.early \union P.overlap, req[s] # "none",
                            Traced(s) \/ Streams(s)
                     PROVE  /\ Traced(s) => Traced(s)'
                            /\ Streams(s) => Traced(s)' \/ Streams(s)'
            BY <1>1, <1>2, <1>3, <1>5, <2>1, <2>2 DEF TraceOK, Grows, Tab
        <3>1. P.open = "open" /\ P.loaded
            BY <1>2, <1>5 DEF ShownOK, Live
        <3>2. Traced(s) => Traced(s)'
            BY <1>1, <1>5, <2>1, <3>1 DEF Traced, Shows, Grows, Tab
        <3>3. CASE r \in History
            BY <1>1, <1>5, <3>2, <3>3 DEF TakesRight, Streams, Tab
        <3>4. CASE r \in Asks
            <4>1. Older(r, s)
                BY <1>1, <1>5, <3>4, AskShape DEF Newest, Older
            <4>2. Answered(r)
                BY <1>2, <1>5, <3>4, <4>1 DEF Alone
            <4>3. event \in {"end", "reject"}
                <5>1. CASE r \in cut
                    BY <1>1, <3>4, <5>1, WireShape, Heads DEF Live
                <5>2. CASE wire[r] \in {<<>>, <<"end">>}
                    BY <1>1, <5>2, Heads
                <5> QED
                    BY <4>2, <5>1, <5>2 DEF Answered
            <4>4. Heard(r, event, P, p)
                BY <3>4 DEF TakesRight
            <4>5. P.streaming = [q |-> s, text |-> "full"] =>
                     ShowsIn(p, s) \/ p.streaming = P.streaming
                BY <4>3, <4>4 DEF Heard
            <4> QED
                BY <1>1, <1>5, <3>2, <4>5
                DEF Streams, Traced, Shows, ShowsIn, Tab
        <3> QED
            BY <3>2, <3>3, <3>4, RequestShape
    <2> QED
        BY <2>3, <2>4, <2>5
<1> QED
    BY <1>4, <1>5

LEMMA TakeKeeps ==
    ASSUME ChatInv, NEW r \in Requests, NEW event, NEW p \in Page,
           Take(r, event, p), TakesRight(r, event, page[Tab(r)], p)
    PROVE  ChatInv'
<1>1. /\ wire[r] \in Wires \ {<<>>} /\ Head(wire[r]) = event
      /\ wire'[r] = Tail(wire[r])
      /\ \A s \in Requests : s # r => wire'[s] = wire[s]
      /\ page'[Tab(r)] = p
      /\ \A t \in ChatTabs : t # Tab(r) => page'[t] = page[t]
      /\ UNCHANGED <<msgs, req, cut>>
      /\ ChatTypeOK' /\ TranscriptInv'
    BY TakeFrame
<1>2. \A t \in ChatTabs : HistoryOK(t)'
    BY TakeHistory
<1>3. \A t \in ChatTabs : BubblesOK(t)'
    BY <1>1 DEF ChatInv, BubblesOK, TakesRight
<1>4. \A s \in Asks : OrderOK(s)'
    BY <1>1 DEF ChatInv, OrderOK, Older, Tab
<1>5. ASSUME NEW s \in Asks PROVE Alone(s)'
    <2>1. page'[Tab(s)].open = page[Tab(s)].open
          /\ page'[Tab(s)].overlap = page[Tab(s)].overlap
        BY <1>1, AskShape DEF TakesRight, Grows
    <2>2. wire[r] = <<"end">> => wire'[r] = <<>>
        BY <1>1, Heads
    <2>3. \A q \in Asks : Answered(q) => Answered(q)'
        BY <1>1, <2>2, AskShape DEF Answered
    <2> QED
        BY <1>1, <2>1, <2>3 DEF ChatInv, Alone, Live, Older, Tab
<1>6. \A s \in Asks : WireOK(s)' /\ ShownOK(s)' /\ TraceOK(s)'
    BY TakeOwn, TakeOthers
<1> QED
    BY <1>1, <1>2, <1>3, <1>4, <1>5, <1>6 DEF ChatInv

\* The events of answers come for questions, those of histories for histories.
LEMMA EventsOf ==
    ASSUME ChatInv, NEW r \in Requests, wire[r] # <<>>
    PROVE  /\ r \in Asks /\ Head(wire[r]) # "reject" => Live(r)
           /\ Head(wire[r]) \in {"token", "done", "error", "end"} => r \in Asks
           /\ Head(wire[r]) = "rows" => r \in History
           /\ Head(wire[r]) = "done" =>
                 Replied(r) \in msgs /\ page[Tab(r)].heard[r] = "full"
<1>1. r \in History => Head(wire[r]) \in {"rows", "reject"}
    BY WireShape, Heads
<1>2. Head(wire[r]) = "rows" => r \in History
    BY WireShape, Taken, RequestShape
<1>3. r \in Asks /\ Head(wire[r]) # "reject" => Live(r)
    BY WireShape, Heads
<1>4. Head(wire[r]) = "done" =>
         Replied(r) \in msgs /\ page[Tab(r)].heard[r] = "full"
    <2> SUFFICES ASSUME Head(wire[r]) = "done"
                 PROVE  Replied(r) \in msgs /\ page[Tab(r)].heard[r] = "full"
        OBVIOUS
    <2>1. r \in Asks
        BY <1>1, RequestShape
    <2>2. wire[r] = <<"done", "end">>
        BY WireShape, Taken
    <2>3. AnswerOnWire(req[r], <<"done", "end">>, page[Tab(r)].heard[r],
                       Replied(r) \in msgs)
        BY <1>3, <2>1, <2>2 DEF ChatInv, WireOK
    <2> QED
        BY <2>3, Zenon DEF AnswerOnWire
<1> QED
    BY <1>1, <1>2, <1>3, <1>4, RequestShape

LEMMA PageTyped ==
    ASSUME ChatInv, NEW r \in Requests
    PROVE  /\ page[Tab(r)] \in Page /\ Tab(r) \in ChatTabs
           /\ BubblesOK(Tab(r)) /\ HistoryOK(Tab(r))
BY RequestShape DEF ChatInv, ChatTypeOK

LEMMA HistoryEvents ==
    ASSUME ChatInv, NEW r \in Requests, LoadHistory(r) \/ HistoryFails(r)
    PROVE  ChatInv'
<1> DEFINE P == page[Tab(r)]
           rows == {[q |-> m.q, role |-> m.role, text |-> "full", by |-> "server"]
                      : m \in snap[Tab(r)]}
<1>1. P \in Page /\ Tab(r) \in ChatTabs /\ BubblesOK(Tab(r)) /\ HistoryOK(Tab(r))
    BY PageTyped
<1>2. wire[r] # <<>> /\ r \in History
    BY EventsOf DEF LoadHistory, HistoryFails, Take
<1>3. r \notin Asks /\ r = <<Tab(r), 0>>
    BY <1>2, RequestShape
<1>4. CASE LoadHistory(r)
    <2> DEFINE p == [P EXCEPT !.loaded = TRUE, !.shown = rows]
    <2>1. Take(r, "rows", p)
        BY <1>4 DEF LoadHistory
    <2>2. ~(P.open = "open" /\ P.loaded)
        BY <1>1, <1>2, <1>3 DEF HistoryOK
    <2>3. rows \subseteq Bubble
        <3>1. snap[Tab(r)] \subseteq Message
            BY <1>1 DEF ChatInv, ChatTypeOK
        <3> QED
            BY <3>1 DEF Message, Bubble, Texts
    <2>4. \A m \in rows : m.by # "done"
        OBVIOUS
    <2> HIDE DEF rows, P
    <2>5. p \in Page
        BY <1>1, <2>3 DEF Page, P
    <2>6. TakesRight(r, "rows", P, p)
        BY <1>1, <1>3, <2>2, <2>4 DEF TakesRight, Grows, Page, P
    <2> HIDE DEF p
    <2> QED
        BY <2>1, <2>5, <2>6, TakeKeeps DEF P
<1>5. CASE HistoryFails(r)
    <2> DEFINE p == [P EXCEPT !.loaded = TRUE]
    <2>1. Take(r, "reject", p)
        BY <1>5 DEF HistoryFails
    <2> HIDE DEF P
    <2>2. p \in Page
        BY <1>1 DEF Page, P
    <2>3. TakesRight(r, "reject", P, p)
        BY <1>1, <1>3 DEF TakesRight, Grows, Page, BubblesOK, P
    <2> HIDE DEF p
    <2> QED
        BY <2>1, <2>2, <2>3, TakeKeeps DEF P
<1> QED
    BY <1>4, <1>5

LEMMA AnswerEvents ==
    ASSUME ChatInv, NEW r \in Requests,
           OnToken(r) \/ OnDone(r) \/ OnError(r) \/ Settle(r) \/ StreamRejects(r)
    PROVE  ChatInv'
<1> DEFINE P == page[Tab(r)]
<1>1. P \in Page /\ Tab(r) \in ChatTabs /\ BubblesOK(Tab(r))
    BY PageTyped
<1>2. wire[r] # <<>> /\ r \in Asks /\ r \notin History
    BY EventsOf, RequestShape DEF OnToken, OnDone, OnError, Settle, StreamRejects, Take
<1>3. /\ \A m \in P.shown : m.by = "done" => m.text = "full" /\ Replied(m.q) \in msgs
      /\ P.heard \in [Asks -> Texts] /\ P.shown \subseteq Bubble
      /\ P.streaming \in Stream \union {NoStream}
    BY <1>1 DEF BubblesOK, Page
<1>4. CASE OnToken(r)
    <2> DEFINE p == [P EXCEPT !.heard[r] = "full",
                              !.streaming = [q |-> r, text |-> "full"]]
               heard == [P.heard EXCEPT ![r] = "full"]
    <2>1. Take(r, "token", p)
        BY <1>4 DEF OnToken
    <2>2. /\ heard \in [Asks -> Texts] /\ heard[r] = "full"
          /\ \A s \in Asks : s # r => heard[s] = P.heard[s]
        BY <1>2, <1>3 DEF Texts
    <2>3. [q |-> r, text |-> "full"] \in Stream
        BY <1>2 DEF Stream, Texts
    <2>4. p = [P EXCEPT !.heard = heard, !.streaming = [q |-> r, text |-> "full"]]
        BY <1>1 DEF Page
    <2> HIDE DEF heard, P, p
    <2>5. /\ p \in Page /\ p.heard = heard
          /\ p.streaming = [q |-> r, text |-> "full"]
          /\ p.open = P.open /\ p.loaded = P.loaded /\ p.shown = P.shown
          /\ p.error = P.error /\ p.early = P.early /\ p.overlap = P.overlap
        BY <1>1, <2>2, <2>3, <2>4 DEF Page, P
    <2>6. TakesRight(r, "token", P, p)
        BY <1>2, <1>3, <2>2, <2>5 DEF TakesRight, Heard, Grows
    <2> QED
        BY <2>1, <2>5, <2>6, TakeKeeps DEF P
<1>5. CASE OnDone(r)
    <2> DEFINE m == [q |-> r, role |-> "assistant",
                     text |-> P.heard[r], by |-> "done"]
               p == [P EXCEPT !.shown = @ \union {m}, !.streaming = NoStream]
    <2>1. Take(r, "done", p)
        BY <1>5 DEF OnDone
    <2>2. Replied(r) \in msgs /\ P.heard[r] = "full"
        BY <1>2, <2>1, EventsOf DEF Take
    <2>3. m \in Bubble /\ m.q = r /\ m.role = "assistant" /\ m.text = "full"
        BY <1>2, <2>2 DEF Bubble, Roles, Texts
    <2> HIDE DEF m, P
    <2>4. /\ p \in Page /\ p.heard = P.heard /\ p.streaming = NoStream
          /\ p.open = P.open /\ p.loaded = P.loaded /\ p.shown = P.shown \union {m}
          /\ p.error = P.error /\ p.early = P.early /\ p.overlap = P.overlap
        BY <1>1, <2>3 DEF Page, P
    <2> HIDE DEF p
    <2>5. TakesRight(r, "done", P, p)
        BY <1>2, <1>3, <2>2, <2>3, <2>4 DEF TakesRight, Heard, Grows, ShowsIn, P
    <2> QED
        BY <2>1, <2>4, <2>5, TakeKeeps DEF P
<1>6. CASE OnError(r)
    <2> DEFINE p == [P EXCEPT !.error = TRUE, !.streaming = NoStream]
    <2>1. Take(r, "error", p)
        BY <1>6 DEF OnError
    <2> HIDE DEF P
    <2>2. /\ p \in Page /\ p.heard = P.heard /\ p.streaming = NoStream
          /\ p.open = P.open /\ p.loaded = P.loaded /\ p.shown = P.shown
          /\ p.error = TRUE /\ p.early = P.early /\ p.overlap = P.overlap
        BY <1>1 DEF Page, P
    <2> HIDE DEF p
    <2>3. TakesRight(r, "error", P, p)
        BY <1>2, <1>3, <2>2 DEF TakesRight, Heard, Grows, P
    <2> QED
        BY <2>1, <2>2, <2>3, TakeKeeps DEF P
<1>7. CASE Settle(r)
    <2> DEFINE m == [q |-> P.streaming.q, role |-> "assistant",
                     text |-> P.streaming.text, by |-> "settled"]
               new == IF P.streaming.text \in {"null", "empty"} THEN P.shown
                      ELSE P.shown \union {m}
               p == [P EXCEPT !.shown = new, !.streaming = NoStream]
    <2>1. Take(r, "end", p)
        BY <1>1, <1>7 DEF Settle, Page
    <2>2. P.streaming.text \in {"null", "empty"} \/ P.streaming \in Stream
        BY <1>3 DEF NoStream
    <2>3. P.streaming \in Stream => m \in Bubble
        BY DEF Stream, Bubble, Roles
    <2>4. new \subseteq Bubble /\ P.shown \subseteq new
        BY <1>3, <2>2, <2>3
    <2>5. \A k \in new : k.by = "done" => k \in P.shown
        OBVIOUS
    <2>6. \A s \in Asks : P.streaming = [q |-> s, text |-> "full"] =>
             \E k \in new : k.q = s /\ k.role = "assistant"
        <3> SUFFICES ASSUME NEW s \in Asks,
                            P.streaming = [q |-> s, text |-> "full"]
                     PROVE  m \in new /\ m.q = s /\ m.role = "assistant"
            OBVIOUS
        <3>1. P.streaming.q = s /\ P.streaming.text = "full"
            OBVIOUS
        <3> QED
            BY <3>1
    <2> HIDE DEF new, m, P
    <2>7. /\ p \in Page /\ p.heard = P.heard /\ p.streaming = NoStream
          /\ p.open = P.open /\ p.loaded = P.loaded /\ p.shown = new
          /\ p.error = P.error /\ p.early = P.early /\ p.overlap = P.overlap
        BY <1>1, <2>4 DEF Page, P
    <2> HIDE DEF p
    <2>8. TakesRight(r, "end", P, p)
        BY <1>2, <1>3, <2>4, <2>5, <2>6, <2>7
        DEF TakesRight, Heard, Grows, ShowsIn, P
    <2> QED
        BY <2>1, <2>7, <2>8, TakeKeeps DEF P
<1>8. CASE StreamRejects(r)
    <2>1. Take(r, "reject", P)
        BY <1>8 DEF StreamRejects
    <2>2. TakesRight(r, "reject", P, P)
        BY <1>2, <1>3 DEF TakesRight, Heard, Grows
    <2> HIDE DEF P
    <2> QED
        BY <1>1, <2>1, <2>2, TakeKeeps DEF P
<1> QED
    BY <1>4, <1>5, <1>6, <1>7, <1>8
-----------------------------------------------------------------------------
(* Pages that open and close, connections that break, and questions.       *)

LEMMA OpenChatShows ==
    ASSUME ChatInv, NEW t \in ChatTabs, OpenChat(t)
    PROVE  ChatInv'
<1> DEFINE h == <<t, 0>>
<1>1. ChatTypeOK /\ TranscriptInv' /\ HistoryOK(t) /\ h \in Requests /\ h \notin Asks
      /\ Tab(h) = t
    BY OpenChatKeeps, RequestShape DEF ChatInv
<1>2. page[t] = NewPage /\ \A r \in Requests : Tab(r) = t => req[r] = "none"
    BY <1>1 DEF HistoryOK, OpenChat
<1>3. /\ req' \in [Requests -> Phases] /\ req'[h] = "sent"
      /\ \A r \in Requests : r # h => req'[r] = req[r]
    BY <1>1 DEF OpenChat, Move, ChatTypeOK, Phases
<1>4. UNCHANGED <<usage, conv, msgs, snap, cut, cuts, wire>>
    BY DEF OpenChat
<1>5. /\ page' \in [ChatTabs -> Page] /\ page'[t].open = "open"
      /\ \A s \in ChatTabs : s # t => page'[s] = page[s]
      /\ page'[t].shown = page[t].shown /\ page'[t].loaded = page[t].loaded
      /\ page'[t].heard = page[t].heard
    <2>1. [page[t] EXCEPT !.open = "open"] \in Page
        BY <1>1 DEF ChatTypeOK, Page
    <2>2. page' = [page EXCEPT ![t] = [page[t] EXCEPT !.open = "open"]]
        BY <1>1 DEF OpenChat, ChatTypeOK
    <2>3. page[t] \in Page
        BY <1>1 DEF ChatTypeOK
    <2>4. page'[t] = [page[t] EXCEPT !.open = "open"]
        BY <1>1, <2>2 DEF ChatTypeOK
    <2> QED
        BY <1>1, <2>1, <2>2, <2>3, <2>4 DEF ChatTypeOK, Page
<1>6. ChatTypeOK'
    BY <1>1, <1>3, <1>4, <1>5 DEF ChatTypeOK
<1>7. ASSUME NEW s \in ChatTabs PROVE HistoryOK(s)' /\ BubblesOK(s)'
    <2>1. HistoryOK(s) /\ BubblesOK(s)
        BY DEF ChatInv
    <2>2. BubblesOK(s)'
        BY <1>4, <1>5, <2>1 DEF BubblesOK
    <2>3. CASE s = t
        <3>1. wire[h] = <<>> /\ h \notin cut /\ ~page[t].loaded
            <4>1. req[h] = "none"
                BY <1>1, <1>2
            <4>2. ~NewPage.loaded
                BY DEF NewPage
            <4> QED
                BY <1>1, <1>2, <4>1, <4>2 DEF HistoryOK
        <3> QED
            BY <1>3, <1>4, <1>5, <2>2, <2>3, <3>1 DEF HistoryOK
    <2>4. CASE s # t
        <3>1. Tab(<<s, 0>>) = s /\ <<s, 0>> \in Requests
            BY RequestShape
        <3>2. \A r \in Requests : Tab(r) = s => req'[r] = req[r]
            BY <1>1, <1>3, <2>4
        <3> QED
            BY <1>4, <1>5, <2>1, <2>2, <2>4, <3>1, <3>2 DEF HistoryOK
    <2> QED
        BY <2>3, <2>4
<1>8. ASSUME NEW r \in Asks
      PROVE  /\ WireOK(r)' /\ ShownOK(r)' /\ OrderOK(r)'
             /\ Alone(r)' /\ TraceOK(r)'
    <2>1. WireOK(r) /\ ShownOK(r) /\ OrderOK(r) /\ Alone(r) /\ TraceOK(r)
          /\ Tab(r) \in ChatTabs
        BY AskShape DEF ChatInv
    <2>2. \A q \in Asks : req'[q] = req[q] /\ q \in Requests
        BY <1>1, <1>3, AskShape
    <2>3. OrderOK(r)' /\ (Newest(r)' <=> Newest(r))
        BY <2>1, <2>2 DEF OrderOK, Older, Newest, Tab
    <2>4. \A q \in Asks : Answered(q)' <=> Answered(q)
        BY <1>4, <2>2 DEF Answered
    <2>5. CASE Tab(r) # t
        <3>1. page'[Tab(r)] = page[Tab(r)]
            BY <1>5, <2>1, <2>5
        <3> QED
            BY <1>4, <2>1, <2>2, <2>3, <2>4, <3>1
            DEF WireOK, ShownOK, Alone, TraceOK, Live, Older, Traced, Streams,
                Shows, Tab
    <2>6. CASE Tab(r) = t
        <3>1. req'[r] = "none" /\ wire[r] = <<>> /\ r \notin cut
              /\ page[Tab(r)].heard[r] = "empty"
            BY <1>2, <2>1, <2>2, <2>6 DEF WireOK
        <3>2. WireOK(r)'
            BY <1>4, <1>5, <2>6, <3>1
            DEF WireOK, AnswerOnWire, Live, Phases, Tab
        <3> QED
            BY <2>3, <3>1, <3>2 DEF ShownOK, Alone, TraceOK
    <2> QED
        BY <2>5, <2>6
<1> QED
    BY <1>1, <1>6, <1>7, <1>8 DEF ChatInv

LEMMA CloseChatShows ==
    ASSUME ChatInv, NEW t \in ChatTabs, CloseChat(t)
    PROVE  ChatInv'
<1> DEFINE p == [NewPage EXCEPT !.open = "closed"]
<1>1. ChatTypeOK /\ TranscriptInv
    BY DEF ChatInv
<1>2. /\ p \in Page /\ p.open = "closed" /\ p.shown = {}
      /\ p.heard = [q \in Asks |-> "empty"]
    BY DEF NewPage, Page, NoStream, Texts
<1> HIDE DEF p
<1>3. /\ page' \in [ChatTabs -> Page] /\ page'[t] = p
      /\ \A s \in ChatTabs : s # t => page'[s] = page[s]
    BY <1>1, <1>2 DEF CloseChat, ChatTypeOK, p
<1>4. /\ wire' \in [Requests -> Seq(Events)]
      /\ \A r \in Requests : wire'[r] = IF Tab(r) = t THEN <<>> ELSE wire[r]
    BY <1>1 DEF CloseChat, ChatTypeOK
<1>5. /\ cut' = cut \union {r \in Requests : Tab(r) = t /\ req[r] # "none"}
      /\ cuts' = cuts + 1 /\ cuts < MaxCuts
      /\ UNCHANGED <<usage, conv, msgs, req, snap>>
    BY DEF CloseChat
<1>6. ChatTypeOK' /\ TranscriptInv'
    <2>1. cuts' \in 0 .. MaxCuts
        BY <1>1, <1>5, ChatAssumption DEF ChatTypeOK
    <2> QED
        BY <1>1, <1>3, <1>4, <1>5, <2>1, StayKeeps DEF ChatTypeOK
<1>7. ASSUME NEW s \in ChatTabs PROVE HistoryOK(s)' /\ BubblesOK(s)'
    <2>1. HistoryOK(s) /\ BubblesOK(s) /\ <<s, 0>> \in Requests /\ Tab(<<s, 0>>) = s
        BY RequestShape DEF ChatInv
    <2>2. CASE s = t
        <3>1. wire'[<<s, 0>>] = <<>> /\ page'[s].open = "closed"
            BY <1>2, <1>3, <1>4, <2>1, <2>2
        <3>2. req[<<s, 0>>] = "none" => <<s, 0>> \notin cut'
            BY <1>5, <2>1 DEF HistoryOK
        <3>3. BubblesOK(s)'
            BY <1>2, <1>3, <2>2 DEF BubblesOK
        <3>4. <<>> # <<"rows">>
            OBVIOUS
        <3> QED
            BY <1>5, <3>1, <3>2, <3>3, <3>4 DEF HistoryOK
    <2>3. CASE s # t
        BY <1>3, <1>4, <1>5, <2>1, <2>3 DEF HistoryOK, BubblesOK
    <2> QED
        BY <2>2, <2>3
<1>8. ASSUME NEW r \in Asks
      PROVE  /\ WireOK(r)' /\ ShownOK(r)' /\ OrderOK(r)'
             /\ Alone(r)' /\ TraceOK(r)'
    <2>1. WireOK(r) /\ ShownOK(r) /\ OrderOK(r) /\ Alone(r) /\ TraceOK(r)
          /\ Tab(r) \in ChatTabs /\ r \in Requests
        BY AskShape DEF ChatInv
    <2>2. OrderOK(r)' /\ (Newest(r)' <=> Newest(r))
        BY <1>5, <2>1 DEF OrderOK, Older, Newest, Tab
    <2>3. CASE Tab(r) # t
        <3>1. page'[Tab(r)] = page[Tab(r)] /\ wire'[r] = wire[r]
              /\ (r \in cut' <=> r \in cut)
            BY <1>3, <1>4, <1>5, <2>1, <2>3
        <3>2. \A q \in Asks : Older(q, r) /\ Answered(q) => Answered(q)'
            BY <1>4, <1>5, <2>3, AskShape DEF Answered, Older
        <3> QED
            BY <1>5, <2>1, <2>2, <3>1, <3>2
            DEF WireOK, ShownOK, Alone, TraceOK, Live, Older, Traced, Streams,
                Shows, Tab
    <2>4. CASE Tab(r) = t
        <3>1. page'[Tab(r)] = p /\ wire'[r] = <<>> /\ ~Live(r)'
              /\ (r \notin cut' <=> r \notin cut /\ req[r] = "none")
            BY <1>2, <1>3, <1>4, <1>5, <2>1, <2>4 DEF Live, Tab
        <3>2. WireOK(r)'
            BY <1>2, <1>5, <2>1, <3>1 DEF WireOK, Tab
        <3> QED
            BY <1>2, <2>2, <3>1, <3>2 DEF ShownOK, Alone, TraceOK, Tab
    <2> QED
        BY <2>3, <2>4
<1> QED
    BY <1>6, <1>7, <1>8 DEF ChatInv

LEMMA DropShows ==
    ASSUME ChatInv, NEW r \in Requests, Drop(r)
    PROVE  ChatInv'
<1>1. ChatTypeOK /\ TranscriptInv
    BY DEF ChatInv
<1>2. /\ wire' \in [Requests -> Seq(Events)] /\ wire'[r] = <<"reject">>
      /\ \A s \in Requests : s # r => wire'[s] = wire[s]
    BY <1>1 DEF Drop, ChatTypeOK, Events
<1>3. /\ cut' = cut \union {r} /\ r \notin cut
      /\ cuts' = cuts + 1 /\ cuts < MaxCuts
      /\ UNCHANGED <<usage, conv, msgs, req, snap, page>>
      /\ req[r] \notin {"none", "ended"} \/ wire[r] # <<>>
    BY DEF Drop
<1>4. req[r] # "none"
    BY <1>3, WireShape
<1>5. ChatTypeOK' /\ TranscriptInv'
    <2>1. cuts' \in 0 .. MaxCuts
        BY <1>1, <1>3, ChatAssumption DEF ChatTypeOK
    <2> QED
        BY <1>1, <1>2, <1>3, <2>1, StayKeeps DEF ChatTypeOK
<1>6. ASSUME NEW t \in ChatTabs PROVE HistoryOK(t)' /\ BubblesOK(t)'
    <2>1. HistoryOK(t) /\ BubblesOK(t) /\ <<t, 0>> \in Requests /\ Tab(<<t, 0>>) = t
        BY RequestShape DEF ChatInv
    <2>2. BubblesOK(t)'
        BY <1>3, <2>1 DEF BubblesOK
    <2>3. CASE r # <<t, 0>>
        BY <1>2, <1>3, <2>1, <2>2, <2>3 DEF HistoryOK
    <2>4. CASE r = <<t, 0>>
        <3>1. ~(page[t].open = "open" /\ page[t].loaded) /\ page[t].open # "not yet"
            BY <1>3, <1>4, <2>1, <2>4 DEF HistoryOK
        <3>2. <<"reject">> # <<"rows">>
            OBVIOUS
        <3> QED
            BY <1>2, <1>3, <1>4, <2>2, <2>4, <3>1, <3>2 DEF HistoryOK
    <2> QED
        BY <2>2, <2>3, <2>4
<1>7. ASSUME NEW s \in Asks
      PROVE  /\ WireOK(s)' /\ ShownOK(s)' /\ OrderOK(s)'
             /\ Alone(s)' /\ TraceOK(s)'
    <2>1. WireOK(s) /\ ShownOK(s) /\ OrderOK(s) /\ Alone(s) /\ TraceOK(s)
          /\ Tab(s) \in ChatTabs /\ s \in Requests
        BY AskShape DEF ChatInv
    <2>2. OrderOK(s)' /\ (Newest(s)' <=> Newest(s))
        BY <1>3, <2>1 DEF OrderOK, Older, Newest, Tab
    <2>3. Alone(s)'
        <3>1. \A q \in Asks : Answered(q) => Answered(q)'
            BY <1>2, <1>3, AskShape DEF Answered
        <3> QED
            BY <1>3, <2>1, <3>1 DEF Alone, Live, Older, Tab
    <2>4. CASE s # r
        BY <1>2, <1>3, <2>1, <2>2, <2>3, <2>4
        DEF WireOK, ShownOK, TraceOK, Live, Traced, Streams, Shows, Tab
    <2>5. CASE s = r
        BY <1>2, <1>3, <1>4, <2>1, <2>2, <2>3, <2>5
        DEF WireOK, ShownOK, TraceOK, Live, Shows, Tab
    <2> QED
        BY <2>2, <2>3, <2>4, <2>5
<1> QED
    BY <1>5, <1>6, <1>7 DEF ChatInv

LEMMA SendShows ==
    ASSUME ChatInv, NEW t \in ChatTabs, send(t)
    PROVE  ChatInv'
<1> DEFINE P == page[t]
<1>1. /\ ChatTypeOK /\ TranscriptInv' /\ P \in Page
      /\ usage \in Usages
    BY SendKeeps DEF ChatInv, ChatTypeOK
<1>2. PICK n \in 1 .. usage.asks[t] :
        /\ P.open = "open" /\ req[<<t, n>>] = "none"
        /\ \A m \in 1 .. n - 1 : req[<<t, m>>] # "none"
        /\ page' = [page EXCEPT ![t] =
              Asking(P, <<t, n>>, \E m \in 1 .. n - 1 : ~Answered(<<t, m>>))]
        /\ Move(<<t, n>>, "sent")
        /\ UNCHANGED <<usage, conv, msgs, snap, cut, cuts, wire>>
    BY Zenon DEF send
<1> DEFINE q == <<t, n>>
           waits == \E m \in 1 .. n - 1 : ~Answered(<<t, m>>)
           p == Asking(P, q, waits)
           row == [q |-> q, role |-> "user", text |-> "full", by |-> "local"]
<1>3. q \in Asks /\ q \in Requests /\ Tab(q) = t /\ q[2] = n /\ n \in Nat
    <2> DEFINE S == {t} \X (1 .. usage.asks[t])
    <2>1. usage.asks[t] \in Nat
        BY <1>1, ChatAssumption DEF Usage
    <2>2. n \in Nat /\ q \in S
        BY <2>1
    <2>3. S \in {{s} \X (1 .. u.asks[s]) : s \in ChatTabs, u \in Usages}
        BY <1>1
    <2> HIDE DEF S, q
    <2>4. q \in Asks
        BY <2>2, <2>3 DEF Asks
    <2> QED
        BY <2>2, <2>4 DEF Requests, Tab, q
<1>4. /\ row \in Bubble /\ row.q = q /\ row.role = "user" /\ row.by = "local"
      /\ [q |-> q, text |-> "empty"] \in Stream
    BY <1>3 DEF Bubble, Stream, Roles, Texts
<1>5. p = [P EXCEPT !.shown = P.shown \union {row},
                    !.streaming = [q |-> q, text |-> "empty"],
                    !.error = FALSE,
                    !.early = IF P.loaded THEN P.early ELSE P.early \union {q},
                    !.overlap = IF waits THEN P.overlap \union {q} ELSE P.overlap]
    BY <1>1 DEF Asking, Page
<1> HIDE DEF row, P, waits, q
<1>6. /\ p \in Page /\ p.open = P.open /\ p.loaded = P.loaded
      /\ p.shown = P.shown \union {row} /\ p.heard = P.heard
      /\ \A s : s # q => (s \in p.early <=> s \in P.early)
                         /\ (s \in p.overlap <=> s \in P.overlap)
      /\ q \notin p.early => P.loaded
      /\ q \notin p.overlap => \A m \in 1 .. n - 1 : Answered(<<t, m>>)
    <2>1. /\ p.open = P.open /\ p.loaded = P.loaded
          /\ p.shown = P.shown \union {row} /\ p.heard = P.heard
          /\ p.early = IF P.loaded THEN P.early ELSE P.early \union {q}
          /\ p.overlap = IF waits THEN P.overlap \union {q} ELSE P.overlap
          /\ p.streaming = [q |-> q, text |-> "empty"] /\ p.error = FALSE
        BY <1>1, <1>5 DEF Page
    <2>2. p \in Page
        <3> DEFINE shown == P.shown \union {row}
                   early == IF P.loaded THEN P.early ELSE P.early \union {q}
                   over == IF waits THEN P.overlap \union {q} ELSE P.overlap
                   stream == [q |-> q, text |-> "empty"]
        <3>1. shown \subseteq Bubble /\ early \subseteq Asks /\ over \subseteq Asks
            BY <1>1, <1>3, <1>4 DEF Page
        <3>2. p = [P EXCEPT !.shown = shown, !.streaming = stream, !.error = FALSE,
                            !.early = early, !.overlap = over]
            BY <1>5
        <3>3. stream \in Stream
            BY <1>4
        <3> HIDE DEF p, shown, early, over, stream
        <3> QED
            BY <1>1, <3>1, <3>2, <3>3 DEF Page
    <2> QED
        BY <2>1, <2>2 DEF waits
<1> HIDE DEF p
<1>7. /\ page' \in [ChatTabs -> Page] /\ page'[t] = p
      /\ \A s \in ChatTabs : s # t => page'[s] = page[s]
    <2>1. page' = [page EXCEPT ![t] = p]
        BY <1>2 DEF p, waits, q
    <2> QED
        BY <1>1, <1>6, <2>1 DEF ChatTypeOK
<1>8. /\ req' \in [Requests -> Phases] /\ req'[q] = "sent" /\ req[q] = "none"
      /\ \A r \in Requests : r # q => req'[r] = req[r]
    BY <1>1, <1>2, <1>3 DEF Move, ChatTypeOK, Phases, q
<1>9. UNCHANGED <<usage, conv, msgs, snap, cut, cuts, wire>>
      /\ P.open = "open" /\ \A m \in 1 .. n - 1 : req[<<t, m>>] # "none"
    BY <1>2
<1>10. ChatTypeOK'
    BY <1>1, <1>7, <1>8, <1>9 DEF ChatTypeOK
<1>11. ASSUME NEW s \in ChatTabs PROVE HistoryOK(s)' /\ BubblesOK(s)'
    <2>1. /\ HistoryOK(s) /\ BubblesOK(s) /\ <<s, 0>> \in Requests
          /\ <<s, 0>> \notin Asks
        BY RequestShape DEF ChatInv
    <2>2. req'[<<s, 0>>] = req[<<s, 0>>]
        BY <1>3, <1>8, <2>1
    <2>3. CASE s = t
        BY <1>4, <1>6, <1>7, <1>9, <2>1, <2>2, <2>3 DEF HistoryOK, BubblesOK, P
    <2>4. CASE s # t
        BY <1>3, <1>7, <1>8, <1>9, <2>1, <2>2, <2>4 DEF HistoryOK, BubblesOK
    <2> QED
        BY <2>3, <2>4
\* The questions of the page that were sent are exactly the older ones.
<1>12. ASSUME NEW a \in Asks, Tab(a) = t, a # q
       PROVE  /\ Older(a, q) => \E m \in 1 .. n - 1 : a = <<t, m>>
              /\ req[a] # "none" => Older(a, q)
    <2>1. a = <<t, a[2]>> /\ a[2] \in Nat /\ a[2] >= 1 /\ OrderOK(a)
        BY <1>12, AskShape DEF ChatInv
    <2>2. a[2] # n
        BY <1>12, <2>1 DEF q
    <2>3. Older(a, q) => a[2] \in 1 .. n - 1
        BY <1>3, <2>1 DEF Older
    <2>4. req[a] # "none" => ~Older(q, a)
        BY <1>3, <1>8, <2>1 DEF OrderOK
    <2> QED
        BY <1>3, <1>12, <2>1, <2>2, <2>3, <2>4 DEF Older
<1>13. \A a \in Asks : Answered(a) => a # q /\ Answered(a)'
    <2>1. q \notin cut
        BY <1>3, <1>8 DEF ChatInv, WireOK
    <2> QED
        BY <1>8, <1>9, <2>1, AskShape DEF Answered
<1>14. ASSUME NEW s \in Asks, s # q
       PROVE  /\ WireOK(s)' /\ ShownOK(s)' /\ OrderOK(s)'
              /\ Alone(s)' /\ TraceOK(s)'
    <2>1. /\ WireOK(s) /\ ShownOK(s) /\ OrderOK(s) /\ Alone(s) /\ TraceOK(s)
          /\ Tab(s) \in ChatTabs /\ req'[s] = req[s]
        BY <1>8, <1>14, AskShape DEF ChatInv
    <2>2. OrderOK(s)'
        BY <1>8, <2>1, AskShape DEF OrderOK, Older, Tab
    <2>3. Newest(s)' => Newest(s)
        BY <1>8, AskShape DEF Newest, Older, Tab
    <2>4. CASE Tab(s) # t
        <3>1. page'[Tab(s)] = page[Tab(s)]
            BY <1>7, <2>1, <2>4
        <3>2. Alone(s)'
            BY <1>9, <1>13, <2>1, <3>1 DEF Alone, Live, Older, Tab
        <3> QED
            BY <1>9, <2>1, <2>2, <2>3, <3>1, <3>2
            DEF WireOK, ShownOK, TraceOK, Live, Traced, Streams, Shows, Tab
    <2>5. CASE Tab(s) = t
        <3>1. WireOK(s)'
            BY <1>6, <1>7, <1>9, <2>1, <2>5 DEF WireOK, Live, Tab, P
        <3>2. ShownOK(s)'
            BY <1>6, <1>7, <1>9, <1>14, <2>1, <2>5 DEF ShownOK, Shows, Tab, P
        <3>3. Alone(s)'
            BY <1>6, <1>7, <1>9, <1>13, <1>14, <2>1, <2>5
            DEF Alone, Live, Older, Tab, P
        <3>4. TraceOK(s)'
            <4>1. req[s] = "none" \/ ~Newest(s)'
                <5>1. req[s] # "none" => Older(s, q)
                    BY <1>12, <1>14, <2>5
                <5>2. Newest(s)' => ~Older(s, q)
                    BY <1>3, <1>8 DEF Newest, Older, Tab
                <5> QED
                    BY <5>1, <5>2
            <4> QED
                BY <2>1, <4>1 DEF TraceOK
        <3> QED
            BY <2>2, <3>1, <3>2, <3>3, <3>4
    <2> QED
        BY <2>4, <2>5
<1>15. /\ WireOK(q)' /\ ShownOK(q)' /\ OrderOK(q)'
       /\ Alone(q)' /\ TraceOK(q)'
    <2>1. WireOK(q)'
        <3>1. wire[q] = <<>> /\ q \notin cut /\ P.heard[q] = "empty"
            BY <1>3, <1>8 DEF ChatInv, WireOK, P
        <3> QED
            BY <1>3, <1>6, <1>7, <1>8, <1>9, <3>1
            DEF WireOK, AnswerOnWire, Live, Phases, Tab
    <2>2. ShownOK(q)'
        <3>1. row \in page'[t].shown /\ Tab(q)' = t
            BY <1>3, <1>6, <1>7 DEF Tab
        <3>2. Shows(Tab(q), q, "user")'
            BY <1>4, <3>1 DEF Shows
        <3> QED
            BY <1>6, <1>7, <1>8, <3>1, <3>2 DEF ShownOK
    <2>3. OrderOK(q)'
        <3> SUFFICES ASSUME NEW a \in Asks, Older(a, q) PROVE req'[a] # "none"
            BY DEF OrderOK, Older, Tab
        <3>1. Tab(a) = t /\ a # q
            BY <1>3 DEF Older
        <3> QED
            BY <1>8, <1>9, <1>12, <3>1, AskShape
    <2>4. Alone(q)'
        <3> SUFFICES ASSUME q \notin p.overlap, NEW a \in Asks, Older(a, q)
                     PROVE  Answered(a)'
            BY <1>3, <1>7 DEF Alone, Older, Tab
        <3>1. Tab(a) = t /\ a # q
            BY <1>3 DEF Older
        <3>2. Answered(a)
            BY <1>6, <1>12, <3>1
        <3> QED
            BY <1>13, <3>2
    <2>5. TraceOK(q)'
        BY <1>8 DEF TraceOK
    <2> QED
        BY <2>1, <2>2, <2>3, <2>4, <2>5
<1> QED
    BY <1>1, <1>10, <1>11, <1>14, <1>15, TranscriptInvStep DEF ChatInv
-----------------------------------------------------------------------------
LEMMA ChatInvInit == ChatInit => ChatInv
<1> SUFFICES ASSUME ChatInit PROVE ChatInv
    OBVIOUS
<1>1. /\ NewPage \in Page /\ NewPage.open = "not yet" /\ NewPage.shown = {}
      /\ ~NewPage.loaded /\ NewPage.heard = [q \in Asks |-> "empty"]
    BY DEF NewPage, Page, NoStream, Texts
<1>2. ChatTypeOK /\ TranscriptInv
    <2>1. <<>> \in Seq(Events)
        OBVIOUS
    <2>2. wire \in [Requests -> Seq(Events)]
        BY <2>1 DEF ChatInit
    <2>3. req \in [Requests -> Phases]
        BY DEF ChatInit, Phases
    <2>4. page \in [ChatTabs -> Page]
        BY <1>1 DEF ChatInit
    <2>5. snap \in [ChatTabs -> SUBSET Message]
        BY DEF ChatInit
    <2>6. cuts \in 0 .. MaxCuts
        BY ChatAssumption DEF ChatInit
    <2>7. /\ usage \in Usages /\ conv \in BOOLEAN
          /\ msgs \subseteq Message /\ cut \subseteq Requests
        BY DEF ChatInit
    <2> QED
        BY <2>2, <2>3, <2>4, <2>5, <2>6, <2>7, TranscriptInvInit DEF ChatTypeOK
<1>3. ASSUME NEW t \in ChatTabs PROVE HistoryOK(t) /\ BubblesOK(t)
    <2>1. <<t, 0>> \in Requests
        BY RequestShape
    <2>2. <<>> # <<"rows">>
        OBVIOUS
    <2> HIDE DEF NewPage
    <2> QED
        BY <1>1, <2>1, <2>2 DEF ChatInit, HistoryOK, BubblesOK
<1>4. ASSUME NEW r \in Asks
      PROVE  WireOK(r) /\ ShownOK(r) /\ OrderOK(r) /\ Alone(r) /\ TraceOK(r)
    <2>1. /\ r \in Requests /\ Tab(r) \in ChatTabs /\ req[r] = "none"
          /\ wire[r] = <<>> /\ page[Tab(r)] = NewPage /\ cut = {}
        BY AskShape DEF ChatInit
    <2> QED
        BY <1>1, <2>1
        DEF WireOK, ShownOK, OrderOK, Alone, TraceOK, Live, Phases
<1> QED
    BY <1>2, <1>3, <1>4 DEF ChatInv

LEMMA ChatInvStep == ChatInv /\ [ChatNext]_chatVars => ChatInv'
<1> SUFFICES ASSUME ChatInv, [ChatNext]_chatVars PROVE ChatInv'
    OBVIOUS
<1>1. ASSUME NEW r \in Requests, ServerStep(r) \/ PageStep(r) \/ Drop(r)
      PROVE  ChatInv'
    BY <1>1, ServerKeeps, HistoryEvents, AnswerEvents, DropShows DEF PageStep
<1>2. CASE UNCHANGED chatVars
    <2>1. UNCHANGED chatVars /\ ChatTypeOK /\ TranscriptInv
        BY <1>2 DEF ChatInv
    <2>2. ChatTypeOK' /\ TranscriptInv'
        BY <2>1, TranscriptInvStep DEF ChatTypeOK, chatVars
    <2>3. ASSUME NEW t \in ChatTabs PROVE HistoryOK(t)' /\ BubblesOK(t)'
        BY <2>1 DEF ChatInv, HistoryOK, BubblesOK, chatVars
    <2>4. ASSUME NEW r \in Asks
          PROVE  /\ WireOK(r)' /\ ShownOK(r)' /\ OrderOK(r)' /\ Alone(r)'
                 /\ TraceOK(r)'
        <3>1. WireOK(r)'
            BY <2>1 DEF ChatInv, WireOK, Live, chatVars
        <3>2. ShownOK(r)'
            BY <2>1 DEF ChatInv, ShownOK, Shows, Live, chatVars
        <3>3. OrderOK(r)'
            BY <2>1 DEF ChatInv, OrderOK, chatVars
        <3>4. Alone(r)'
            <4>1. /\ Alone(r) /\ req' = req /\ wire' = wire /\ cut' = cut
                  /\ page' = page
                BY <2>1 DEF ChatInv, chatVars
            <4>2. ASSUME NEW q \in Asks PROVE Answered(q)' <=> Answered(q)
                BY <4>1 DEF Answered
            <4>3. ASSUME NEW q \in Asks PROVE Older(q, r)' <=> Older(q, r)
                BY DEF Older, Tab
            <4>4. /\ (Live(r)' <=> Live(r))
                  /\ (r \notin page[Tab(r)].overlap)'
                        <=> r \notin page[Tab(r)].overlap
                BY <4>1 DEF Live, Tab
            <4> QED
                BY <4>1, <4>2, <4>3, <4>4 DEF Alone
        <3>5. TraceOK(r)'
            BY <2>1
            DEF ChatInv, TraceOK, Live, Newest, Traced, Shows, Streams, chatVars
        <3> QED
            BY <3>1, <3>2, <3>3, <3>4, <3>5
    <2> QED
        BY <2>2, <2>3, <2>4 DEF ChatInv
<1> QED
    BY <1>1, <1>2, OpenChatShows, CloseChatShows, SendShows DEF ChatNext, ChatRest

LEMMA ChatInvariant == ChatSpec => []ChatInv
BY ChatInvInit, ChatInvStep, PTL DEF ChatSpec

\* Whatever streams run at once, a done event stands for a whole answer that is
\* committed (chat.py commits before it yields done).
THEOREM DoneIsSaved == ChatSpec => []DoneMeansSaved
<1>1. ChatInv => DoneMeansSaved
    BY DEF ChatInv, BubblesOK, DoneMeansSaved, Replied
<1> QED
    BY <1>1, ChatInvariant, PTL

\* What a page has settled on is what a reload would show.
THEOREM ViewIsTranscript == ChatSpec => []ViewMatchesTranscript
<1>1. ASSUME ChatInv, NEW r \in Asks, Settled(r), r \notin page[Tab(r)].early
      PROVE  /\ Shows(Tab(r), r, "user")
             /\ Replied(r) \in msgs => Shows(Tab(r), r, "assistant")
    BY <1>1 DEF ChatInv, ShownOK, Settled
<1>2. ChatInv => ViewMatchesTranscript
    BY <1>1 DEF ViewMatchesTranscript, Replied
<1> QED
    BY <1>2, ChatInvariant, PTL

\* A question that has no answer shows that it failed, until the next one.
THEOREM FailuresShow == ChatSpec => []NoSilentFailure
<1>1. ASSUME ChatInv, NEW r \in Asks, Settled(r),
             r \notin page[Tab(r)].early \union page[Tab(r)].overlap,
             Replied(r) \notin msgs
      PROVE  \/ page[Tab(r)].error
             \/ Shows(Tab(r), r, "assistant")
             \/ \E q \in Sent : Tab(q) = Tab(r) /\ q[2] > r[2]
    <2>1. CASE Newest(r)
        BY <1>1, <2>1 DEF ChatInv, TraceOK, Settled, Live, Traced
    <2>2. CASE ~Newest(r)
        <3>1. PICK q \in Asks : req[q] # "none" /\ Tab(r) = Tab(q) /\ r[2] < q[2]
            BY <2>2 DEF Newest, Older
        <3> QED
            BY <3>1, AskShape DEF Sent
    <2> QED
        BY <2>1, <2>2
<1>2. ChatInv => NoSilentFailure
    BY <1>1 DEF NoSilentFailure, Replied
<1> QED
    BY <1>2, ChatInvariant, PTL

\* The endpoints and the pages keep the types of their variables.
THEOREM ChatTypeCorrect == ChatSpec => []ChatTypeOK
<1>1. ChatInv => ChatTypeOK
    BY DEF ChatInv
<1> QED
    BY <1>1, ChatInvariant, PTL
=============================================================================
