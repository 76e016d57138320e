---------------------------- MODULE ChatSession ----------------------------
(***************************************************************************)
(* The chat about one log file: the browser's chat pages, the two chat     *)
(* endpoints, the conversation in the database and the event stream that   *)
(* carries an answer.  Tabs are chat pages of one user; a page that is     *)
(* reloaded is another tab.  Request <<t, 0>> loads the history of tab t,  *)
(* request <<t, n>> is its n-th question.                                  *)
(***************************************************************************)
EXTENDS Naturals, Sequences

CONSTANTS
    ChatTabs,   \* chat pages that may be opened
    Usages,     \* what users may do: see Usage
    MaxCuts     \* connections dropped and pages closed at most

\* asks[t] is how many questions page t sends at most, and it is opened only if
\* that is not 0; pages in shaky may be closed and lose connections, if lossy.
Usage == [asks : [ChatTabs -> Nat], shaky : SUBSET ChatTabs, lossy : BOOLEAN]

ASSUME ChatAssumption == Usages \subseteq Usage /\ MaxCuts \in Nat

VARIABLES
    usage,      \* the usage that is played
    conv,       \* whether the row of conversations is committed
    msgs,       \* committed rows of messages
    req,        \* where the server stands with each request
    snap,       \* rows each tab's history request has read
    cut,        \* requests whose connection is gone
    cuts,       \* how often one was dropped or a page closed
    wire,       \* events on their way to the page, per request
    page        \* state of each page's component

chatVars == <<usage, conv, msgs, req, snap, cut, cuts, wire, page>>
-----------------------------------------------------------------------------
History == {<<t, 0>> : t \in ChatTabs}
Asks == UNION {{t} \X (1 .. u.asks[t]) : t \in ChatTabs, u \in Usages}
Requests == History \union Asks
Tab(r) == r[1]

Roles == {"user", "assistant"}
Message == [q : Asks, role : Roles]
\* What a string holds of an answer: nothing yet, or all of it.
Texts == {"empty", "full"}
\* A bubble, and what put it there: the send handler, the loaded history, a
\* done event, or the end of a stream that had shown tokens.
Bubble == [q : Asks, role : Roles, text : Texts,
           by : {"local", "server", "done", "settled"}]
NoStream == [q |-> <<>>, text |-> "null"]
Stream == [q : Asks, text : Texts]
Phases == {"none", "sent", "found", "missing", "inserted", "asked",
           "full", "ended"}
Events == {"rows", "token", "done", "error", "end", "reject"}
\* heard is the local variable "answer" of each send handler.  Two histories:
\* early has the questions sent before the history of the page had arrived,
\* overlap those sent while an earlier one of the page was being answered.
Page == [open : {"not yet", "open", "closed"}, loaded : BOOLEAN,
         shown : SUBSET Bubble, streaming : Stream \union {NoStream},
         heard : [Asks -> Texts], error : BOOLEAN,
         early : SUBSET Asks, overlap : SUBSET Asks]
NewPage == [open |-> "not yet", loaded |-> FALSE, shown |-> {},
            streaming |-> NoStream, heard |-> [q \in Asks |-> "empty"],
            error |-> FALSE, early |-> {}, overlap |-> {}]

Sent == {r \in Asks : req[r] # "none"}

ChatInit ==
    /\ usage \in Usages
    /\ conv = FALSE
    /\ msgs = {}
    /\ req = [r \in Requests |-> "none"]
    /\ snap = [t \in ChatTabs |-> {}]
    /\ cut = {}
    /\ cuts = 0
    /\ wire = [r \in Requests |-> <<>>]
    /\ page = [t \in ChatTabs |-> NewPage]
-----------------------------------------------------------------------------
(* The endpoints. *)

Move(r, phase) == req' = [req EXCEPT ![r] = phase]

\* What the server writes to a connection that is gone is lost.
Write(r, events) ==
    wire' = IF r \in cut THEN wire ELSE [wire EXCEPT ![r] = @ \o events]

\* A response that is not ok: chatStream reports an error event and returns,
\* the history request rejects and its error is ignored.
Refused(r) == IF r \in History THEN <<"reject">> ELSE <<"error", "end">>

LookupConv(r) ==
    /\ req[r] = "sent"
    /\ Move(r, IF conv THEN "found" ELSE "missing")
    /\ UNCHANGED <<usage, conv, msgs, snap, cut, cuts, wire, page>>

\* The flush of a new conversation waits for another session's uncommitted
\* insert of the same key.
InsertConv(r) ==
    /\ req[r] = "missing"
    /\ ~conv
    /\ \A s \in Requests : req[s] # "inserted"
    /\ Move(r, "inserted")
    /\ UNCHANGED <<usage, conv, msgs, snap, cut, cuts, wire, page>>

\* The request ends before anything of it is committed: the unique key of a
\* conversation committed meanwhile, a failing statement, or a refusal (401,
\* 404, 429, 503) before the session has written.
RequestFails(r) ==
    /\ req[r] \in {"sent", "found", "missing", "inserted"}
    /\ Move(r, "ended")
    /\ Write(r, Refused(r))
    /\ UNCHANGED <<usage, conv, msgs, snap, cut, cuts, page>>

chat_history(r) ==
    /\ r \in History
    /\ req[r] \in {"found", "inserted"}
    /\ snap' = [snap EXCEPT ![Tab(r)] = msgs]
    /\ conv' = TRUE
    /\ Move(r, "ended")
    /\ Write(r, <<"rows">>)
    /\ UNCHANGED <<usage, msgs, cut, cuts, page>>

MutCommitQuestion(r) ==  \* Mutant: the stream starts without the commit.
    /\ r \in Asks
    /\ req[r] \in {"found", "inserted"}
    /\ Move(r, "asked")
    /\ UNCHANGED <<usage, conv, msgs, snap, cut, cuts, wire, page>>

\* The commit before the stream starts.
CommitQuestion(r) ==
    /\ r \in Asks
    /\ req[r] \in {"found", "inserted"}
    /\ msgs' = msgs \union {[q |-> r, role |-> "user"]}
    /\ conv' = TRUE
    /\ Move(r, "asked")
    /\ UNCHANGED <<usage, snap, cut, cuts, wire, page>>

\* The tokens of the answer, or the refusal, which is one token.
StreamAnswer(r) ==
    /\ req[r] = "asked"
    /\ Move(r, "full")
    /\ Write(r, <<"token">>)
    /\ UNCHANGED <<usage, conv, msgs, snap, cut, cuts, page>>

\* Retrieval or the provider raises: an error event ends the stream.
StreamBreaks(r) ==
    /\ req[r] \in {"asked", "full"}
    /\ Move(r, "ended")
    /\ Write(r, <<"error", "end">>)
    /\ UNCHANGED <<usage, conv, msgs, snap, cut, cuts, page>>

MutFinish(r) ==  \* Mutant: done is sent before the commit, which then fails.
    /\ req[r] = "full"
    /\ Move(r, "ended")
    /\ Write(r, <<"done", "end">>)
    /\ UNCHANGED <<usage, conv, msgs, snap, cut, cuts, page>>

\* The answer is committed, then done is sent.
Finish(r) ==
    /\ req[r] = "full"
    /\ msgs' = msgs \union {[q |-> r, role |-> "assistant"]}
    /\ Move(r, "ended")
    /\ Write(r, <<"done", "end">>)
    /\ UNCHANGED <<usage, conv, snap, cut, cuts, page>>

\* The last commit is outside the try block: its failure aborts the response,
\* which the proxy turns into an end of the stream.
SaveFails(r) ==
    /\ req[r] = "full"
    /\ Move(r, "ended")
    /\ Write(r, <<"end">>)
    /\ UNCHANGED <<usage, conv, msgs, snap, cut, cuts, page>>

\* The server notices that the client is gone and cancels the generator,
\* which "except Exception" does not catch.
Cancelled(r) ==
    /\ r \in cut
    /\ req[r] \in {"asked", "full"}
    /\ Move(r, "ended")
    /\ UNCHANGED <<usage, conv, msgs, snap, cut, cuts, wire, page>>

ServerStep(r) ==
    \/ LookupConv(r) \/ InsertConv(r) \/ RequestFails(r) \/ chat_history(r)
    \/ CommitQuestion(r) \/ StreamAnswer(r) \/ StreamBreaks(r)
    \/ Finish(r) \/ SaveFails(r) \/ Cancelled(r)
-----------------------------------------------------------------------------
(* The page and the network. *)

OpenChat(t) ==
    /\ page[t].open = "not yet"
    /\ usage.asks[t] > 0
    /\ page' = [page EXCEPT ![t].open = "open"]
    /\ Move(<<t, 0>>, "sent")
    /\ UNCHANGED <<usage, conv, msgs, snap, cut, cuts, wire>>

CloseChat(t) ==
    /\ page[t].open = "open"
    /\ t \in usage.shaky
    /\ cuts < MaxCuts
    /\ cuts' = cuts + 1
    /\ page' = [page EXCEPT ![t] = [NewPage EXCEPT !.open = "closed"]]
    /\ cut' = cut \union {r \in Requests : Tab(r) = t /\ req[r] # "none"}
    /\ wire' = [r \in Requests |-> IF Tab(r) = t THEN <<>> ELSE wire[r]]
    /\ UNCHANGED <<usage, conv, msgs, req, snap>>

\* A connection breaks: what the page has not read yet is lost.
Drop(r) ==
    /\ usage.lossy
    /\ Tab(r) \in usage.shaky
    /\ cuts < MaxCuts
    /\ cuts' = cuts + 1
    /\ r \notin cut
    /\ req[r] \notin {"none", "ended"} \/ wire[r] # <<>>
    /\ cut' = cut \union {r}
    /\ wire' = [wire EXCEPT ![r] = <<"reject">>]
    /\ UNCHANGED <<usage, conv, msgs, req, snap, page>>

\* The page has its answer or error, or will hear no more of it.
Answered(q) ==
    q \in cut \/ (req[q] = "ended" /\ wire[q] \in {<<>>, <<"end">>})

\* The page p with the new question q, sent while the page waited or not.
Asking(p, q, waits) ==
    [p EXCEPT !.shown = @ \union {[q |-> q, role |-> "user",
                                   text |-> "full", by |-> "local"]},
              !.streaming = [q |-> q, text |-> "empty"],
              !.error = FALSE,
              !.early = IF p.loaded THEN @ ELSE @ \union {q},
              !.overlap = IF waits THEN @ \union {q} ELSE @]

\* The end of an earlier stream gives the input back, so that a question may be
\* sent while another one is being answered.
send(t) ==
    \E n \in 1 .. usage.asks[t] :
        LET q == <<t, n>>
            waits == \E m \in 1 .. n - 1 : ~Answered(<<t, m>>)
        IN
        /\ page[t].open = "open"
        /\ page[t].streaming = NoStream
        /\ req[q] = "none"
        /\ \A m \in 1 .. n - 1 : req[<<t, m>>] # "none"
        /\ page' = [page EXCEPT ![t] = Asking(page[t], q, waits)]
        /\ Move(q, "sent")
        /\ UNCHANGED <<usage, conv, msgs, snap, cut, cuts, wire>>

\* The page takes the next event of request r and becomes p.
Take(r, event, p) ==
    /\ wire[r] # <<>>
    /\ Head(wire[r]) = event
    /\ wire' = [wire EXCEPT ![r] = Tail(@)]
    /\ page' = [page EXCEPT ![Tab(r)] = p]
    /\ UNCHANGED <<usage, conv, msgs, req, snap, cut, cuts>>

\* The loaded history replaces whatever the page shows.
LoadHistory(r) ==
    Take(r, "rows",
         [page[Tab(r)] EXCEPT !.loaded = TRUE,
                              !.shown = {[q |-> m.q, role |-> m.role,
                                          text |-> "full", by |-> "server"]
                                         : m \in snap[Tab(r)]}])

HistoryFails(r) ==
    r \in History /\ Take(r, "reject", [page[Tab(r)] EXCEPT !.loaded = TRUE])

OnToken(r) ==
    Take(r, "token",
         [page[Tab(r)] EXCEPT !.heard[r] = "full",
                              !.streaming = [q |-> r, text |-> "full"]])

MutOnDone(r) ==  \* Mutant: nothing is added for the answer.
    Take(r, "done", [page[Tab(r)] EXCEPT !.streaming = NoStream])

MutOnDoneText(r) ==  \* Mutant: the text is the component's, not the handler's.
    LET p == page[Tab(r)] IN
    Take(r, "done",
         [p EXCEPT !.shown = @ \union {[q |-> r, role |-> "assistant",
                                        text |-> p.streaming.text,
                                        by |-> "done"]},
                   !.streaming = NoStream])

OnDone(r) ==
    LET p == page[Tab(r)] IN
    Take(r, "done",
         [p EXCEPT !.shown = @ \union {[q |-> r, role |-> "assistant",
                                        text |-> p.heard[r], by |-> "done"]},
                   !.streaming = NoStream])

MutOnError(r) ==  \* Mutant: the error event is treated like an end.
    Take(r, "error", [page[Tab(r)] EXCEPT !.streaming = NoStream])

OnError(r) ==
    Take(r, "error", [page[Tab(r)] EXCEPT !.error = TRUE,
                                          !.streaming = NoStream])

MutSettle(r) ==  \* Mutant: nothing settles after the stream.
    Take(r, "end", page[Tab(r)])

\* chatStream returns: what is still streaming, of whichever question, becomes
\* a message.
Settle(r) ==
    LET p == page[Tab(r)] IN
    Take(r, "end",
         [p EXCEPT !.shown = IF p.streaming.text \in {"null", "empty"} THEN @
                             ELSE @ \union {[q |-> p.streaming.q,
                                             role |-> "assistant",
                                             text |-> p.streaming.text,
                                             by |-> "settled"]},
                   !.streaming = NoStream])

\* chatStream rejects, and nothing in send catches it.
StreamRejects(r) == r \in Asks /\ Take(r, "reject", page[Tab(r)])

PageStep(r) ==
    \/ LoadHistory(r) \/ HistoryFails(r) \/ OnToken(r) \/ OnDone(r) 
    \/ OnError(r) \/ Settle(r) \/ StreamRejects(r)

\* Nobody is left to act.
ChatRest ==
    /\ \A t \in ChatTabs : page[t].open = "not yet" => usage.asks[t] = 0
    /\ \A r \in Requests : wire[r] = <<>> /\ req[r] \in {"none", "ended"}
    /\ UNCHANGED chatVars

ChatNext ==
    \/ \E r \in Requests : ServerStep(r) \/ PageStep(r) \/ Drop(r)
    \/ \E t \in ChatTabs : OpenChat(t) \/ CloseChat(t) \/ send(t)
    \/ ChatRest

ChatSpec == ChatInit /\ [][ChatNext]_chatVars

\* The event loops of server and browser run, the database answers, and a
\* provider's stream ends by itself or by its timeout.
ChatFairness ==
    \A r \in Requests : WF_chatVars(ServerStep(r)) /\ WF_chatVars(PageStep(r))

ChatFairSpec == ChatSpec /\ ChatFairness
-----------------------------------------------------------------------------
(* Properties. *)

\* Types of all variables.
ChatTypeOK ==
    /\ usage \in Usages /\ conv \in BOOLEAN
    /\ msgs \subseteq Message
    /\ req \in [Requests -> Phases]
    /\ snap \in [ChatTabs -> SUBSET Message]
    /\ cut \subseteq Requests /\ cuts \in 0 .. MaxCuts
    /\ wire \in [Requests -> Seq(Events)]
    /\ page \in [ChatTabs -> Page]

\* An answer the page shows because of a done event is the whole answer, and
\* its row is committed: chat.py commits before it yields done, and each send
\* collects its own tokens, so that neither a second question nor the end of
\* an earlier stream mixes into it.
DoneMeansSaved ==
    \A t \in ChatTabs : \A m \in page[t].shown :
        m.by = "done" =>
            m.text = "full" /\ [q |-> m.q, role |-> "assistant"] \in msgs

\* The page has read everything the server sent about r, over a connection
\* that held.
Settled(r) == /\ page[Tab(r)].open = "open"
              /\ req[r] = "ended" /\ wire[r] = <<>> /\ r \notin cut

Shows(t, q, role) == \E m \in page[t].shown : m.q = q /\ m.role = role

\* Once a question has run its course, the page shows the question and, if an
\* answer was saved, the answer - as a reload would.  Questions sent before
\* the history had arrived are excepted: the history replaces the list.
ViewMatchesTranscript ==
    \A r \in Asks :
        Settled(r) /\ r \notin page[Tab(r)].early =>
            /\ Shows(Tab(r), r, "user")
            /\ [q |-> r, role |-> "assistant"] \in msgs
                  => Shows(Tab(r), r, "assistant")

\* A question that ends without a saved answer leaves a trace on its page: the
\* error, or the tokens that had arrived; only a newer question clears the
\* error.  This includes the question that lost the race for the conversation.
\* Excepted are questions sent while another one was being answered: the two
\* streams write over each other's tokens (Chat.tsx:46, 63).
NoSilentFailure ==
    \A r \in Asks :
        /\ Settled(r) /\ r \notin page[Tab(r)].early \union page[Tab(r)].overlap
        /\ [q |-> r, role |-> "assistant"] \notin msgs
        => \/ page[Tab(r)].error
           \/ Shows(Tab(r), r, "assistant")
           \/ \E q \in Sent : Tab(q) = Tab(r) /\ q[2] > r[2]

\* The saved conversation is the promised one: nothing is lost or changed when
\* streams break, clients leave or two tabs create the conversation at once.
Saved(role) == {m.q : m \in {k \in msgs : k.role = role}}
Promise == INSTANCE Transcript WITH
    Questions <- Asks, opened <- conv,
    asked <- Saved("user"), answered <- Saved("assistant")
ImplementsTranscript == Promise!TranscriptSpec

\* Every page accepts a next question again after the questions asked so far,
\* whatever the server does with them, as long as connections hold.
AllIdle == \A t \in ChatTabs : page[t].streaming = NoStream
InputReturnsOnline == ~usage.lossy => []<>AllIdle

\* The same when connections break ("settle the UI either way", Chat.tsx:61).
InputReturns == []<>AllIdle
=============================================================================
