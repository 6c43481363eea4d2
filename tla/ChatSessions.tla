---------------------------- MODULE ChatSessions ----------------------------
(***************************************************************************)
(* Chat sessions and their messages: POST /chat and the WebSocket stream   *)
(* (api/routers/chat.py), reading, export and feedback                     *)
(* (api/routers/sessions.py, api/routers/export.py) and the history that   *)
(* goes into a prompt (generation/memory.py, generation/prompt.py).        *)
(*                                                                         *)
(* The two messages of an exchange are inserted by one transaction and     *)
(* created_at is its NOW(): they are ordered after the older exchanges,    *)
(* and not among themselves.  So a session is a sequence of rows as they   *)
(* were inserted, and a history may have any exchange the other way round. *)
(* The best-effort query log is left out: only the dashboards read it.     *)
(***************************************************************************)
EXTENDS Naturals, Sequences, Functions

CONSTANTS
    Callers,        \* authenticated users, one per tenant and user id
    CallerTenant,   \* their tenants
    CallerId,       \* users.id; in development an email, whatever the tenant
    CallerAdmins,
    Sessions,
    Streams,        \* WebSocket connections
    HistoryLimit,   \* HISTORY_LIMIT
    Threshold,      \* SUMMARIZE_THRESHOLD
    KeepRecent,     \* KEEP_RECENT
    MaxTurns,       \* MAX_HISTORY_TURNS
    MaxQuestions    \* bound: questions asked in all sessions

ASSUME ChatAssumption ==
    /\ {HistoryLimit, Threshold, KeepRecent, MaxTurns} \subseteq Nat
    /\ MaxQuestions \in Nat
    /\ HistoryLimit <= 2 * MaxTurns /\ KeepRecent < 2 * MaxTurns
    /\ KeepRecent <= Threshold
    /\ HistoryLimit % 2 = 0 /\ KeepRecent % 2 = 0
    /\ \A c, d \in Callers :
        CallerTenant[c] = CallerTenant[d] /\ CallerId[c] = CallerId[d] => c = d

VARIABLES
    owner,      \* sessions.tenant_id and user_id
    talk,       \* messages of a session as inserted, two in a transaction
    streaming,  \* the question that each connection is answering
    asked,      \* number of questions so far
    prompt,     \* history in the prompt that the last step gave to the model
    shown,      \* what the last step read for somebody
    marks       \* messages.feedback, with who gave it

chatVars == <<owner, talk, streaming, asked, prompt, shown, marks>>

NoOwner == <<>>
NoSession == "no session"
Silent == [number |-> 0]
NoText == [by |-> "nobody", session |-> NoSession]

Key(c) == <<CallerTenant[c], CallerId[c]>>
Row(n, role, c) == [number |-> n, role |-> role, by |-> c]
Exchange(n, c) == <<Row(n, "user", c), Row(n, "assistant", c)>>
RowsOf(s) == Range(talk[s])

ChatInit ==
    /\ owner = [s \in Sessions |-> NoOwner]
    /\ talk = [s \in Sessions |-> <<>>]
    /\ streaming = [r \in Streams |-> Silent]
    /\ asked = 0
    /\ prompt = NoText /\ shown = NoText
    /\ marks = {}

-----------------------------------------------------------------------------
Latest(q, k) == SubSeq(q, IF Len(q) > k THEN Len(q) - k + 1 ELSE 1, Len(q))

Turned(row) ==
    [row EXCEPT !.role = IF @ = "user" THEN "assistant" ELSE "user"]

Answered(s) == {row.number : row \in {x \in RowsOf(s) : x.role = "assistant"}}

\* ORDER BY created_at: the two rows of a transaction come in any order.
Orders(s) ==
    {[i \in DOMAIN talk[s] |-> IF talk[s][i].number \in turned
                                 THEN Turned(talk[s][i]) ELSE talk[s][i]] :
     turned \in SUBSET Answered(s)}

Histories(s) == {Latest(q, HistoryLimit) : q \in Orders(s)}

\* build_context_with_memory: a summary, unless it is empty, and the latest.
Compressed(h) ==
    {[older |-> <<>>, recent |-> h]} \cup
    IF Len(h) <= Threshold THEN {}
    ELSE {[older |-> SubSeq(h, 1, Len(h) - KeepRecent),
           recent |-> Latest(h, KeepRecent)]}

\* build_prompt; a summary is one message and is never cut off.
Prompted(h) == [older |-> <<>>, recent |-> Latest(h, 2 * MaxTurns)]

GivePrompt(c, s, text) ==
    prompt' = [by |-> c, session |-> s,
               older |-> text.older, recent |-> text.recent]

GetSession_AnyUser(c, id, s) ==
    IF id # NoSession /\ owner[id] # NoOwner /\ owner[id][1] = CallerTenant[c]
      THEN s = id /\ UNCHANGED owner
      ELSE owner[s] = NoOwner /\ owner' = [owner EXCEPT ![s] = Key(c)]

\* _get_or_create_session: an id of somebody else's gets a new session, even an
\* admin's.
GetSession(c, id, s) ==
    IF id # NoSession /\ owner[id] = Key(c)
      THEN s = id /\ UNCHANGED owner
      ELSE owner[s] = NoOwner /\ owner' = [owner EXCEPT ![s] = Key(c)]

Save_TwoTransactions(s, n, c) ==
    talk' \in {talk, [talk EXCEPT ![s] = @ \o Exchange(n, c)],
               [talk EXCEPT ![s] = Append(@, Row(n, "user", c))]}

\* _save_messages: both rows or none; the answer is given all the same.
Save(s, n, c) ==
    talk' \in {talk, [talk EXCEPT ![s] = @ \o Exchange(n, c)]}

-----------------------------------------------------------------------------
Ask(c, id, s) ==
    /\ asked < MaxQuestions /\ asked' = asked + 1
    /\ GetSession(c, id, s)
    /\ shown' = NoText

\* POST /chat is one step of the loop.
PostAnswered(c, id, s) ==
    /\ Ask(c, id, s)
    /\ \E h \in Histories(s) : \E text \in Compressed(h) :
            GivePrompt(c, s, text)
    /\ Save(s, asked', c)
    /\ UNCHANGED <<streaming, marks>>

PostCached(c, id, s) ==
    /\ Ask(c, id, s)
    /\ prompt' = NoText
    /\ Save(s, asked', c)
    /\ UNCHANGED <<streaming, marks>>

\* Nothing found, no model, or an exception: the session stays, empty.
PostUnanswered(c, id, s) ==
    /\ Ask(c, id, s)
    /\ prompt' = NoText
    /\ UNCHANGED <<streaming, marks, talk>>

\* The history is read when the stream begins, the exchange saved at its end.
OpenStream(r, c, id, s) ==
    /\ streaming[r] = Silent
    /\ Ask(c, id, s)
    /\ \E h \in Histories(s) : GivePrompt(c, s, Prompted(h))
    /\ streaming' = [streaming EXCEPT ![r] =
                        [number |-> asked', session |-> s, by |-> c]]
    /\ UNCHANGED <<talk, marks>>

CloseStream(r) ==
    /\ streaming[r] # Silent
    /\ streaming' = [streaming EXCEPT ![r] = Silent]
    /\ \/ Save(streaming[r].session, streaming[r].number, streaming[r].by)
       \/ UNCHANGED talk      \* failed, or client gone
    /\ prompt' = NoText /\ shown' = NoText
    /\ UNCHANGED <<owner, asked, marks>>

\* The filter that reading, the exports and feedback share.
MayRead(c, s) ==
    /\ owner[s] # NoOwner
    /\ IF c \in CallerAdmins THEN owner[s][1] = CallerTenant[c]
                             ELSE owner[s] = Key(c)

ReadSession(c, s) ==
    /\ MayRead(c, s)
    /\ shown' = [by |-> c, session |-> s] /\ shown' # shown
    /\ prompt' = NoText
    /\ UNCHANGED <<owner, talk, streaming, asked, marks>>

Feedback(c, s, n) ==
    /\ MayRead(c, s)
    /\ \E row \in RowsOf(s) : row.number = n /\ row.role = "assistant"
    /\ marks' = {m \in marks : m.number # n} \cup {[number |-> n, by |-> c]}
    /\ marks' # marks
    /\ prompt' = NoText /\ shown' = NoText
    /\ UNCHANGED <<owner, talk, streaming, asked>>

ChatNext ==
    \/ \E c \in Callers, s \in Sessions :
        \/ \E id \in Sessions \cup {NoSession} :
            \/ PostAnswered(c, id, s) \/ PostCached(c, id, s)
            \/ PostUnanswered(c, id, s)
            \/ \E r \in Streams : OpenStream(r, c, id, s)
        \/ ReadSession(c, s)
        \/ \E n \in 1..MaxQuestions : Feedback(c, s, n)
    \/ \E r \in Streams : CloseStream(r)

ChatSpec == ChatInit /\ [][ChatNext]_chatVars

-----------------------------------------------------------------------------
(* Properties.                                                              *)

\* What goes into a prompt was asked by the same caller in the same session,
\* whatever session id was sent.
PromptIsOwn ==
    prompt # NoText =>
        \A row \in Range(prompt.older \o prompt.recent) :
            row.by = prompt.by /\ row \in RowsOf(prompt.session)

\* Who asked is the same caller or, for an admin, one of his tenant.
Asked(row, c) ==
    \/ row.by = c
    \/ c \in CallerAdmins /\ CallerTenant[row.by] = CallerTenant[c]

\* What is shown was asked by the reader, or in the tenant that he administers.
ShownIsOwn ==
    shown # NoText => \A row \in RowsOf(shown.session) : Asked(row, shown.by)

\* So was what gets feedback.
MarksAreOwn ==
    \A m \in marks : \E s \in Sessions : \E row \in RowsOf(s) :
        row.number = m.number /\ row.role = "assistant" /\ Asked(row, m.by)

\* Nobody's words reach another's prompt, screen or feedback.
TextStaysWithItsOwner == PromptIsOwn /\ ShownIsOwn /\ MarksAreOwn

\* The limits cut a history between exchanges, never between a question and its
\* answer, although they count messages and order them by transaction only.
WindowsHoldWholeExchanges ==
    prompt # NoText =>
        \A part \in {prompt.older, prompt.recent} : \A row \in Range(part) :
            Range(Exchange(row.number, row.by)) \subseteq Range(part)

\* _load_history says "oldest-first" (api/routers/chat.py:59).
HistoryIsOldestFirst ==
    prompt # NoText =>
        LET text == prompt.older \o prompt.recent
        IN  \A i, j \in DOMAIN text :
                text[i].number = text[j].number /\ text[i].role = "user"
                    /\ text[j].role = "assistant" => i < j

=============================================================================
