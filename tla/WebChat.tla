------------------------------ MODULE WebChat ------------------------------
(***************************************************************************)
(* The chat panel of the dashboard (webapp.py) against POST /chat/stream   *)
(* and POST /chat: a question is streamed, asked again through the JSON    *)
(* endpoint when the transport failed before any event.  What a run        *)
(* streams is abstracted to its events before the last one, and the last.  *)
(***************************************************************************)
EXTENDS Naturals

CONSTANTS
    Question,   \* the questions a user sends; Enter sends while another is under way
    Try,        \* the requests of a question: 1 the stream, 2 the fallback
    None

WebChatAssumption == Try = {1, 2} /\ None \notin Question \X Try

VARIABLES
    request,    \* request[q][n]: how far request n of question q is
    got,        \* questions of whose stream an event was handled (gotEvent)
    bubble,     \* what the page says of q
    run,        \* run[q][n]: the run that request n of q started, if any
    slot        \* active_chats: the request whose run holds the user's slot, or None

page_vars == <<request, got, bubble>>
vars == <<page_vars, run, slot>>

Request == {"none", "sent", "refused", "open", "streaming", "broken", "cut", "over"}
Run == {"none", "running", "answered", "failed"}

TypeOK ==
    /\ request \in [Question -> [Try -> Request]]
    /\ got \subseteq Question
    /\ bubble \in [Question -> {"none", "thinking", "live", "answer", "detail", "error", "lost"}]
    /\ run \in [Question -> [Try -> Run]]
    /\ slot \in (Question \X Try) \cup {None}

Init ==
    /\ request = [q \in Question |-> [n \in Try |-> "none"]]
    /\ got = {} /\ bubble = [q \in Question |-> "none"]
    /\ run = [q \in Question |-> [n \in Try |-> "none"]] /\ slot = None

becomes(q, n, s) == request' = [request EXCEPT ![q][n] = s]
says(q, b) == bubble' = [bubble EXCEPT ![q] = b]

-----------------------------------------------------------------------------
(***************************************************************************)
(* The server                                                              *)
(***************************************************************************)

\* chat_stream, chat: the slot of the user is taken, or the request refused, as it also
\* is over its quota.
chat(q, n) ==
    /\ request[q][n] \in {"sent", "broken"} /\ run[q][n] = "none"
    /\ \/ /\ slot = None /\ slot' = <<q, n>>
          /\ run' = [run EXCEPT ![q][n] = "running"]
          /\ request' = IF request[q][n] = "sent" /\ n = 1
                          THEN [request EXCEPT ![q][n] = "open"] ELSE request
       \/ /\ request[q][n] = "sent" /\ becomes(q, n, "refused")
          /\ UNCHANGED <<run, slot>>
    /\ UNCHANGED <<got, bubble>>

\* The run ends and frees the slot; it goes on when its client is gone.
drive(q, n) ==
    /\ slot = <<q, n>> /\ slot' = None
    /\ \E end \in {"answered", "failed"} : run' = [run EXCEPT ![q][n] = end]
    /\ UNCHANGED page_vars

-----------------------------------------------------------------------------
(***************************************************************************)
(* The page                                                                *)
(***************************************************************************)

\* Only the button is disabled while a question is under way.
sendChat(q) ==
    /\ bubble[q] = "none"
    /\ becomes(q, 1, "sent") /\ says(q, "thinking")
    /\ UNCHANGED <<got, run, slot>>

\* "Quota/concurrency errors are real answers": for the stream and for the fallback.
refused(q, n) ==
    /\ request[q][n] = "refused"
    /\ becomes(q, n, "over") /\ says(q, "detail")
    /\ UNCHANGED <<got, run, slot>>

\* Mutant of handles: only text counts as an event, and this one announces a tool.
handles_text(q) == got' \in {got, got \cup {q}}

\* handleEvent, for an event before the last one.
handles(q) == got' = got \cup {q}

handleEvent(q) ==
    /\ request[q][1] \in {"open", "streaming"} /\ run[q][1] # "none"
    /\ becomes(q, 1, "streaming") /\ handles(q)
    /\ says(q, "live")
    /\ UNCHANGED <<run, slot>>

\* done or error, once the run is over.
last_event(q) ==
    /\ request[q][1] \in {"open", "streaming"} /\ run[q][1] \in {"answered", "failed"}
    /\ becomes(q, 1, "over") /\ got' = got \cup {q}
    /\ says(q, IF run[q][1] = "answered" THEN "answer" ELSE "error")
    /\ UNCHANGED <<run, slot>>

\* The request fails, before or after the server took it, or the stream breaks off.
breaks(q) ==
    /\ request[q][1] \in {"sent", "open", "streaming"}
    /\ becomes(q, 1, IF request[q][1] = "streaming" THEN "cut" ELSE "broken")
    /\ UNCHANGED <<got, bubble, run, slot>>

\* sendChat's catch: the JSON endpoint, unless an event was handled.
sendChatFallback(q) ==
    /\ request[q][1] \in {"broken", "cut"} /\ request[q][2] = "none" /\ q \notin got
    /\ becomes(q, 2, "sent") /\ says(q, "thinking")
    /\ UNCHANGED <<got, run, slot>>

\* "Mid-run drop: the run finishes server-side; history has the answer."
lost(q) ==
    /\ request[q][1] \in {"broken", "cut"} /\ q \in got /\ bubble[q] # "lost"
    /\ says(q, "lost")
    /\ UNCHANGED <<request, got, run, slot>>

fallback_answers(q) ==
    /\ request[q][2] = "sent"
    /\ \/ run[q][2] = "answered" /\ says(q, "answer")
       \/ run[q][2] = "failed" /\ says(q, "detail")
       \/ says(q, "error")
    /\ becomes(q, 2, "over")
    /\ UNCHANGED <<got, run, slot>>

page(q) ==
    \/ \E n \in Try : refused(q, n)
    \/ handleEvent(q) \/ last_event(q) \/ sendChatFallback(q) \/ lost(q) \/ fallback_answers(q)

Next ==
    \E q \in Question :
        \/ \E n \in Try : chat(q, n) \/ drive(q, n)
        \/ sendChat(q) \/ page(q) \/ breaks(q)

Spec == Init /\ [][Next]_vars

-----------------------------------------------------------------------------
Runs(q) == {n \in Try : run[q][n] # "none"}

\* A question is run, and billed, twice only if nothing of its stream was seen; a page
\* that says the answer will be in the history has left a run behind that can write it;
\* and an answer on the page is that of a run of its question.
AnsweredOnce ==
    \A q \in Question :
        /\ request[q][1] \in {"streaming", "cut"} => Runs(q) = {1}
        /\ bubble[q] = "lost" => run[q][1] # "none"
        /\ bubble[q] = "answer" => \E n \in Try : run[q][n] = "answered"
=============================================================================
