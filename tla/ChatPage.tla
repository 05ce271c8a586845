---------------------------------- MODULE ChatPage ----------------------------------
(***************************************************************************)
(* The chat page, app/static/app.js, in one browser tab: the form, New     *)
(* Chat, Next Page and the prompt settings.  Every click starts at most    *)
(* one request; its event handler sleeps in `await fetch` meanwhile.       *)
(***************************************************************************)
EXTENDS Sequences

CONSTANTS
  Request, Question, Page, FirstPage, Session, NoAsk,
  Setting           \* what the prompt settings may be: [insight, template]

VARIABLES
  session,          \* sessionId
  setting,          \* customCommentaryPrompt and customNlToSqlPrompt, custom or not
  busy,             \* submitBtn.disabled
  sent, phase,      \* the body of each request and what has become of it
  asked, results    \* on the screen: the questions, and the requests whose result
                    \* is there

pageVars == <<session, setting, busy, sent, phase, asked, results>>

Phase == {"unsent", "fetching", "settled", "lost"}

PageInit ==
  /\ session \in Session /\ setting \in Setting /\ busy = FALSE
  /\ sent = [r \in Request |-> NoAsk]
  /\ phase = [r \in Request |-> "unsent"]
  /\ asked = <<>> /\ results = {}

-----------------------------------------------------------------------------
Sends(r, question, page, insight, template) ==
  /\ phase[r] = "unsent"
  /\ phase' = [phase EXCEPT ![r] = "fetching"]
  /\ sent' = [sent EXCEPT ![r] = [question |-> question, page |-> page,
                session |-> session, insight |-> insight, template |-> template]]

\* The form is submitted; a disabled button also blocks the Enter key.
\* Mutation: the button stays enabled.
AskAtAnyTime(r, question, page) ==
  /\ Sends(r, question, page, setting.insight, setting.template)
  /\ busy' = FALSE /\ asked' = Append(asked, r)
  /\ UNCHANGED <<session, setting, results>>

Ask(r, question, page) ==
  /\ ~busy
  /\ Sends(r, question, page, setting.insight, setting.template)
  /\ busy' = TRUE /\ asked' = Append(asked, r)
  /\ UNCHANGED <<session, setting, results>>

\* Next Page below a result on the screen: without commentary and custom prompts,
\* in the session of today, and whether or not the form is busy.
LoadPage(r, question, page) ==
  /\ Sends(r, question, page, "none", "usable")
  /\ UNCHANGED <<session, setting, busy, asked, results>>

\* New Chat: a new id and an empty screen.  Requests under way go on.
\* Mutation: the screen is emptied, the session kept.
NewChatSameSession ==
  /\ asked' = <<>> /\ results' = {}
  /\ UNCHANGED <<session, setting, busy, sent, phase>>

Unused == {s \in Session : s # session /\ \A r \in Request : sent[r] # NoAsk => sent[r].session # s}

NewChat ==
  /\ session' \in Unused
  /\ asked' = <<>> /\ results' = {}
  /\ UNCHANGED <<setting, busy, sent, phase>>

\* Save, and the two Reset buttons.
ChangePrompts ==
  /\ \/ setting' \in Setting
     \/ setting' = [setting EXCEPT !.insight = "default"]
     \/ setting' = [setting EXCEPT !.template = "usable"]
  /\ UNCHANGED <<session, busy, sent, phase, asked, results>>

-----------------------------------------------------------------------------
\* The form's handler ends in `finally`; that of Next Page never disabled it.
\* Mutation: the button is enabled again only where a result is shown.
FreesAfterResult(r, shows) == busy' = (busy /\ ~shows)

Frees(r, shows) == busy' = (busy /\ sent[r].insight = "none")

\* A response comes: its result is shown where the screen has got to by now, or the
\* error, or that the question is out of scope.
Settle(r, shows) ==
  /\ phase[r] = "fetching"
  /\ phase' = [phase EXCEPT ![r] = "settled"]
  /\ results' = IF shows THEN results \cup {r} ELSE results
  /\ Frees(r, shows)
  /\ UNCHANGED <<session, setting, sent, asked>>

\* fetch raises: the connection broke, before or after the server got the request.
Lose(r) ==
  /\ phase[r] = "fetching"
  /\ phase' = [phase EXCEPT ![r] = "lost"]
  /\ Frees(r, FALSE)
  /\ UNCHANGED <<session, setting, sent, asked, results>>
=============================================================================
