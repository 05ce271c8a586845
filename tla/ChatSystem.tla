--------------------------------- MODULE ChatSystem ---------------------------------
(***************************************************************************)
(* The chat page in front of the pipeline: what the user clicks becomes    *)
(* requests, which the rate limiter or the request model may refuse and    *)
(* the network may lose, and the pipeline's answers appear on the screen.  *)
(***************************************************************************)
EXTENDS OrchestratorProperties

CONSTANTS
  Setting,          \* what the prompt settings may be
  Following         \* the page after each page: Next Page asks for it

VARIABLES session, setting, busy, sent, phase, asked, results

pageVars == <<session, setting, busy, sent, phase, asked, results>>
chatVars == <<vars, pageVars>>

Browser == INSTANCE ChatPage

ASSUME ChatAssumption ==
  /\ Setting \subseteq [insight : Insight \ {"none"}, template : Template]
  /\ \A s \in Setting : /\ [s EXCEPT !.insight = "default"] \in Setting
                        /\ [s EXCEPT !.template = "usable"] \in Setting
  /\ Following \in [Page -> SUBSET (Page \ FirstPage)]
  /\ FirstPage \subseteq Page
  /\ [question : Question, page : Page, session : Session,
      insight : Insight, template : Template] \subseteq Asks

ChatInit == Init /\ Browser!PageInit

-----------------------------------------------------------------------------
\* The user, and a refusal on the way to the pipeline or a broken connection.
AskQuestion(r) ==
  /\ \E q \in Question, p \in FirstPage : Browser!Ask(r, q, p)
  /\ UNCHANGED vars

\* The button holds the question and the page of the answer.
NextPage(r) ==
  /\ \E o \in results : \E p \in Following[body[o].page] :
       Browser!LoadPage(r, body[o].question, p)
  /\ UNCHANGED vars

StartAgain == (Browser!NewChat \/ Browser!ChangePrompts) /\ UNCHANGED vars

Refused(r) == pc[r] = "idle" /\ Browser!Settle(r, FALSE) /\ UNCHANGED vars

Broken(r) == Browser!Lose(r) /\ UNCHANGED vars

\* A request arrives, even after the page has given it up.
\* Mutation: the session is read when the request is on its way.
ReachesLate(r) ==
  /\ phase[r] \in {"fetching", "lost"}
  /\ LET late == [sent[r] EXCEPT !.session = session]
     IN AskHit(r, late) \/ AskWarm(r, late) \/ AskCold(r, late)
  /\ UNCHANGED pageVars

Reaches(r) ==
  /\ phase[r] \in {"fetching", "lost"}
  /\ AskHit(r, sent[r]) \/ AskWarm(r, sent[r]) \/ AskCold(r, sent[r])
  /\ UNCHANGED pageVars

Handled(r) == Proceeds(r) /\ UNCHANGED pageVars

Shown(r) ==
  /\ pc[r] = "done" /\ Browser!Settle(r, outcome[r] = "answered")
  /\ UNCHANGED vars

Otherwise == (SchemaChanges \/ TimePasses) /\ UNCHANGED pageVars

ChatNext ==
  \/ \E r \in Request : \/ AskQuestion(r) \/ NextPage(r) \/ Refused(r) \/ Broken(r)
                        \/ Reaches(r) \/ Handled(r) \/ Shown(r)
  \/ StartAgain \/ Otherwise

ChatSpec == ChatInit /\ [][ChatNext]_chatVars

\* A request that is not lost arrives, its awaited calls end as in FairSpec, and the
\* browser runs the handler of a response that is there.
Advances(r) == (phase[r] = "fetching" /\ Reaches(r)) \/ Handled(r) \/ Shown(r)

FairChat == ChatSpec /\ \A r \in Request : WF_chatVars(Advances(r))

-----------------------------------------------------------------------------
\* The variables of the page; a request that has arrived is the one that was sent.
PageFields ==
  /\ session \in Session /\ setting \in Setting /\ busy \in BOOLEAN
  /\ sent \in [Request -> Asks \cup {NoAsk}]
  /\ phase \in [Request -> Browser!Phase]
  /\ asked \in Seq(Request) /\ results \subseteq Request
  /\ \A r \in Request : /\ sent[r] = NoAsk <=> phase[r] = "unsent"
                        /\ pc[r] # "idle" => sent[r] # NoAsk /\ arg[r] = sent[r]

\* Type invariant of the pipeline and of the page in front of it.
PageTypeOK == TypeOK /\ PageFields

\* What the current session remembers can be read on the screen: New Chat forgets
\* all that it clears, also while requests of the former conversation are under way
\* (app.js:155-165, 183; conversation_memory.py:29-40).
MemoryIsOnScreen ==
  \A i \in DOMAIN sessions[session] :
    \E j \in DOMAIN asked : asked[j] = sessions[session][i].sql.author

\* Turns are remembered in the order in which their questions were asked, although
\* the pipeline stores them in the order in which requests complete: the page lets
\* the user ask only when the previous answer is there.  A request whose connection
\* broke may still complete, at any time (app.js:175, 201; orchestrator.py:211).
TurnsInAskingOrder ==
  LET turns == sessions[session]
      Place(r) == CHOOSE j \in DOMAIN asked : asked[j] = r
  IN \A i, j \in DOMAIN turns :
       i < j => \/ Place(turns[i].sql.author) < Place(turns[j].sql.author)
                \/ phase[turns[j].sql.author] = "lost"

\* Whatever becomes of a question -- an answer, an error, a refusal or no response --
\* the form can be used again (app.js:179-203).
PageRecovers == busy ~> ~busy
=============================================================================
