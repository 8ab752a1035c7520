------------------------------ MODULE ReadLoad ------------------------------
(* The client side of test H-2 (ha-test/hatest/appclient.py and             *)
(* ReadDistributionScenario): rounds of one web and one MCP search, then the *)
(* upload of a document, its row counted on the Primary, and its deletion.   *)
(* A request can be lost, its answer can be lost or useless, the server can  *)
(* refuse it, and the server forgets MCP sessions when it likes.             *)
EXTENDS Naturals, FiniteSets

CONSTANTS MaxRounds,   \* bound: rounds of searches
          MaxExpiries  \* bound: sessions the server forgets

VARIABLES
  loadPc,       \* the next request
  session,      \* AppClient._mcp_session
  issued,       \* sessions the server has opened so far: 1 .. issued
  alive,        \* sessions the server still knows
  initialized,  \* sessions whose "initialized" notification has arrived
  expired,      \* sessions the server has forgotten
  stale,        \* MCP searches that failed in a session the server had forgotten
  round,        \* rounds begun
  count,        \* LoadCount: calls of each kind that succeeded and failed
  doc,          \* the uploaded document at the server
  found,        \* _upload_and_find: its row was counted on the Primary
  documentTold  \* the user was told to delete the document

loadVars == <<loadPc, session, issued, alive, initialized, expired, stale, round,
              count, doc, found, documentTold>>

NoSession == 0
Over == {"done", "not tested"}

\* What becomes of a request: its answer arrives; it arrives, and reports an
\* error; the server did its part and the answer is lost or has not the
\* request's id; the request never arrives.
Fates == {"answered", "refused", "unheard", "lost"}
Handled(fate) == fate \in {"answered", "unheard"}

\* The web search, the MCP search or the round succeeded or failed.
Counted(kind, result) == count' = [count EXCEPT ![kind][result] = @ + 1]

AfterRound == IF round < MaxRounds THEN {"web", "upload"} ELSE {"upload"}

\* mcp_search uses the session it has and opens one when it has none.
McpBegins == IF session = NoSession THEN "initialize" ELSE "call"

\* Mutant: the session is kept after an error.
KeepSession == session' = session

\* An AppError ends the MCP search, and the session with it.
DropSession == session' = NoSession

McpFails ==
  /\ DropSession
  /\ Counted("mcp", "failed")
  /\ loadPc' \in AfterRound

LoadInit ==
  /\ loadPc = "health"
  /\ session = NoSession /\ issued = 0 /\ alive = {} /\ initialized = {}
  /\ expired = 0 /\ stale = 0 /\ round = 0
  /\ count = [kind \in {"web", "mcp"} |-> [ok |-> 0, failed |-> 0]]
  /\ doc = "none" /\ found = FALSE /\ documentTold = FALSE

Reachable ==
  /\ loadPc = "health"
  /\ loadPc' \in {"web", "not tested"}
  /\ UNCHANGED <<session, issued, alive, initialized, expired, stale, round, count,
                 doc, found, documentTold>>

WebSearch ==
  /\ loadPc = "web"
  /\ round' = round + 1
  /\ \E result \in {"ok", "failed"} : Counted("web", result)
  /\ loadPc' = McpBegins
  /\ UNCHANGED <<session, issued, alive, initialized, expired, stale, doc, found, documentTold>>

\* The session is the client's as soon as the answer names it.
OpenSession ==
  /\ loadPc = "initialize"
  /\ \E fate \in Fates :
       /\ IF Handled(fate)
            THEN issued' = issued + 1 /\ alive' = alive \union {issued + 1}
            ELSE UNCHANGED <<issued, alive>>
       /\ IF fate = "answered"
            THEN session' = issued + 1 /\ loadPc' = "initialized" /\ UNCHANGED count
            ELSE McpFails
  /\ UNCHANGED <<initialized, expired, stale, round, doc, found, documentTold>>

NotifyInitialized ==
  /\ loadPc = "initialized"
  /\ \E fate \in Fates :
       /\ initialized' = IF Handled(fate) /\ session \in alive
                           THEN initialized \union {session} ELSE initialized
       /\ IF fate = "answered" /\ session \in alive
            THEN loadPc' = "call" /\ UNCHANGED <<session, count>>
            ELSE McpFails
  /\ stale' = IF session \in alive THEN stale ELSE stale + 1
  /\ UNCHANGED <<issued, alive, expired, round, doc, found, documentTold>>

\* A JSON-RPC error and an error of the tool fail the search but keep the
\* session; a status other than 200 and a lost answer do not.
CallTool ==
  /\ loadPc = "call"
  /\ \/ /\ session \in alive
        /\ \E result \in {"ok", "failed"} : Counted("mcp", result)
        /\ loadPc' \in AfterRound
        /\ UNCHANGED session
     \/ McpFails
  /\ stale' = IF session \in alive THEN stale ELSE stale + 1
  /\ UNCHANGED <<issued, alive, initialized, expired, round, doc, found, documentTold>>

\* The server forgets a session: its time is over, or the server restarts.
Expire ==
  /\ loadPc \notin Over
  /\ expired < MaxExpiries
  /\ \E s \in alive : alive' = alive \ {s}
  /\ expired' = expired + 1
  /\ UNCHANGED <<loadPc, session, issued, initialized, stale, round, count, doc,
                 found, documentTold>>

\* The scenario goes on only with an answer that names the document.
Upload ==
  /\ loadPc = "upload"
  /\ \E fate \in Fates :
       /\ doc' = IF Handled(fate) THEN "stored" ELSE doc
       /\ loadPc' = IF fate = "answered" THEN "rows" ELSE "done"
  /\ UNCHANGED <<session, issued, alive, initialized, expired, stale, round, count,
                 found, documentTold>>

\* A query that fails ends the test, before the document is deleted.
CountRows ==
  /\ loadPc = "rows"
  /\ \/ /\ found' = (doc = "stored")
        /\ loadPc' = "delete"
     \/ /\ loadPc' = "not tested"
        /\ UNCHANGED found
  /\ UNCHANGED <<session, issued, alive, initialized, expired, stale, round, count,
                 doc, documentTold>>

\* Mutant: nobody looks at the answer to the deletion.
TellNobody(fate) == documentTold' = documentTold

TellIfLeft(fate) == documentTold' = (fate # "answered")

DeleteDocument ==
  /\ loadPc = "delete"
  /\ \E fate \in Fates :
       /\ doc' = IF Handled(fate) THEN "deleted" ELSE doc
       /\ TellIfLeft(fate)
  /\ loadPc' = "done"
  /\ UNCHANGED <<session, issued, alive, initialized, expired, stale, round, count, found>>

LoadNext ==
  \/ Reachable \/ WebSearch \/ OpenSession \/ NotifyInitialized \/ CallTool
  \/ Expire \/ Upload \/ CountRows \/ DeleteDocument

LoadSpec == LoadInit /\ [][LoadNext]_loadVars

----------------------------------------------------------------------------
(* Properties *)

\* A comment of appclient.py: tools may be called only after the initialized
\* notification.  Whatever was lost and however often it is opened anew, no tool
\* is called in a session whose notification failed; and a session the server
\* has forgotten costs one search: the client does not go on in it.
SessionsAreFresh ==
  /\ loadPc = "call" => session \in initialized
  /\ stale <= expired

\* A test document that was counted on the Primary is deleted in the end, or
\* the user knows its number.  (After a lost answer to the upload, or a failed
\* query, a document stays that nobody is told about.)
LeftoverKnown ==
  loadPc \in Over /\ doc = "stored" => documentTold \/ ~found

=============================================================================
