------------------------------ MODULE WebServer ------------------------------
(***************************************************************************)
(* Html_controler of src/pico2w/html_controler.py: one handle_client task  *)
(* per connection, and the cached template files they share.               *)
(*                                                                         *)
(* A client task gives way where it reads a line, waits for the request    *)
(* handler and drains what it wrote; an action is what it does from one of *)
(* these places to the next.  Loading and freeing the files do not give    *)
(* way.  What the peer sends, and when, is left open: each read may give a *)
(* line, time out, or fail.                                                *)
(***************************************************************************)
EXTENDS Naturals, Sequences

CONSTANT Clients       \* the connections that may be open at once

VARIABLES cache,             \* template_parts, css_content, js_content
          templates_loaded,
          client,                \* where each client task is
          quiet,             \* clients whose peer only listens, or is gone
          code, body,        \* response_code, response_body_bytes
          written               \* what was written to the connection

webVars == <<cache, templates_loaded, client, quiet, code, body, written>>

Files == {"/", "/style.css", "/app.js"}
Paths == Files \cup {"state", "load", "free", "handler", "favicon",
                          "unknown"}

\* The constructor loads the files if the board is connected.
WebInit == /\ templates_loaded \in BOOLEAN
           /\ cache = IF templates_loaded THEN Files ELSE {}
           /\ client = [c \in Clients |-> "none"]
           /\ quiet = {}
           /\ code = [c \in Clients |-> 200] /\ body = [c \in Clients |-> ""]
           /\ written = [c \in Clients |-> <<>>]
-----------------------------------------------------------------------------
Head1(n, b) == [status |-> n, length |-> b]
Goto(c, l) == client' = [client EXCEPT ![c] = l]

\* Server._serve makes a task of the connection.
Connect(c) ==
    /\ client[c] = "none" /\ Goto(c, "line")
    /\ quiet' = quiet \ {c}
    /\ code' = [code EXCEPT ![c] = 200] /\ body' = [body EXCEPT ![c] = ""]
    /\ written' = [written EXCEPT ![c] = <<>>]
    /\ UNCHANGED <<cache, templates_loaded>>

\* The request line, within 5 s.
ReadLine(c) ==
    /\ client[c] = "line" /\ Goto(c, "headers")
    /\ UNCHANGED <<cache, templates_loaded, quiet, code, body, written>>

\* A time-out, an error, or the end of the stream.
NoLine(c) ==
    /\ client[c] = "line" /\ Goto(c, "closing")
    /\ UNCHANGED <<cache, templates_loaded, quiet, code, body, written>>

\* A header line, each within 1 s; how many there may be is not limited.
ReadHeader(c) ==
    /\ client[c] = "headers" /\ c \notin quiet
    /\ UNCHANGED webVars

\* The peer sends nothing more, and takes what it is sent or goes away.
PeerFallsQuiet(c) ==
    /\ client[c] # "none" /\ quiet' = quiet \cup {c}
    /\ UNCHANGED <<cache, templates_loaded, client, code, body, written>>
-----------------------------------------------------------------------------
\* load_templates raises after some files have been read, and frees them.
Failed(read) == cache' = {} /\ templates_loaded' = FALSE

\* load_templates, which succeeds or not.
Load(ok) ==
    IF templates_loaded THEN ok /\ UNCHANGED <<cache, templates_loaded>>
    ELSE \/ ok /\ cache' = Files /\ templates_loaded' = TRUE
         \/ ~ok /\ \E read \in SUBSET Files : read # Files /\ Failed(read)

NeedsFiles(p) == p \in Files

\* The answer and its body are chosen, the head is written.
Answer(c, n, b) ==
    /\ code' = [code EXCEPT ![c] = n] /\ body' = [body EXCEPT ![c] = b]
    /\ written' = [written EXCEPT ![c] = Append(@, Head1(n, b))]
    /\ Goto(c, "head")

\* What a file's route answers.  The page shows the board's state, and is
\* an error page (with code 200) if that cannot be read.
AnswerFile(c, p) ==
    \/ p \in cache' /\ Answer(c, 200, p)
    \/ p \notin cache' /\ Answer(c, 404, "missing")
    \/ p = "/" /\ Answer(c, 200, "error")

\* The end of the headers (a blank line, a time-out, an error) and all that
\* follows it up to the next await.
RouteFile(c, p) ==
    \/ /\ NeedsFiles(p) /\ ~templates_loaded
       /\ \E ok \in BOOLEAN :
            /\ Load(ok)
            /\ IF ok THEN AnswerFile(c, p) ELSE Answer(c, 500, "error")
    \/ /\ ~NeedsFiles(p) \/ templates_loaded
       /\ UNCHANGED <<cache, templates_loaded>>
       /\ AnswerFile(c, p)

RouteControl(c, p) ==
    \/ p = "load" /\ (\E ok \in BOOLEAN : Load(ok)) /\ Answer(c, 200, "json")
    \/ /\ p = "free" /\ cache' = {} /\ templates_loaded' = FALSE
       /\ Answer(c, 200, "json")

RouteOther(c, p) ==
    /\ UNCHANGED <<cache, templates_loaded>>
    /\ \/ /\ p = "state"
          /\ Answer(c, 200, "json") \/ Answer(c, 500, "json")
       \/ p = "favicon" /\ Answer(c, 404, "")
       \/ p = "unknown" /\ Answer(c, 404, "error")
       \/ /\ p = "handler" /\ Goto(c, "handler")
          /\ UNCHANGED <<code, body, written>>

EndOfHeaders(c, p) ==
    /\ client[c] = "headers"
    /\ \/ p \in Files /\ RouteFile(c, p)
       \/ RouteControl(c, p)
       \/ RouteOther(c, p)
    /\ UNCHANGED quiet

\* The request handler has returned; its result may not be serialisable.
HandlerReturns(c) ==
    /\ client[c] = "handler"
    /\ Answer(c, 200, "json") \/ Answer(c, 500, "json")
    /\ UNCHANGED <<cache, templates_loaded, quiet>>
-----------------------------------------------------------------------------
\* Mutant of SendBody: the file is taken from the cache when it is sent.
SendBodyLate(c) ==
    /\ client[c] = "head"
    /\ IF body[c] = "" \/ (body[c] \in Files /\ body[c] \notin cache)
       THEN UNCHANGED written
       ELSE written' = [written EXCEPT ![c] = Append(@, body[c])]
    /\ Goto(c, IF body[c] = "" THEN "closing" ELSE "body")
    /\ UNCHANGED <<cache, templates_loaded, quiet, code, body>>

\* The head has been drained; the body follows.
SendBody(c) ==
    /\ client[c] = "head"
    /\ IF body[c] = "" THEN Goto(c, "closing") /\ UNCHANGED written
       ELSE /\ written' = [written EXCEPT ![c] = Append(@, body[c])]
            /\ Goto(c, "body")
    /\ UNCHANGED <<cache, templates_loaded, quiet, code, body>>

\* The body has been drained: response_sent.
BodyDrained(c) ==
    /\ client[c] = "body" /\ Goto(c, "closing")
    /\ UNCHANGED <<cache, templates_loaded, quiet, code, body, written>>

\* The peer is gone: OSError out of a drain.
PeerGone(c) ==
    /\ client[c] \in {"head", "body"} /\ Goto(c, "gone")
    /\ UNCHANGED <<cache, templates_loaded, quiet, code, body, written>>

\* Another exception before response_sent (no memory for the rest of a
\* buffer, an undecodable request line).  The handler calls
\* writer.is_closing(), which asyncio's Stream does not have: the
\* AttributeError leaves handle_client by its finally clause.
Raises(c) ==
    /\ client[c] \in {"line", "headers", "head"}
    /\ Goto(c, "failed")
    /\ UNCHANGED <<cache, templates_loaded, quiet, code, body, written>>

\* finally: writer.wait_closed()
Closes(c) ==
    /\ client[c] \in {"closing", "gone", "failed"} /\ Goto(c, "none")
    /\ UNCHANGED <<cache, templates_loaded, quiet, code, body, written>>

ReadsLine(c) == ReadLine(c) \/ NoLine(c)
Routes(c) == \E p \in Paths : EndOfHeaders(c, p)
Sends(c) == SendBody(c) \/ BodyDrained(c) \/ PeerGone(c)

WebNext == \E c \in Clients :
               \/ Connect(c) \/ ReadsLine(c) \/ ReadHeader(c) \/ Routes(c)
               \/ HandlerReturns(c) \/ Sends(c) \/ Raises(c) \/ Closes(c)
               \/ PeerFallsQuiet(c)

\* What a peer cannot hold up.
RoutesQuiet(c) == c \in quiet /\ Routes(c)
SendsQuiet(c) == c \in quiet /\ Sends(c)

(***************************************************************************)
(* The request line has a time limit.  So has each header line, but a peer *)
(* that sends one line after the other is read from for ever, and a drain  *)
(* has no limit: these go on once the peer has fallen quiet.  That a       *)
(* handler returns is not assumed: it may wait for hw_lock for ever.       *)
(***************************************************************************)
WebSpec == /\ WebInit /\ [][WebNext]_webVars
           /\ \A c \in Clients :
                /\ WF_webVars(ReadsLine(c)) /\ WF_webVars(RoutesQuiet(c))
                /\ WF_webVars(SendsQuiet(c)) /\ WF_webVars(Closes(c))
-----------------------------------------------------------------------------
\* The cache holds all files or none, and the flag says which, whatever
\* load_templates fails on (html_controler.py:114-120, 176, 182-199).
CacheIsWhole == cache = IF templates_loaded THEN Files ELSE {}

\* A client that asks for a file is never told that the server has lost it:
\* the answers of html_controler.py:446 and 458 are not reached, although
\* other clients free the files while it sends its request.
FileIsThere == \A c \in Clients : body[c] # "missing"

\* What was announced as the length is what follows: a response that was
\* sent to its end is one head and the body the head announced, although
\* the files it comes from may be freed in between
\* (html_controler.py:516-536).
BodyAsAnnounced ==
    [][ \A c \in Clients :
          client[c] \in {"head", "body"} /\ client'[c] = "closing"
            => written'[c] = IF body[c] = "" THEN <<Head1(code[c], "")>>
                          ELSE <<Head1(code[c], body[c]), body[c]>> ]_webVars

\* A connection is closed in the end (html_controler.py:559-563), with two
\* exceptions: a peer that goes on sending header lines is read from without
\* end (378-388), and a handler may wait for hw_lock for ever, as the worker
\* does (pico_board.py:140 with pico_pin.py:221).
ConnectionCloses ==
    \A c \in Clients :
        c \in quiet /\ client[c] # "none"
          ~> client[c] = "none" \/ [](client[c] = "handler")

\* Every connection is answered from a whole set of files with what its head
\* announced, and is closed unless its peer or its handler holds it up
\* (html_controler.py:114-186, 352-564), although other clients load and free
\* the files meanwhile.
AnswersAreWhole == /\ [](CacheIsWhole /\ FileIsThere)
                   /\ BodyAsAnnounced /\ ConnectionCloses
=============================================================================
