------------------------------ MODULE Uploader ------------------------------
(***************************************************************************)
(* The IPFS uploader (eticket-ipfs-uploader): three POST endpoints that    *)
(* hand a file, a directory of JSON documents or the entries of a zip to   *)
(* an IPFS node (kubo) and answer with what the node calls it.  The node   *)
(* names a thing by its content: the hash of a content is the content.     *)
(*                                                                         *)
(* Every request has a handler of its own, and a client has one request at *)
(* a time.  The clients look at the body of an answer only, never at its   *)
(* status: what matters is whether it is one JSON document, and whether    *)
(* there is a hash in it.                                                  *)
(***************************************************************************)
CONSTANTS
    Client,
    Content,     \* what can be uploaded
    NoHash       \* the empty hash, which a client reads when there is none

VARIABLES
    up,          \* the process is running
    request,     \* the request of each client that a handler is working on
    reply,       \* the answer each client has got and not looked at yet
    stored       \* what the IPFS node holds


Api == {"upload", "json", "zip"}
NoRequest == [api |-> "none", content |-> NoHash]
Request == [api : Api, content : Content]

Json(hash) == [body |-> "json", hash |-> hash]      \* one JSON document
NotJson == [body |-> "notJson", hash |-> NoHash]    \* no document, or two
Broken == [body |-> "broken", hash |-> NoHash]      \* no connection, or a broken one
NoReply == [body |-> "none", hash |-> NoHash]

Reply == [body : {"json", "notJson", "broken", "none"}, hash : Content \union {NoHash}]

Init ==
    /\ up = FALSE
    /\ request = [c \in Client |-> NoRequest]
    /\ reply = [c \in Client |-> NoReply]
    /\ stored = {}

Idle(c) == request[c] = NoRequest /\ reply[c] = NoReply
InApi(c, A) == request[c].api \in A

-----------------------------------------------------------------------------
(* The client's side: curl.                                                 *)

Post(c, api, content) ==
    /\ Idle(c)
    /\ IF up
       THEN request' = [request EXCEPT ![c] = [api |-> api, content |-> content]]
            /\ UNCHANGED reply
       ELSE reply' = [reply EXCEPT ![c] = Broken] /\ UNCHANGED request
    /\ UNCHANGED <<up, stored>>

Take(c) ==
    /\ reply[c] # NoReply
    /\ reply' = [reply EXCEPT ![c] = NoReply]
    /\ UNCHANGED <<up, request, stored>>

-----------------------------------------------------------------------------
(* The handlers.                                                            *)

Respond(c, r) ==
    /\ request' = [request EXCEPT ![c] = NoRequest]
    /\ reply' = [reply EXCEPT ![c] = r]
    /\ UNCHANGED up

\* The process ends, and with it the connections of all clients.
Die ==
    /\ up' = FALSE
    /\ request' = [c \in Client |-> NoRequest]
    /\ reply' = [c \in Client |-> IF request[c] = NoRequest THEN reply[c] ELSE Broken]
    /\ UNCHANGED stored

\* A message instead of a hash: the file cannot be opened, it is not called .zip or it
\* is none.  A "json" request is refused, too, if its body does not bind; it is assumed
\* that those of eticketctl do, which come from json.Marshal with both required fields.
Reject(c) ==
    /\ InApi(c, {"upload", "zip"})
    /\ Respond(c, Json(NoHash))
    /\ UNCHANGED stored

\* Reading the file fails: the message is written, and then what the node makes of the
\* part that was read.
ReadFails(c) ==
    /\ InApi(c, {"upload"})
    /\ Respond(c, NotJson)
    /\ UNCHANGED stored

\* The node takes everything in.
KuboAdds(c) ==
    /\ InApi(c, Api)
    /\ stored' = stored \union {request[c].content}
    /\ UNCHANGED <<up, request, reply>>

\* Variant: the answer does not wait for the node.
CreatedEarly(c) ==
    /\ InApi(c, Api)
    /\ Respond(c, Json(request[c].content))
    /\ UNCHANGED stored

Created(c) ==
    /\ InApi(c, Api)
    /\ request[c].content \in stored
    /\ Respond(c, Json(request[c].content))
    /\ UNCHANGED stored

\* The node's answer ends with an error, without the line of the directory: adding the
\* items to the line that is not there panics, and gin answers with an empty body.  An
\* answer about a file is passed on as it is.
KuboCutsOff(c) ==
    /\ InApi(c, Api)
    /\ Respond(c, IF InApi(c, {"upload"}) THEN Json(NoHash) ELSE NotJson)
    /\ UNCHANGED stored

\* The node cannot be reached or breaks off, or an entry of the zip is corrupt:
\* log.Fatal ends the process, where the upload of a file only answers with a message.
KuboFails(c) ==
    \/ /\ InApi(c, {"upload"})
       /\ Respond(c, Json(NoHash))
       /\ UNCHANGED stored
    \/ InApi(c, {"json", "zip"}) /\ Die

-----------------------------------------------------------------------------
Crash == up /\ Die

\* "restart: on-failure"
Restart ==
    /\ ~up
    /\ up' = TRUE
    /\ UNCHANGED <<request, reply, stored>>

Next ==
    \/ \E c \in Client :
          Reject(c) \/ ReadFails(c) \/ KuboAdds(c) \/ Created(c) \/ KuboCutsOff(c) \/ KuboFails(c)
    \/ Crash
    \/ Restart

\* The type of every variable of the uploader.
TypeOK ==
    /\ up \in BOOLEAN
    /\ request \in [Client -> Request \union {NoRequest}]
    /\ reply \in [Client -> Reply]
    /\ stored \subseteq Content
=============================================================================
