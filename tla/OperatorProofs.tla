--------------------------- MODULE OperatorProofs ---------------------------
(***************************************************************************)
(* Theorems about Operator, for every number of commands, schedules, seats *)
(* and cover images, with the uploader it works with.                      *)
(***************************************************************************)
EXTENDS Operator, TLAPS

Stored(s, h) == Complete(s, h) /\ h \in stored

-----------------------------------------------------------------------------
(* The inductive invariant: what a request, an answer and a hash are about  *)
(* depends on where the command is.                                         *)

RequestOK(c) ==
    /\ request[c] # U!NoRequest => reply[c] = U!NoReply
    /\ pc[c] \notin {"cover", "zip", "json", "failed"} => U!Idle(c)
    /\ pc[c] \in {"cover", "zip"} /\ request[c] # U!NoRequest => request[c].content \in File
    /\ pc[c] = "json" /\ request[c] # U!NoRequest =>
           request[c].api = "json" /\ Complete(job[c].schedule, request[c].content)

ReplyOK(c) ==
    /\ reply[c].hash \in stored \union {NoHash}
    /\ pc[c] \in {"cover", "zip"} => reply[c].hash \in File \union {NoHash}
    /\ pc[c] = "json" /\ reply[c].body = "json" => Stored(job[c].schedule, reply[c].hash)
    /\ pc[c] = "json" => reply[c].hash \in Metadata \union {NoHash}

HashesOK(c) ==
    /\ cover[c] \in stored \union {NoHash}
    /\ special[c] \in stored \union {NoHash}
    /\ pc[c] \in {"publish", "register", "wait"} => Stored(job[c].schedule, metadata[c])
    /\ call[c] # "none" => Stored(job[c].schedule, metadata[c])
                           /\ pc[c] \in {"wait", "success", "failed"}

IInv ==
    /\ TypeOK
    /\ \A c \in Command : RequestOK(c) /\ ReplyOK(c) /\ HashesOK(c)
    /\ PublishedIsComplete

-----------------------------------------------------------------------------
(* The IPFS node forgets nothing.                                           *)

LEMMA CompleteStays ==
    ASSUME stored \subseteq stored', NEW s, NEW h, Complete(s, h)
    PROVE  Complete(s, h)'
  BY DEF Complete

LEMMA StoredStays ==
    ASSUME stored \subseteq stored', NEW s, NEW h, Stored(s, h)
    PROVE  Stored(s, h)'
  BY CompleteStays DEF Stored

\* What a step leaves alone stays as it was for the command.
LEMMA HashesStay ==
    ASSUME stored \subseteq stored', NEW c \in Command, HashesOK(c),
           UNCHANGED job,
           cover'[c] = cover[c], special'[c] = special[c], metadata'[c] = metadata[c],
           call'[c] = call[c], pc'[c] = pc[c]
    PROVE  HashesOK(c)'
  <1>1. PICK s0 : s0 = job[c].schedule
    OBVIOUS
  <1>2. PICK h0 : h0 = metadata[c]
    OBVIOUS
  <1>3. Stored(s0, h0) => Stored(s0, h0)'
    BY StoredStays
  <1>5. Stored(job[c].schedule, metadata[c]) => Stored(s0, h0)
    BY <1>1, <1>2
  <1>6. Stored(s0, h0)' => Stored(job[c].schedule, metadata[c])'
    BY <1>1, <1>2
  <1> QED  BY <1>3, <1>5, <1>6 DEF HashesOK

LEMMA PublishedStays ==
    ASSUME stored \subseteq stored', PublishedIsComplete, UNCHANGED url
    PROVE  PublishedIsComplete'
  <1> SUFFICES ASSUME NEW s \in Schedule, url[s] # NoUrl
               PROVE  (Complete(s, url[s].hash) /\ url[s].hash \in stored)'
    BY DEF PublishedIsComplete, NoUrl
  <1>1. PICK h0 : h0 = url[s].hash
    OBVIOUS
  <1>2. Complete(s, h0) /\ h0 \in stored
    BY <1>1 DEF PublishedIsComplete
  <1>3. Complete(s, h0)'
    BY <1>2, CompleteStays
  <1> QED  BY <1>1, <1>2, <1>3

LEMMA ClientStays ==
    ASSUME stored \subseteq stored', NEW c \in Command, RequestOK(c), ReplyOK(c),
           UNCHANGED job,
           request'[c] = request[c], reply'[c] = reply[c], pc'[c] = pc[c]
    PROVE  RequestOK(c)' /\ ReplyOK(c)'
  <1>1. PICK s0, h0, q0 :
           s0 = job[c].schedule /\ h0 = reply[c].hash /\ q0 = request[c].content
    OBVIOUS
  <1>2. /\ Stored(s0, h0) => Stored(s0, h0)'
        /\ Complete(s0, q0) => Complete(s0, q0)'
    BY StoredStays, CompleteStays
  <1>3. /\ Stored(job[c].schedule, reply[c].hash) => Stored(s0, h0)
        /\ Complete(job[c].schedule, request[c].content) => Complete(s0, q0)
    BY <1>1
  <1>4. /\ Stored(s0, h0)' => Stored(job[c].schedule, reply[c].hash)'
        /\ Complete(s0, q0)' => Complete(job[c].schedule, request[c].content)'
    BY <1>1
  <1>5. RequestOK(c)'
    BY <1>2, <1>3, <1>4 DEF RequestOK, U!Idle, U!NoRequest, U!NoReply
  <1>6. ReplyOK(c)'
    BY <1>2, <1>3, <1>4 DEF ReplyOK
  <1> QED  BY <1>5, <1>6

-----------------------------------------------------------------------------
(* Steps of the uploader.                                                   *)

\* An answer that fits where its client is.
Fits(c, r) ==
    /\ r \in U!Reply
    /\ r.hash \in stored \union {NoHash}
    /\ pc[c] \in {"cover", "zip"} => r.hash \in File \union {NoHash}
    /\ pc[c] = "json" => r.hash \in Metadata \union {NoHash}
    /\ pc[c] = "json" /\ r.body = "json" => Stored(job[c].schedule, r.hash)

\* Answers that come all at once: those of the clients in W.
LEMMA AnswersFit ==
    ASSUME IInv, UNCHANGED <<contract, tool, wrote>>, UNCHANGED stored, up' \in BOOLEAN,
           NEW W \in SUBSET Command,
           \A c \in W : pc[c] \in {"cover", "zip", "json", "failed"},
           request' \in [Command -> U!Request \union {U!NoRequest}],
           reply' \in [Command -> U!Reply],
           \A c \in W : request'[c] = U!NoRequest /\ Fits(c, reply'[c]),
           \A c \in Command \ W : request'[c] = request[c] /\ reply'[c] = reply[c]
    PROVE  IInv'
  <1> USE DEF contract, tool
  <1>1. TypeOK'
    BY DEF IInv, TypeOK, U!TypeOK, hashes
  <1>2. PublishedIsComplete'
    BY PublishedStays DEF IInv
  <1>3. ASSUME NEW c \in Command
        PROVE  HashesOK(c)'
    BY <1>3, HashesStay DEF IInv, hashes
  <1>4. ASSUME NEW c \in Command
        PROVE  RequestOK(c)' /\ ReplyOK(c)'
    <2>1. CASE c \in W
      <3>1. PICK s0, h0 : s0 = job[c].schedule /\ h0 = reply'[c].hash
        OBVIOUS
      <3>2. Stored(job[c].schedule, reply'[c].hash) => Stored(s0, h0)
        BY <3>1
      <3>3. Stored(s0, h0) => Stored(s0, h0)'
        BY StoredStays
      <3>4. Stored(s0, h0)' => Stored(job[c].schedule, reply[c].hash)'
        BY <3>1
      <3>5. ReplyOK(c)'
        BY <2>1, <3>2, <3>3, <3>4 DEF ReplyOK, Fits
      <3>6. RequestOK(c)'
        BY <2>1 DEF RequestOK, U!NoRequest
      <3> QED  BY <3>5, <3>6
    <2>2. CASE c \notin W
      BY <2>2, ClientStays DEF IInv
    <2> QED  BY <2>1, <2>2
  <1> QED  BY <1>1, <1>2, <1>3, <1>4 DEF IInv

\* Where a client is that has a request or an answer.
LEMMA AtWork ==
    ASSUME IInv, NEW c \in Command, ~U!Idle(c)
    PROVE  pc[c] \in {"cover", "zip", "json", "failed"}
  BY DEF IInv, RequestOK

LEMMA RespondFits ==
    ASSUME IInv, UNCHANGED <<contract, tool, wrote>>, UNCHANGED stored,
           NEW c \in Command, request[c] # U!NoRequest, NEW r, Fits(c, r), U!Respond(c, r)
    PROVE  IInv'
  <1>1. /\ request \in [Command -> U!Request \union {U!NoRequest}]
        /\ reply \in [Command -> U!Reply]
        /\ up \in BOOLEAN
    BY DEF IInv, TypeOK, U!TypeOK
  <1>2. pc[c] \in {"cover", "zip", "json", "failed"}
    BY AtWork DEF U!Idle
  <1>3. r \in U!Reply
    BY DEF Fits
  <1>4. /\ request'[c] = U!NoRequest /\ reply'[c] = r
        /\ \A d \in Command \ {c} : request'[d] = request[d] /\ reply'[d] = reply[d]
        /\ request' \in [Command -> U!Request \union {U!NoRequest}]
        /\ reply' \in [Command -> U!Reply]
        /\ up' \in BOOLEAN
    BY <1>1, <1>3 DEF U!Respond
  <1>5. \A d \in {c} : request'[d] = U!NoRequest /\ Fits(d, reply'[d])
    BY <1>4
  <1>6. {c} \in SUBSET Command
    OBVIOUS
  <1>7. \A d \in {c} : pc[d] \in {"cover", "zip", "json", "failed"}
    BY <1>2
  <1> HIDE DEF Fits
  <1> QED  BY <1>4, <1>5, <1>6, <1>7, AnswersFit

LEMMA BrokenFits ==
    ASSUME IInv, NEW c \in Command
    PROVE  Fits(c, U!Broken) /\ Fits(c, U!NotJson)
  BY DEF Fits, U!Broken, U!NotJson, U!Reply

\* The process ends: every client at work gets a broken connection.
LEMMA DieStep ==
    ASSUME IInv, UNCHANGED <<contract, tool, wrote>>, U!Die
    PROVE  IInv'
  <1> DEFINE W == {c \in Command : request[c] # U!NoRequest}
  <1>1. /\ request \in [Command -> U!Request \union {U!NoRequest}]
        /\ reply \in [Command -> U!Reply]
    BY DEF IInv, TypeOK, U!TypeOK
  <1>2. U!Broken \in U!Reply
    BY DEF U!Broken, U!Reply
  <1>3. /\ request' = [c \in Command |-> U!NoRequest]
        /\ reply' = [c \in Command |->
                        IF request[c] = U!NoRequest THEN reply[c] ELSE U!Broken]
        /\ up' \in BOOLEAN /\ stored' = stored
    BY DEF U!Die
  <1>4. /\ request' \in [Command -> U!Request \union {U!NoRequest}]
        /\ reply' \in [Command -> U!Reply]
    BY <1>1, <1>2, <1>3
  <1>5. \A c \in W : request'[c] = U!NoRequest /\ reply'[c] = U!Broken
    BY <1>3
  <1>6. \A c \in W : request'[c] = U!NoRequest /\ Fits(c, reply'[c])
    BY <1>5, BrokenFits
  <1>7. \A c \in Command \ W : request'[c] = request[c] /\ reply'[c] = reply[c]
    BY <1>3
  <1>8. \A c \in W : pc[c] \in {"cover", "zip", "json", "failed"}
    BY AtWork DEF U!Idle
  <1>9. W \in SUBSET Command
    OBVIOUS
  <1> HIDE DEF W
  <1> QED  BY <1>3, <1>4, <1>6, <1>7, <1>8, <1>9, AnswersFit

LEMMA UploaderStep ==
    ASSUME IInv, UNCHANGED <<contract, tool, wrote>>, U!Next
    PROVE  IInv'
  <1>1. ASSUME NEW c \in Command, request[c] # U!NoRequest
        PROVE  pc[c] = "json" => request[c].api = "json"
    BY <1>1 DEF IInv, RequestOK
  <1>2. ASSUME NEW c \in Command, U!InApi(c, U!Api)
        PROVE  request[c] # U!NoRequest
    BY <1>2 DEF U!InApi, U!Api, U!NoRequest
  <1>3. ASSUME NEW c \in Command, U!InApi(c, {"upload", "zip"})
        PROVE  Fits(c, U!Json(NoHash)) /\ request[c] # U!NoRequest
    <2>1. request[c] # U!NoRequest
      BY <1>3 DEF U!InApi, U!NoRequest
    <2> QED  BY <1>1, <1>3, <2>1 DEF Fits, U!InApi, U!Json, U!Reply
  <1>4. ASSUME NEW c \in Command, U!Reject(c)
        PROVE  IInv'
    BY <1>3, <1>4, RespondFits DEF U!Reject
  <1>5. ASSUME NEW c \in Command, U!ReadFails(c)
        PROVE  IInv'
    <2>1. request[c] # U!NoRequest
      BY <1>5 DEF U!ReadFails, U!InApi, U!NoRequest
    <2> QED  BY <1>5, <2>1, BrokenFits, RespondFits DEF U!ReadFails
  <1>6. ASSUME NEW c \in Command, U!KuboAdds(c)
        PROVE  IInv'
    <2>1. /\ stored' = stored \union {request[c].content}
          /\ up' = up /\ request' = request /\ reply' = reply
          /\ stored \subseteq stored'
      BY <1>6 DEF U!KuboAdds
    <2>2. request[c] \in U!Request
      BY <1>2, <1>6 DEF U!KuboAdds, IInv, TypeOK, U!TypeOK
    <2>3. request[c].content \in Content
      BY <2>2 DEF U!Request
    <2>4. TypeOK'
      BY <2>1, <2>3 DEF IInv, TypeOK, U!TypeOK, contract, tool, hashes
    <2>5. PublishedIsComplete'
      BY <2>1, PublishedStays DEF IInv, contract
    <2>6. ASSUME NEW d \in Command
          PROVE  RequestOK(d)' /\ ReplyOK(d)' /\ HashesOK(d)'
      <3>1. RequestOK(d)' /\ ReplyOK(d)'
        BY <2>1, ClientStays DEF IInv, tool
      <3>2. HashesOK(d)'
        BY <2>1, HashesStay DEF IInv, tool, hashes, contract
      <3> QED  BY <3>1, <3>2
    <2> QED  BY <2>4, <2>5, <2>6 DEF IInv
  <1>7. ASSUME NEW c \in Command, U!Created(c)
        PROVE  IInv'
    <2>1. request[c] # U!NoRequest
      BY <1>2, <1>7 DEF U!Created
    <2>2. request[c] \in U!Request
      BY <2>1 DEF IInv, TypeOK, U!TypeOK
    <2>3. /\ pc[c] \in {"cover", "zip"} => request[c].content \in File
          /\ pc[c] = "json" => Complete(job[c].schedule, request[c].content)
      BY <2>1 DEF IInv, RequestOK
    <2>4. request[c].content \in stored
      BY <1>7 DEF U!Created
    <2>5. U!Json(request[c].content) \in U!Reply
      BY <2>2 DEF U!Json, U!Reply, U!Request
    <2>6. /\ U!Json(request[c].content).hash = request[c].content
          /\ U!Json(request[c].content).body = "json"
      BY DEF U!Json
    <2>7. pc[c] = "json" => request[c].content \in Metadata
      BY <2>3 DEF Complete
    <2>8. Fits(c, U!Json(request[c].content))
      BY <2>3, <2>4, <2>5, <2>6, <2>7 DEF Fits, Stored
    <2>9. U!Respond(c, U!Json(request[c].content)) /\ stored' = stored
      BY <1>7 DEF U!Created
    <2> QED  BY <2>1, <2>8, <2>9, RespondFits
  <1>8. ASSUME NEW c \in Command, U!KuboCutsOff(c)
        PROVE  IInv'
    <2>1. request[c] # U!NoRequest
      BY <1>2, <1>8 DEF U!KuboCutsOff
    <2>2. CASE U!InApi(c, {"upload"})
      <3>1. U!Respond(c, U!Json(NoHash)) /\ stored' = stored
        BY <1>8, <2>2 DEF U!KuboCutsOff
      <3>2. Fits(c, U!Json(NoHash))
        BY <1>3, <2>2 DEF U!InApi
      <3> QED  BY <2>1, <3>1, <3>2, RespondFits
    <2>3. CASE ~U!InApi(c, {"upload"})
      <3>1. U!Respond(c, U!NotJson) /\ stored' = stored
        BY <1>8, <2>3 DEF U!KuboCutsOff
      <3> QED  BY <2>1, <3>1, BrokenFits, RespondFits
    <2> QED  BY <2>2, <2>3
  <1>9. ASSUME NEW c \in Command, U!KuboFails(c)
        PROVE  IInv'
    <2>1. CASE U!InApi(c, {"upload"}) /\ U!Respond(c, U!Json(NoHash)) /\ stored' = stored
      <3>1. Fits(c, U!Json(NoHash)) /\ request[c] # U!NoRequest
        BY <1>3, <2>1 DEF U!InApi
      <3> QED  BY <2>1, <3>1, RespondFits
    <2>2. CASE U!Die
      BY <2>2, DieStep
    <2> QED  BY <1>9, <2>1, <2>2 DEF U!KuboFails
  <1>10. CASE U!Crash
    BY <1>10, DieStep DEF U!Crash
  <1>11. CASE U!Restart
    <2>1. /\ {} \in SUBSET Command
          /\ up' \in BOOLEAN /\ request' = request /\ reply' = reply /\ stored' = stored
      BY <1>11 DEF U!Restart
    <2>2. /\ request \in [Command -> U!Request \union {U!NoRequest}]
          /\ reply \in [Command -> U!Reply]
      BY DEF IInv, TypeOK, U!TypeOK
    <2> QED  BY <2>1, <2>2, AnswersFit
  <1> QED
    BY <1>4, <1>5, <1>6, <1>7, <1>8, <1>9, <1>10, <1>11 DEF U!Next

-----------------------------------------------------------------------------
(* Steps of the contract.                                                   *)

LEMMA ClientsStay ==
    ASSUME IInv, UNCHANGED <<uploader, tool, call>>
    PROVE  \A c \in Command : RequestOK(c)' /\ ReplyOK(c)' /\ HashesOK(c)'
  <1> SUFFICES ASSUME NEW c \in Command
               PROVE  RequestOK(c)' /\ ReplyOK(c)' /\ HashesOK(c)'
    OBVIOUS
  <1>1. RequestOK(c)' /\ ReplyOK(c)'
    BY ClientStays DEF IInv, uploader, tool
  <1>2. HashesOK(c)'
    BY HashesStay DEF IInv, uploader, tool, hashes
  <1> QED  BY <1>1, <1>2

\* A URL that reaches the contract names documents that are there.
LEMMA PublishesStep ==
    ASSUME IInv, NEW c \in Command, call[c] # "none", Publishes(c),
           UNCHANGED <<uploader, call, tool>>, scheduled' \subseteq Schedule
    PROVE  IInv'
  <1>1. Stored(job[c].schedule, metadata[c])
    BY DEF IInv, HashesOK
  <1>2. job[c].schedule \in Schedule
    BY DEF IInv, TypeOK, Job
  <1>3. UrlOf(c) \in Url /\ UrlOf(c).hash = metadata[c]
    BY <1>1 DEF UrlOf, Url, Stored, Complete
  <1>4. url' = [url EXCEPT ![job[c].schedule] = UrlOf(c)]
    BY DEF Publishes
  <1>5. TypeOK'
    <2>1. url' \in [Schedule -> Url]
      BY <1>2, <1>3, <1>4 DEF IInv, TypeOK
    <2>2. wrote' \subseteq Command
          /\ receipt' \in [Command -> {"none", "succeeded", "failed"}]
      BY DEF IInv, TypeOK, Publishes, Mined
    <2> QED  BY <2>1, <2>2 DEF IInv, TypeOK, U!TypeOK, uploader, tool, hashes
  <1>6. PublishedIsComplete'
    <2> SUFFICES ASSUME NEW s \in Schedule, url'[s] # NoUrl
                 PROVE  (Complete(s, url[s].hash) /\ url[s].hash \in stored)'
      BY DEF PublishedIsComplete, NoUrl
    <2>1. stored' = stored
      BY DEF uploader
    <2>2. CASE s = job[c].schedule
      <3>1. url'[s].hash = metadata[c]
        BY <1>2, <1>3, <1>4, <2>2 DEF IInv, TypeOK
      <3> QED  BY <1>1, <2>1, <2>2, <3>1 DEF Stored, Complete
    <2>3. CASE s # job[c].schedule
      <3>1. url'[s] = url[s]
        BY <1>2, <1>4, <2>3 DEF IInv, TypeOK
      <3> QED  BY <2>1, <3>1 DEF IInv, PublishedIsComplete, Complete
    <2> QED  BY <2>2, <2>3
  <1> QED  BY <1>5, <1>6, ClientsStay DEF IInv

LEMMA ContractStep ==
    ASSUME IInv,
           \/ \E c \in Command :
                 \/ MineSchedulePerformance(c) \/ MineSetTicketDefaultContentBaseUrl(c)
                 \/ MineReverts(c)
           \/ \E s \in Schedule : MinterSchedules(s)
    PROVE  IInv'
  <1>1. ASSUME NEW c \in Command, MineSchedulePerformance(c)
        PROVE  IInv'
    <2>1. /\ call[c] # "none" /\ Publishes(c)
          /\ UNCHANGED <<uploader, call, tool>>
          /\ scheduled' = scheduled \union {job[c].schedule}
      BY <1>1 DEF MineSchedulePerformance
    <2>2. job[c].schedule \in Schedule /\ scheduled \subseteq Schedule
      BY DEF IInv, TypeOK, Job
    <2> QED  BY <2>1, <2>2, PublishesStep
  <1>2. ASSUME NEW c \in Command, MineSetTicketDefaultContentBaseUrl(c)
        PROVE  IInv'
    <2>1. /\ call[c] # "none" /\ Publishes(c)
          /\ UNCHANGED <<uploader, call, tool>>
          /\ scheduled' = scheduled
      BY <1>2 DEF MineSetTicketDefaultContentBaseUrl
    <2>2. scheduled \subseteq Schedule
      BY DEF IInv, TypeOK
    <2> QED  BY <2>1, <2>2, PublishesStep
  <1>3. ASSUME NEW c \in Command, MineReverts(c)
        PROVE  IInv'
    <2>1. UNCHANGED <<uploader, scheduled, url, call, tool, wrote>>
      BY <1>3 DEF MineReverts
    <2>2. receipt' \in [Command -> {"none", "succeeded", "failed"}]
      BY <1>3 DEF MineReverts, Mined, IInv, TypeOK
    <2>3. TypeOK'
      BY <2>1, <2>2 DEF IInv, TypeOK, U!TypeOK, uploader, tool, hashes
    <2>4. PublishedIsComplete'
      BY <2>1, PublishedStays DEF IInv, uploader
    <2> QED  BY <2>1, <2>3, <2>4, ClientsStay DEF IInv
  <1>4. ASSUME NEW s \in Schedule, MinterSchedules(s)
        PROVE  IInv'
    <2>1. /\ UNCHANGED <<uploader, call, receipt, tool, wrote>>
          /\ url' = [url EXCEPT ![s] = NoUrl]
          /\ scheduled' = scheduled \union {s}
      BY <1>4 DEF MinterSchedules
    <2>2. NoUrl \in Url
      BY DEF NoUrl, Url
    <2>3. TypeOK'
      <3>1. url' \in [Schedule -> Url]
        BY <2>1, <2>2 DEF IInv, TypeOK
      <3>2. scheduled' \subseteq Schedule
        BY <2>1 DEF IInv, TypeOK
      <3> QED  BY <2>1, <3>1, <3>2 DEF IInv, TypeOK, U!TypeOK, uploader, tool, hashes
    <2>4. PublishedIsComplete'
      <3> SUFFICES ASSUME NEW r \in Schedule, url'[r] # NoUrl
                   PROVE  (Complete(r, url[r].hash) /\ url[r].hash \in stored)'
        BY DEF PublishedIsComplete, NoUrl
      <3>1. url'[r] = url[r]
        BY <2>1 DEF IInv, TypeOK
      <3>2. stored' = stored
        BY <2>1 DEF uploader
      <3> QED  BY <3>1, <3>2 DEF IInv, PublishedIsComplete, Complete
    <2> QED  BY <2>1, <2>3, <2>4, ClientsStay DEF IInv
  <1> QED  BY <1>1, <1>2, <1>3, <1>4

-----------------------------------------------------------------------------
(* Steps of the commands.                                                   *)

\* A command's step is its own.
LEMMA OwnStep ==
    ASSUME IInv, NEW c \in Command, UNCHANGED <<stored, url, job>>,
           \A d \in Command \ {c} :
               /\ request'[d] = request[d] /\ reply'[d] = reply[d]
               /\ pc'[d] = pc[d] /\ call'[d] = call[d]
               /\ cover'[d] = cover[d] /\ special'[d] = special[d]
               /\ metadata'[d] = metadata[d],
           TypeOK', RequestOK(c)', ReplyOK(c)', HashesOK(c)'
    PROVE  IInv'
  <1>1. ASSUME NEW d \in Command, d # c
        PROVE  RequestOK(d)' /\ ReplyOK(d)' /\ HashesOK(d)'
    <2>1. RequestOK(d)' /\ ReplyOK(d)'
      BY <1>1, ClientStays DEF IInv
    <2>2. HashesOK(d)'
      BY <1>1, HashesStay DEF IInv
    <2> QED  BY <2>1, <2>2
  <1>2. PublishedIsComplete'
    BY PublishedStays DEF IInv
  <1> QED  BY <1>1, <1>2 DEF IInv

LEMMA GotoType ==
    ASSUME TypeOK, NEW c \in Command, NEW stage \in Stage, Goto(c, stage)
    PROVE  /\ pc' \in [Command -> Stage]
           /\ pc'[c] = stage
           /\ \A d \in Command \ {c} : pc'[d] = pc[d]
  BY DEF Goto, TypeOK

\* Moving on without touching anything else, from a place without a request to another.
LEMMA MoveStep ==
    ASSUME IInv, NEW c \in Command, NEW stage \in Stage, Goto(c, stage),
           U!Idle(c), UNCHANGED <<uploader, contract, job, hashes, wrote>>,
           overtaken' \subseteq Command,
           call[c] # "none" => stage \in {"wait", "success", "failed"},
           stage \in {"publish", "register", "wait"} => Stored(job[c].schedule, metadata[c])
    PROVE  IInv'
  <1>1. /\ pc' \in [Command -> Stage] /\ pc'[c] = stage
        /\ \A d \in Command \ {c} : pc'[d] = pc[d]
    BY GotoType DEF IInv
  <1>2. TypeOK'
    BY <1>1 DEF IInv, TypeOK, U!TypeOK, uploader, contract, hashes
  <1>3. RequestOK(c)' /\ ReplyOK(c)'
    BY <1>1 DEF RequestOK, ReplyOK, U!Idle, U!NoReply, U!NoRequest, uploader
  <1>4. HashesOK(c)'
    BY <1>1 DEF IInv, HashesOK, Stored, Complete, uploader, contract, hashes
  <1> QED  BY <1>1, <1>2, <1>3, <1>4, OwnStep DEF uploader, contract, hashes

\* A content that fits where c is.
FitsRequest(c, api, content) ==
    /\ api \in U!Api /\ content \in Content
    /\ pc[c] \in {"cover", "zip"} => content \in File
    /\ pc[c] = "json" => api = "json" /\ Complete(job[c].schedule, content)

LEMMA PostStep ==
    ASSUME IInv, NEW c \in Command, NEW api, NEW content, FitsRequest(c, api, content),
           pc[c] \in {"cover", "zip", "json"},
           U!Post(c, api, content), UNCHANGED <<contract, tool, wrote>>
    PROVE  IInv'
  <1>1. /\ request \in [Command -> U!Request \union {U!NoRequest}]
        /\ reply \in [Command -> U!Reply]
    BY DEF IInv, TypeOK, U!TypeOK
  <1>2. U!Idle(c) /\ stored' = stored /\ up' = up
    BY DEF U!Post
  <1>3. U!Broken \in U!Reply /\ U!Broken # U!NoReply
    BY DEF U!Broken, U!Reply, U!NoReply
  <1>4. HashesOK(c)'
    BY <1>2, HashesStay DEF IInv, contract, tool, hashes
  <1>5. CASE /\ request' = [request EXCEPT ![c] = [api |-> api, content |-> content]]
             /\ reply' = reply
    <2>1. [api |-> api, content |-> content] \in U!Request
      BY DEF FitsRequest, U!Request
    <2>2. request'[c] = [api |-> api, content |-> content] /\ reply'[c] = U!NoReply
      BY <1>1, <1>2, <1>5 DEF U!Idle
    <2>3. TypeOK'
      BY <1>1, <1>2, <1>5, <2>1 DEF IInv, TypeOK, U!TypeOK, contract, tool, hashes
    <2>4. ReplyOK(c)'
      BY <2>2 DEF ReplyOK, U!NoReply
    <2>5. (pc[c] = "json" => Complete(job[c].schedule, request[c].content))'
      BY <1>2, <2>2 DEF FitsRequest, Complete, tool
    <2>6. RequestOK(c)'
      BY <2>2, <2>5 DEF RequestOK, FitsRequest, tool
    <2>7. \A d \in Command \ {c} : request'[d] = request[d] /\ reply'[d] = reply[d]
      BY <1>1, <1>5
    <2> QED
      BY <1>2, <1>4, <2>3, <2>4, <2>6, <2>7, OwnStep DEF contract, tool, hashes
  <1>6. CASE reply' = [reply EXCEPT ![c] = U!Broken] /\ request' = request
    <2>1. request'[c] = U!NoRequest /\ reply'[c] = U!Broken
      BY <1>1, <1>2, <1>6 DEF U!Idle
    <2>2. TypeOK'
      BY <1>1, <1>2, <1>3, <1>6 DEF IInv, TypeOK, U!TypeOK, contract, tool, hashes
    <2>3. ReplyOK(c)'
      BY <2>1 DEF ReplyOK, U!Broken
    <2>4. RequestOK(c)'
      BY <2>1 DEF RequestOK, tool
    <2>5. \A d \in Command \ {c} : request'[d] = request[d] /\ reply'[d] = reply[d]
      BY <1>1, <1>6
    <2> QED
      BY <1>2, <1>4, <2>2, <2>3, <2>4, <2>5, OwnStep DEF contract, tool, hashes
  <1> QED  BY <1>5, <1>6 DEF U!Post

\* What curl printed is parsed: the new hashes are those of c alone.
LEMMA OutputStep ==
    ASSUME IInv, NEW c \in Command, NEW stage \in {"cover", "zip", "json"},
           NEW next \in Stage, Output(c, stage, next), call'[c] = call[c],
           \A d \in Command \ {c} :
               /\ cover'[d] = cover[d] /\ special'[d] = special[d]
               /\ metadata'[d] = metadata[d],
           cover' \in [Command -> File \union {NoHash}],
           special' \in [Command -> File \union {NoHash}],
           metadata' \in [Command -> Metadata \union {NoHash}],
           cover'[c] \in stored \union {NoHash}, special'[c] \in stored \union {NoHash},
           next \in {"zip", "json", "publish", "failed"},
           next = "publish" => Stored(job[c].schedule, metadata'[c])
    PROVE  IInv'
  <1>1. /\ pc[c] = stage /\ reply[c] # U!NoReply
        /\ reply' = [reply EXCEPT ![c] = U!NoReply]
        /\ UNCHANGED <<up, request, stored, contract, job, wrote, overtaken>>
        /\ Goto(c, next)
    BY DEF Output, U!Take
  <1>2. /\ pc' \in [Command -> Stage] /\ pc'[c] = next
        /\ \A d \in Command \ {c} : pc'[d] = pc[d]
    BY <1>1, GotoType DEF IInv
  <1>3. /\ request \in [Command -> U!Request \union {U!NoRequest}]
        /\ reply \in [Command -> U!Reply]
    BY DEF IInv, TypeOK, U!TypeOK
  <1>4. U!NoReply \in U!Reply
    BY DEF U!NoReply, U!Reply
  <1>5. request'[c] = U!NoRequest
    BY <1>1 DEF IInv, RequestOK
  <1>6. reply'[c] = U!NoReply
    BY <1>1, <1>3
  <1>7. TypeOK'
    BY <1>1, <1>2, <1>3, <1>4 DEF IInv, TypeOK, U!TypeOK, contract
  <1>8. RequestOK(c)' /\ ReplyOK(c)'
    BY <1>5, <1>6 DEF RequestOK, ReplyOK, U!Idle, U!NoReply
  <1>9. call'[c] = "none"
    BY <1>1 DEF IInv, HashesOK
  <1>10. HashesOK(c)'
    BY <1>1, <1>2, <1>9 DEF HashesOK, Stored, Complete
  <1>11. \A d \in Command \ {c} : request'[d] = request[d] /\ reply'[d] = reply[d]
    BY <1>1, <1>3
  <1> QED
    BY <1>1, <1>2, <1>7, <1>8, <1>10, <1>11, OwnStep DEF contract

LEMMA CommandStep ==
    ASSUME IInv, NEW c \in Command, Step(c)
    PROVE  IInv'
  <1> USE DEF Stage
  <1>1. CASE Start(c)
    <2>1. PICK stage \in {"check", "cover"} : Goto(c, stage)
      BY <1>1 DEF Start
    <2>2. U!Idle(c) /\ call[c] = "none"
      BY <1>1 DEF Start, IInv, RequestOK, HashesOK
    <2>3. overtaken' \subseteq Command
      BY <1>1 DEF Start, IInv, TypeOK
    <2> QED  BY <1>1, <2>1, <2>2, <2>3, MoveStep DEF Start
  <1>2. CASE CheckScheduled(c)
    <2>1. PICK stage \in {"cover", "failed"} : Goto(c, stage)
      BY <1>2 DEF CheckScheduled
    <2>2. U!Idle(c) /\ call[c] = "none"
      BY <1>2 DEF CheckScheduled, IInv, RequestOK, HashesOK
    <2>3. overtaken' \subseteq Command
      BY <1>2 DEF CheckScheduled, IInv, TypeOK
    <2> QED  BY <1>2, <2>1, <2>2, <2>3, MoveStep DEF CheckScheduled
  <1>3. CASE PostCover(c)
    <2>1. FitsRequest(c, "upload", Image(job[c].cover))
      BY <1>3 DEF PostCover, FitsRequest, U!Api, Content, File, IInv, TypeOK, Job
    <2> QED  BY <1>3, <2>1, PostStep DEF PostCover
  <1>4. CASE PostZip(c)
    <2>1. FitsRequest(c, "zip", Archive(job[c].archive))
      BY <1>4 DEF PostZip, FitsRequest, U!Api, Content, File, IInv, TypeOK, Job
    <2> QED  BY <1>4, <2>1, PostStep DEF PostZip
  <1>5. CASE PostJson(c)
    <2>1. \A seat \in Seat : ImageOf(c, seat) \in File \union {NoHash}
                             /\ ImageOf(c, seat) \in stored \union {NoHash}
      BY DEF ImageOf, IInv, TypeOK, HashesOK
    <2>2. job[c].schedule \in Schedule
      BY DEF IInv, TypeOK, Job
    <2>3. Documents(c) \in Metadata
      BY <2>1, <2>2 DEF Documents, Metadata, PerformanceSeats, PerformanceScheduleDetails
    <2>4. /\ Documents(c).schedule = job[c].schedule
          /\ \A seat \in Seat : Documents(c).images[seat] = ImageOf(c, seat)
      BY DEF Documents, PerformanceSeats, PerformanceScheduleDetails
    <2>5. Complete(job[c].schedule, Documents(c))
      BY <2>1, <2>3, <2>4 DEF Complete
    <2>6. FitsRequest(c, "json", Documents(c))
      BY <1>5, <2>3, <2>5 DEF PostJson, FitsRequest, U!Api, Content
    <2> QED  BY <1>5, <2>6, PostStep DEF PostJson
  <1>6. CASE TakeBroken(c)
    <2>1. PICK stage \in {"cover", "zip", "json"} : Output(c, stage, "failed")
      BY <1>6 DEF TakeBroken
    <2>2. /\ cover' = cover /\ special' = special /\ metadata' = metadata
          /\ call' = call
      BY <1>6, <2>1 DEF TakeBroken, hashes, Output, contract
    <2> QED  BY <2>1, <2>2, OutputStep DEF IInv, TypeOK, HashesOK
  <1>7. CASE TakeCover(c)
    <2>1. PICK next \in {"zip", "json"} : Output(c, "cover", next)
      BY <1>7 DEF TakeCover
    <2>2. /\ cover' = [cover EXCEPT ![c] = reply[c].hash]
          /\ special' = special /\ metadata' = metadata /\ call' = call
      BY <1>7, <2>1 DEF TakeCover, Output, contract
    <2>3. reply[c].hash \in File \union {NoHash} /\ reply[c].hash \in stored \union {NoHash}
      BY <2>1 DEF Output, IInv, ReplyOK
    <2> QED  BY <2>1, <2>2, <2>3, OutputStep DEF IInv, TypeOK, HashesOK
  <1>8. CASE TakeZip(c)
    <2>1. Output(c, "zip", "json")
      BY <1>8 DEF TakeZip
    <2>2. /\ special' = [special EXCEPT ![c] = reply[c].hash]
          /\ cover' = cover /\ metadata' = metadata /\ call' = call
      BY <1>8, <2>1 DEF TakeZip, Output, contract
    <2>3. reply[c].hash \in File \union {NoHash} /\ reply[c].hash \in stored \union {NoHash}
      BY <2>1 DEF Output, IInv, ReplyOK
    <2> QED  BY <2>1, <2>2, <2>3, OutputStep DEF IInv, TypeOK, HashesOK
  <1>9. CASE TakeJson(c)
    <2>1. PICK next \in {"publish", "failed"} :
             Output(c, "json", next) /\ (next = "publish" => reply[c].body = "json")
      BY <1>9 DEF TakeJson
    <2>2. /\ metadata' = [metadata EXCEPT ![c] = reply[c].hash]
          /\ cover' = cover /\ special' = special /\ call' = call
      BY <1>9, <2>1 DEF TakeJson, Output, contract
    <2>3. /\ reply[c].hash \in Metadata \union {NoHash}
          /\ reply[c].body = "json" => Stored(job[c].schedule, reply[c].hash)
      BY <2>1 DEF Output, IInv, ReplyOK
    <2>4. metadata'[c] = reply[c].hash /\ metadata' \in [Command -> Metadata \union {NoHash}]
      BY <2>2, <2>3 DEF IInv, TypeOK
    <2> QED  BY <2>1, <2>2, <2>3, <2>4, OutputStep DEF IInv, TypeOK, HashesOK
  <1>10. ASSUME NEW stage \in Stage, NEW function \in {"none", "schedule", "setUrl"},
                Goto(c, stage), pc[c] \in {"publish", "register"},
                stage \in {"wait", "failed"},
                call' = [call EXCEPT ![c] = function],
                UNCHANGED <<uploader, scheduled, url, receipt, job, hashes, wrote, overtaken>>
         PROVE  IInv'
    <2>1. /\ pc' \in [Command -> Stage] /\ pc'[c] = stage
          /\ \A d \in Command \ {c} : pc'[d] = pc[d]
      BY <1>10, GotoType DEF IInv
    <2>2. TypeOK'
      BY <1>10, <2>1 DEF IInv, TypeOK, U!TypeOK, uploader, hashes
    <2>3. U!Idle(c) /\ Stored(job[c].schedule, metadata[c])
      BY <1>10 DEF IInv, RequestOK, HashesOK
    <2>4. RequestOK(c)' /\ ReplyOK(c)'
      BY <1>10, <2>1, <2>3
      DEF RequestOK, ReplyOK, U!Idle, U!NoReply, U!NoRequest, uploader
    <2>5. Stored(job[c].schedule, metadata[c])'
      BY <1>10, <2>3 DEF Stored, Complete, uploader, hashes
    <2>6. HashesOK(c)'
      BY <1>10, <2>1, <2>5 DEF IInv, HashesOK, uploader, hashes
    <2>7. \A d \in Command \ {c} : call'[d] = call[d]
      BY <1>10 DEF IInv, TypeOK
    <2> QED
      BY <1>10, <2>1, <2>2, <2>4, <2>6, <2>7, OwnStep DEF uploader, hashes
  <1>11. CASE Publish(c)
    <2>1. CASE Goto(c, "wait") /\ Send(c, "setUrl")
      BY <1>10, <1>11, <2>1 DEF Publish, Send
    <2>2. CASE Goto(c, "register") /\ UNCHANGED contract
      <3>1. U!Idle(c) /\ call[c] = "none" /\ Stored(job[c].schedule, metadata[c])
        BY <1>11 DEF Publish, IInv, RequestOK, HashesOK
      <3>2. overtaken' \subseteq Command
        BY <1>11 DEF Publish, IInv, TypeOK
      <3> QED  BY <1>11, <2>2, <3>1, <3>2, MoveStep DEF Publish
    <2> QED  BY <1>11, <2>1, <2>2 DEF Publish
  <1>12. CASE SchedulePerformance(c)
    <2>1. CASE /\ Goto(c, "success") /\ overtaken' = overtaken \union {c}
               /\ UNCHANGED contract
      <3>1. U!Idle(c) /\ call[c] = "none"
        BY <1>12 DEF SchedulePerformance, IInv, RequestOK, HashesOK
      <3>2. overtaken' \subseteq Command
        BY <2>1 DEF IInv, TypeOK
      <3> QED  BY <1>12, <2>1, <3>1, <3>2, MoveStep DEF SchedulePerformance
    <2>2. CASE Goto(c, "wait") /\ Send(c, "schedule") /\ UNCHANGED overtaken
      BY <1>10, <1>12, <2>2 DEF SchedulePerformance, Send
    <2> QED  BY <1>12, <2>1, <2>2 DEF SchedulePerformance
  <1>13. CASE TxReceipt(c)
    <2>1. PICK stage \in {"success", "failed"} : Goto(c, stage)
      BY <1>13 DEF TxReceipt
    <2>2. U!Idle(c)
      BY <1>13 DEF TxReceipt, IInv, RequestOK
    <2>3. overtaken' \subseteq Command
      BY <1>13 DEF TxReceipt, IInv, TypeOK
    <2> QED  BY <1>13, <2>1, <2>2, <2>3, MoveStep DEF TxReceipt
  <1>14. CASE Fail(c)
    <2>1. CASE call' = call
      <3>1. /\ pc' \in [Command -> Stage] /\ pc'[c] = "failed"
            /\ \A d \in Command \ {c} : pc'[d] = pc[d]
        BY <1>14, GotoType DEF Fail, IInv
      <3>2. /\ UNCHANGED <<uploader, scheduled, url, receipt, job, hashes, wrote, overtaken>>
        BY <1>14 DEF Fail
      <3>3. TypeOK'
        BY <2>1, <3>1, <3>2 DEF IInv, TypeOK, U!TypeOK, uploader, hashes
      <3>4. RequestOK(c)' /\ ReplyOK(c)'
        BY <3>1, <3>2 DEF IInv, RequestOK, ReplyOK, U!NoReply, U!NoRequest, uploader
      <3>5. HashesOK(c)'
        BY <2>1, <3>1, <3>2 DEF IInv, HashesOK, Stored, Complete, uploader, hashes
      <3> QED
        BY <2>1, <3>1, <3>2, <3>3, <3>4, <3>5, OwnStep DEF uploader, hashes
    <2>2. CASE pc[c] = "publish" /\ IsPerformanceScheduled(job[c].schedule) /\ Send(c, "setUrl")
      BY <1>10, <1>14, <2>2 DEF Fail, Send
    <2>3. CASE pc[c] = "register" /\ Send(c, "schedule")
      BY <1>10, <1>14, <2>3 DEF Fail, Send
    <2> QED  BY <1>14, <2>1, <2>2, <2>3 DEF Fail
  <1> QED
    BY <1>1, <1>2, <1>3, <1>4, <1>5, <1>6, <1>7, <1>8, <1>9, <1>11, <1>12, <1>13, <1>14
    DEF Step

-----------------------------------------------------------------------------
(* The theorems.                                                            *)

LEMMA InvariantInit ==
    Init => IInv
  <1> SUFFICES ASSUME Init PROVE IInv
    OBVIOUS
  <1> USE DEF Init, U!Init
  <1>1. U!TypeOK
    BY DEF U!TypeOK, U!NoReply, U!Reply
  <1>2. TypeOK
    BY <1>1 DEF TypeOK, NoUrl, Url, Stage
  <1>3. PublishedIsComplete
    BY DEF PublishedIsComplete
  <1>4. ASSUME NEW c \in Command
        PROVE  RequestOK(c) /\ ReplyOK(c) /\ HashesOK(c)
    BY <1>4 DEF RequestOK, ReplyOK, HashesOK, U!Idle, U!NoReply
  <1> QED  BY <1>2, <1>3, <1>4 DEF IInv

LEMMA InvariantStep ==
    IInv /\ [Next]_vars => IInv'
  <1> SUFFICES ASSUME IInv, [Next]_vars PROVE IInv'
    OBVIOUS
  <1>1. CASE U!Next /\ UNCHANGED <<contract, tool, wrote>>
    BY <1>1, UploaderStep
  <1>2. CASE \/ \E c \in Command :
                   \/ MineSchedulePerformance(c) \/ MineSetTicketDefaultContentBaseUrl(c)
                   \/ MineReverts(c)
             \/ \E s \in Schedule : MinterSchedules(s)
    BY <1>2, ContractStep
  <1>3. CASE \E c \in Command : Step(c)
    BY <1>3, CommandStep
  <1>4. CASE UNCHANGED vars
    <2>1. UNCHANGED <<uploader, contract, tool, wrote>>
      BY <1>4 DEF vars
    <2>2. TypeOK'
      BY <2>1 DEF IInv, TypeOK, U!TypeOK, uploader, contract, tool, hashes
    <2>3. PublishedIsComplete'
      BY <2>1, PublishedStays DEF IInv, uploader, contract
    <2>4. UNCHANGED <<uploader, tool, call>>
      BY <2>1 DEF contract
    <2> QED  BY <2>2, <2>3, <2>4, ClientsStay DEF IInv
  <1> QED  BY <1>1, <1>2, <1>3, <1>4 DEF Next

\* What a command waits for, holds and publishes is of the kind it takes it for; the
\* invariant the other theorems follow from.
THEOREM OperatorInvariant == Spec => []IInv
  BY InvariantInit, InvariantStep, PTL DEF Spec

\* Type correctness of the tool together with the uploader.
THEOREM TypeCorrect == Spec => []TypeOK
  <1>1. IInv => TypeOK
    BY DEF IInv
  <1> QED  BY <1>1, OperatorInvariant, PTL

\* A URL on the contract names a complete directory that is in IPFS.
THEOREM PublishedAreComplete == Spec => []PublishedIsComplete
  <1>1. IInv => PublishedIsComplete
    BY DEF IInv
  <1> QED  BY <1>1, OperatorInvariant, PTL

-----------------------------------------------------------------------------
(* Who has published what.                                                  *)

Bookkeeping ==
    /\ TypeOK
    /\ \A s \in Schedule : url[s] # NoUrl => s \in scheduled
    /\ \A c \in Command : receipt[c] = "succeeded" => c \in wrote
    /\ SuccessIsPublished

\* A transaction of c is mined well.
LEMMA PublishesBooks ==
    ASSUME Bookkeeping, TypeOK', NEW c \in Command, Publishes(c),
           scheduled \subseteq scheduled', job[c].schedule \in scheduled', UNCHANGED tool
    PROVE  Bookkeeping'
  <1>1. ASSUME NEW s \in Schedule, url'[s] # NoUrl
        PROVE  s \in scheduled'
    BY <1>1 DEF Bookkeeping, TypeOK, Publishes
  <1>2. ASSUME NEW d \in Command, receipt'[d] = "succeeded"
        PROVE  d \in wrote'
    BY <1>2 DEF Bookkeeping, TypeOK, Publishes, Mined
  <1>3. SuccessIsPublished'
    BY DEF Bookkeeping, SuccessIsPublished, Publishes, tool
  <1> QED  BY <1>1, <1>2, <1>3 DEF Bookkeeping, NoUrl

\* A step that leaves the contract alone may only add overtaken commands, and ends well
\* only what is overtaken or has a good receipt.
LEMMA ToolBooks ==
    ASSUME Bookkeeping, TypeOK', UNCHANGED <<scheduled, url, receipt, wrote>>,
           overtaken \subseteq overtaken', NEW c \in Command,
           \A d \in Command \ {c} : pc'[d] = pc[d],
           pc'[c] = "success" => \/ pc[c] = "success"
                                \/ c \in overtaken'
                                \/ receipt[c] = "succeeded"
    PROVE  Bookkeeping'
  <1>1. SuccessIsPublished'
    BY DEF Bookkeeping, SuccessIsPublished
  <1> QED  BY <1>1 DEF Bookkeeping, NoUrl

LEMMA BookkeepingStep ==
    ASSUME Bookkeeping, TypeOK', [Next]_vars
    PROVE  Bookkeeping'
  <1>1. CASE UNCHANGED <<contract, tool, wrote>>
    BY <1>1 DEF Bookkeeping, SuccessIsPublished, contract, tool, NoUrl
  <1>2. ASSUME NEW c \in Command, MineSchedulePerformance(c)
        PROVE  Bookkeeping'
    BY <1>2, PublishesBooks DEF MineSchedulePerformance
  <1>3. ASSUME NEW c \in Command, MineSetTicketDefaultContentBaseUrl(c)
        PROVE  Bookkeeping'
    BY <1>3, PublishesBooks DEF MineSetTicketDefaultContentBaseUrl
  <1>4. ASSUME NEW c \in Command, MineReverts(c)
        PROVE  Bookkeeping'
    <2>1. UNCHANGED <<scheduled, url, tool, wrote>>
      BY <1>4 DEF MineReverts
    <2>2. \A d \in Command : receipt'[d] = "succeeded" => receipt[d] = "succeeded"
      BY <1>4 DEF MineReverts, Mined, Bookkeeping, TypeOK
    <2> QED  BY <2>1, <2>2 DEF Bookkeeping, SuccessIsPublished, tool, NoUrl
  <1>5. ASSUME NEW s \in Schedule, MinterSchedules(s)
        PROVE  Bookkeeping'
    <2>1. UNCHANGED <<receipt, tool, wrote>> /\ scheduled \subseteq scheduled'
      BY <1>5 DEF MinterSchedules
    <2>2. \A r \in Schedule : url'[r] # NoUrl => url[r] # NoUrl
      BY <1>5 DEF MinterSchedules, Bookkeeping, TypeOK
    <2> QED  BY <2>1, <2>2 DEF Bookkeeping, SuccessIsPublished, tool, NoUrl
  <1>6. ASSUME NEW c \in Command, Step(c)
        PROVE  Bookkeeping'
    <2>1. ASSUME NEW stage \in Stage, Goto(c, stage), overtaken' = overtaken,
                 UNCHANGED <<scheduled, url, receipt, wrote>>,
                 stage # "success" \/ receipt[c] = "succeeded"
          PROVE  Bookkeeping'
      <3>1. /\ pc'[c] = stage
            /\ \A d \in Command \ {c} : pc'[d] = pc[d]
        BY <2>1, GotoType DEF Bookkeeping
      <3> QED  BY <2>1, <3>1, ToolBooks
    <2>2. CASE PostCover(c) \/ PostZip(c) \/ PostJson(c)
      BY <1>1, <2>2 DEF PostCover, PostZip, PostJson
    <2>3. CASE Start(c)
      <3>1. PICK stage \in {"check", "cover"} : Goto(c, stage)
        BY <2>3 DEF Start
      <3> QED  BY <2>1, <2>3, <3>1 DEF Start, contract, Stage
    <2>4. CASE CheckScheduled(c)
      <3>1. PICK stage \in {"cover", "failed"} : Goto(c, stage)
        BY <2>4 DEF CheckScheduled
      <3> QED  BY <2>1, <2>4, <3>1 DEF CheckScheduled, contract, Stage
    <2>5. CASE TakeBroken(c) \/ TakeCover(c) \/ TakeZip(c) \/ TakeJson(c)
      <3>1. PICK stage \in {"cover", "zip", "json"}, next \in {"zip", "json", "publish", "failed"} :
               Output(c, stage, next)
        BY <2>5 DEF TakeBroken, TakeCover, TakeZip, TakeJson
      <3> QED  BY <2>1, <3>1 DEF Output, contract, Stage
    <2>6. CASE Publish(c)
      <3>1. PICK stage \in {"wait", "register"} : Goto(c, stage)
        BY <2>6 DEF Publish
      <3>2. UNCHANGED <<scheduled, url, receipt, wrote, overtaken>>
        BY <2>6 DEF Publish, Send, contract
      <3> QED  BY <2>1, <3>1, <3>2 DEF Stage
    <2>7. CASE SchedulePerformance(c)
      <3>1. UNCHANGED <<scheduled, url, receipt, wrote>>
        BY <2>7 DEF SchedulePerformance, Send, contract
      <3>2. CASE Goto(c, "success") /\ overtaken' = overtaken \union {c}
        <4>1. \A d \in Command \ {c} : pc'[d] = pc[d]
          BY <3>2, GotoType DEF Bookkeeping, Stage
        <4> QED  BY <3>1, <3>2, <4>1, ToolBooks
      <3>3. CASE Goto(c, "wait") /\ UNCHANGED overtaken
        BY <2>1, <3>1, <3>3 DEF Stage
      <3> QED  BY <2>7, <3>2, <3>3 DEF SchedulePerformance
    <2>8. CASE TxReceipt(c)
      <3>1. PICK stage \in {"success", "failed"} :
               Goto(c, stage) /\ (stage = "success" => receipt[c] = "succeeded")
        BY <2>8 DEF TxReceipt, TxSucceeded
      <3> QED  BY <2>1, <2>8, <3>1 DEF TxReceipt, contract, Stage
    <2>9. CASE Fail(c)
      BY <2>1, <2>9 DEF Fail, Stage
    <2> QED
      BY <1>6, <2>2, <2>3, <2>4, <2>5, <2>6, <2>7, <2>8, <2>9 DEF Step
  <1>7. CASE UNCHANGED vars
    BY <1>1, <1>7 DEF vars
  <1> QED  BY <1>1, <1>2, <1>3, <1>4, <1>5, <1>6, <1>7 DEF Next

LEMMA BooksAreKept == Spec => []Bookkeeping
  <1>1. Init /\ TypeOK => Bookkeeping
    BY DEF Init, Bookkeeping, SuccessIsPublished
  <1>2. Bookkeeping /\ TypeOK' /\ [Next]_vars => Bookkeeping'
    BY BookkeepingStep
  <1> QED  BY <1>1, <1>2, TypeCorrect, PTL DEF Spec

\* A command that reports success has published its URL or was overtaken.
THEOREM SuccessPublishes == Spec => []SuccessIsPublished
  <1>1. Bookkeeping => SuccessIsPublished
    BY DEF Bookkeeping
  <1> QED  BY <1>1, BooksAreKept, PTL

\* Tickets that have content keep having some.
THEOREM ContentStays == Spec => NeverUnpublished
  <1>1. ASSUME IInv', Bookkeeping, [Next]_vars, NEW s \in Schedule, url[s] # NoUrl
        PROVE  url'[s].hash # NoHash
    <2>1. url'[s] # NoUrl
      <3>1. ASSUME NEW c \in Command, Publishes(c)
            PROVE  url'[s] # NoUrl
        <4>1. UrlOf(c) # NoUrl
          BY DEF UrlOf, NoUrl
        <4> QED  BY <1>1, <3>1, <4>1 DEF Publishes, Bookkeeping, TypeOK
      <3>2. ASSUME NEW r \in Schedule, MinterSchedules(r)
            PROVE  url'[s] # NoUrl
        <4>1. r # s
          BY <1>1, <3>2 DEF MinterSchedules, CanSchedule, Bookkeeping
        <4> QED  BY <1>1, <3>2, <4>1 DEF MinterSchedules, Bookkeeping, TypeOK
      <3>3. ASSUME NEW c \in Command, Step(c)
            PROVE  url' = url
        BY <3>3 DEF Step, Start, CheckScheduled, PostCover, PostZip, PostJson, TakeBroken,
                    TakeCover, TakeZip, TakeJson, Output, Publish, SchedulePerformance,
                    TxReceipt, Fail, Send, contract
      <3>4. CASE UNCHANGED contract
        BY <1>1, <3>4 DEF contract
      <3>5. CASE UNCHANGED vars
        BY <3>4, <3>5 DEF vars
      <3>6. ASSUME NEW c \in Command, MineReverts(c)
            PROVE  url' = url
        BY <3>6 DEF MineReverts
      <3> QED
        BY <1>1, <3>1, <3>2, <3>3, <3>4, <3>5, <3>6
        DEF Next, MineSchedulePerformance, MineSetTicketDefaultContentBaseUrl
    <2>2. url'[s].hash \in Metadata
      BY <1>1, <2>1 DEF IInv, PublishedIsComplete, Complete, NoUrl
    <2> QED  BY <2>2, OperatorAssumption DEF Content
  <1>2. ASSUME IInv', Bookkeeping, [Next]_vars
        PROVE  \A s \in Schedule : url[s] # NoUrl => url'[s].hash # NoHash
    BY <1>1, <1>2
  <1> QED  BY <1>2, OperatorInvariant, BooksAreKept, PTL DEF Spec, NeverUnpublished
=============================================================================
