------------------------------ MODULE Operator ------------------------------
(***************************************************************************)
(* The operator's tool (eticketctl) gives the tickets of a performance     *)
(* schedule their content: "default" uploads a cover image and then, for   *)
(* every seat, a JSON document that names it; "special" uploads a zip with *)
(* images of single seats as well.  The URL of the directory of documents  *)
(* goes to the contract, with the registration of the schedule if it is    *)
(* not there yet.  Each command is a process that talks to the uploader    *)
(* and to the contract, which the minter registers schedules at, too.      *)
(***************************************************************************)
CONSTANTS
    Command,     \* runs of the tool
    Schedule, Seat,
    Cover,       \* cover images
    NoHash

VARIABLES
    \* the uploader
    up, request, reply, stored,
    \* the contract
    scheduled,   \* the schedules registered
    url,         \* their ticketDefaultContentBaseUrl
    call,        \* the transaction each command has sent
    receipt,     \* and its receipt
    \* the tool
    job,         \* the arguments of each command
    pc,          \* where it is
    cover,       \* the hash it has got for the cover image,
    special,     \* ... for the zip
    metadata,    \* ... and for the documents
    \* history
    wrote,       \* commands whose URL reached the contract
    overtaken    \* commands that saw the schedule registered only when about to do it

uploader == <<up, request, reply, stored>>
contract == <<scheduled, url, call, receipt>>
hashes == <<cover, special, metadata>>
tool == <<job, pc, hashes, overtaken>>

-----------------------------------------------------------------------------
\* An archive is the set of the seats it has an image for.
Image(k) == [cover |-> k]
Archive(S) == [archive |-> S]
File == {Image(k) : k \in Cover} \union {Archive(S) : S \in SUBSET Seat}
Metadata == [schedule : Schedule, images : [Seat -> File \union {NoHash}]]
Content == File \union Metadata

ASSUME OperatorAssumption == NoHash \notin Content

U == INSTANCE Uploader WITH Client <- Command

vars == <<uploader, contract, tool, wrote>>

Job == [kind : {"default", "special"}, schedule : Schedule, cover : Cover, archive : SUBSET Seat]
Stage == {"off", "check", "cover", "zip", "json", "publish", "register", "wait",
          "success", "failed"}

Url == [base : {"", "rpc", "gateway"}, hash : Metadata \union {NoHash}]
NoUrl == [base |-> "", hash |-> NoHash]

Init ==
    /\ U!Init
    /\ scheduled = {}
    /\ url = [s \in Schedule |-> NoUrl]
    /\ call = [c \in Command |-> "none"]
    /\ receipt = [c \in Command |-> "none"]
    /\ job \in [Command -> Job]
    /\ \A c \in Command : job[c].kind = "default" => job[c].archive = {}
    /\ pc = [c \in Command |-> "off"]
    /\ cover = [c \in Command |-> NoHash]
    /\ special = [c \in Command |-> NoHash]
    /\ metadata = [c \in Command |-> NoHash]
    /\ wrote = {}
    /\ overtaken = {}

Goto(c, stage) == pc' = [pc EXCEPT ![c] = stage]

-----------------------------------------------------------------------------
(* The contract.                                                            *)

\* Variant: a schedule can be registered over again.
CanScheduleAgain(s) == TRUE

\* A schedule is registered once.
CanSchedule(s) == s \notin scheduled

IsPerformanceScheduled(s) == s \in scheduled

Mined(c, result) == receipt' = [receipt EXCEPT ![c] = result]

\* The URL of c's documents.  A registration takes the address of the blockchain node
\* for that of the IPFS gateway, and so does the command "special".
UrlOf(c) ==
    [base |-> IF call[c] = "setUrl" /\ job[c].kind = "default" THEN "gateway" ELSE "rpc",
     hash |-> metadata[c]]

Publishes(c) ==
    /\ url' = [url EXCEPT ![job[c].schedule] = UrlOf(c)]
    /\ wrote' = wrote \union {c}
    /\ Mined(c, "succeeded")

MineSchedulePerformance(c) ==
    /\ call[c] = "schedule" /\ receipt[c] = "none"
    /\ CanSchedule(job[c].schedule)
    /\ scheduled' = scheduled \union {job[c].schedule}
    /\ Publishes(c)
    /\ UNCHANGED <<uploader, call, tool>>

MineSetTicketDefaultContentBaseUrl(c) ==
    /\ call[c] = "setUrl" /\ receipt[c] = "none"
    /\ job[c].schedule \in scheduled
    /\ Publishes(c)
    /\ UNCHANGED <<uploader, scheduled, call, tool>>

\* The schedule is there already, or a million gas are not enough.
MineReverts(c) ==
    /\ call[c] # "none" /\ receipt[c] = "none"
    /\ Mined(c, "failed")
    /\ UNCHANGED <<uploader, scheduled, url, call, tool, wrote>>

\* The minter registers a schedule, without a URL, before the first ticket is minted.
MinterSchedules(s) ==
    /\ CanSchedule(s)
    /\ scheduled' = scheduled \union {s}
    /\ url' = [url EXCEPT ![s] = NoUrl]
    /\ UNCHANGED <<uploader, call, receipt, tool, wrote>>

-----------------------------------------------------------------------------
(* The commands.                                                            *)

Start(c) ==
    /\ pc[c] = "off"
    /\ Goto(c, IF job[c].kind = "special" THEN "check" ELSE "cover")
    /\ UNCHANGED <<uploader, contract, job, hashes, wrote, overtaken>>

\* Special contents are for schedules that are registered.  A fresh MintHelper asks the
\* contract.
CheckScheduled(c) ==
    /\ pc[c] = "check"
    /\ Goto(c, IF IsPerformanceScheduled(job[c].schedule) THEN "cover" ELSE "failed")
    /\ UNCHANGED <<uploader, contract, job, hashes, wrote, overtaken>>

PostCover(c) ==
    /\ pc[c] = "cover"
    /\ U!Post(c, "upload", Image(job[c].cover))
    /\ UNCHANGED <<contract, tool, wrote>>

PostZip(c) ==
    /\ pc[c] = "zip"
    /\ U!Post(c, "zip", Archive(job[c].archive))
    /\ UNCHANGED <<contract, tool, wrote>>

\* Seats the zip has no image for, all of them if there was no answer about it, get the
\* cover.
ImageOf(c, seat) ==
    IF special[c] # NoHash /\ seat \in job[c].archive THEN special[c] ELSE cover[c]

\* The seats of the hall, whatever is performed there.
PerformanceSeats == Seat

\* The title, the description and the start of the performance, named by its schedule.
PerformanceScheduleDetails(s) == s

\* Variant: the seats without an image of their own are left out.
DocumentsOfArchive(c) ==
    [schedule |-> PerformanceScheduleDetails(job[c].schedule),
     images |-> [seat \in job[c].archive |-> ImageOf(c, seat)]]

\* The documents, one for every seat the database knows.
Documents(c) ==
    [schedule |-> PerformanceScheduleDetails(job[c].schedule),
     images |-> [seat \in PerformanceSeats |-> ImageOf(c, seat)]]

PostJson(c) ==
    /\ pc[c] = "json"
    /\ U!Post(c, "json", Documents(c))
    /\ UNCHANGED <<contract, tool, wrote>>

\* The end of curl.  Its failure ends the command; what it printed is c's to parse.
Output(c, stage, next) ==
    /\ pc[c] = stage
    /\ U!Take(c)
    /\ Goto(c, next)
    /\ UNCHANGED <<contract, job, wrote, overtaken>>

TakeBroken(c) ==
    /\ reply[c].body = "broken"
    /\ \E stage \in {"cover", "zip", "json"} : Output(c, stage, "failed")
    /\ UNCHANGED hashes

\* The error of json.Unmarshal is ignored: without a hash, the hash stays empty.
TakeCover(c) ==
    /\ reply[c].body # "broken"
    /\ Output(c, "cover", IF job[c].kind = "special" THEN "zip" ELSE "json")
    /\ cover' = [cover EXCEPT ![c] = reply[c].hash]
    /\ UNCHANGED <<special, metadata>>

TakeZip(c) ==
    /\ reply[c].body # "broken"
    /\ Output(c, "zip", "json")
    /\ special' = [special EXCEPT ![c] = reply[c].hash]
    /\ UNCHANGED <<cover, metadata>>

TakeJson(c) ==
    /\ reply[c].body # "broken"
    /\ Output(c, "json", IF reply[c].body = "json" THEN "publish" ELSE "failed")
    /\ metadata' = [metadata EXCEPT ![c] = reply[c].hash]
    /\ UNCHANGED <<cover, special>>

Send(c, function) ==
    /\ call' = [call EXCEPT ![c] = function]
    /\ UNCHANGED <<scheduled, url, receipt>>

\* "special" has asked before, "default" asks now.
Publish(c) ==
    /\ pc[c] = "publish"
    /\ IF job[c].kind = "special" \/ IsPerformanceScheduled(job[c].schedule)
       THEN Goto(c, "wait") /\ Send(c, "setUrl")
       ELSE Goto(c, "register") /\ UNCHANGED contract
    /\ UNCHANGED <<uploader, job, hashes, wrote, overtaken>>

\* MintHelper.SchedulePerformance asks again.  If the schedule is there by now, it is
\* content, and so is the tool, although its URL is not.
SchedulePerformance(c) ==
    /\ pc[c] = "register"
    /\ IF IsPerformanceScheduled(job[c].schedule)
       THEN Goto(c, "success") /\ overtaken' = overtaken \union {c} /\ UNCHANGED contract
       ELSE Goto(c, "wait") /\ Send(c, "schedule") /\ UNCHANGED overtaken
    /\ UNCHANGED <<uploader, job, hashes, wrote>>

\* Variant: that there is a receipt is enough.
TxMined(c) == receipt[c] # "none"

TxSucceeded(c) == receipt[c] = "succeeded"

TxReceipt(c) ==
    /\ pc[c] = "wait"
    /\ receipt[c] # "none"
    /\ Goto(c, IF TxSucceeded(c) THEN "success" ELSE "failed")
    /\ UNCHANGED <<uploader, contract, job, hashes, wrote, overtaken>>

\* Any query or call can fail and end the command, and so can the operator.  What it
\* has asked for is done all the same.
Fail(c) ==
    /\ pc[c] \notin {"off", "success", "failed"}
    /\ Goto(c, "failed")
    /\ \/ UNCHANGED call
       \/ pc[c] = "publish" /\ IsPerformanceScheduled(job[c].schedule) /\ Send(c, "setUrl")
       \/ pc[c] = "register" /\ Send(c, "schedule")
    /\ UNCHANGED <<uploader, scheduled, url, receipt, job, hashes, wrote, overtaken>>

-----------------------------------------------------------------------------
Step(c) ==
    \/ Start(c) \/ CheckScheduled(c)
    \/ PostCover(c) \/ PostZip(c) \/ PostJson(c)
    \/ TakeBroken(c) \/ TakeCover(c) \/ TakeZip(c) \/ TakeJson(c)
    \/ Publish(c) \/ SchedulePerformance(c) \/ TxReceipt(c)
    \/ Fail(c)

Next ==
    \/ U!Next /\ UNCHANGED <<contract, tool, wrote>>
    \/ \E c \in Command :
          \/ MineSchedulePerformance(c) \/ MineSetTicketDefaultContentBaseUrl(c)
          \/ MineReverts(c)
          \/ Step(c)
    \/ \E s \in Schedule : MinterSchedules(s)

Spec == Init /\ [][Next]_vars

-----------------------------------------------------------------------------
\* The type of every variable.
TypeOK ==
    /\ U!TypeOK
    /\ scheduled \subseteq Schedule
    /\ url \in [Schedule -> Url]
    /\ call \in [Command -> {"none", "schedule", "setUrl"}]
    /\ receipt \in [Command -> {"none", "succeeded", "failed"}]
    /\ job \in [Command -> Job]
    /\ pc \in [Command -> Stage]
    /\ cover \in [Command -> File \union {NoHash}]
    /\ special \in [Command -> File \union {NoHash}]
    /\ metadata \in [Command -> Metadata \union {NoHash}]
    /\ wrote \subseteq Command
    /\ overtaken \subseteq Command

\* h names documents for every seat of schedule s, whose images are in IPFS.
Complete(s, h) ==
    /\ h \in Metadata
    /\ h.schedule = s
    /\ \A seat \in Seat : h.images[seat] \in stored \union {NoHash}

\* What the tickets of a schedule are to show is in IPFS: the hash in its URL is that of a
\* directory the node has, with a document for every seat of this schedule, and every
\* image the documents name is there, too; whatever the node, the uploader and other
\* commands did between the uploads and the transaction.  The name of an image may be
\* empty, that of the directory not.  It says nothing of the address before the hash.
PublishedIsComplete ==
    \A s \in Schedule : url[s] # NoUrl => Complete(s, url[s].hash) /\ url[s].hash \in stored

\* What a command prints at its end: "metadatas:", the gateway and the hash.
Reported(c) == [base |-> "gateway", hash |-> metadata[c]]

\* The address a command that succeeded reports for its documents is the one their hash
\* has on the contract (eticketctl.go 164 and 261, against 149 and 253).
ReportedIsPublished ==
    \A c \in Command :
        LET published == url[job[c].schedule]
        IN  pc[c] = "success" /\ published.hash = metadata[c] => published = Reported(c)

\* A command that reports success has put its URL on the contract, unless somebody else
\* registered the schedule between its two looks.
SuccessIsPublished ==
    \A c \in Command : pc[c] = "success" => c \in wrote \union overtaken

\* Tickets that have content keep having some: no registration, by the minter or by a
\* command that looked too early, and no later command takes it away.
NeverUnpublished ==
    [][\A s \in Schedule : url[s] # NoUrl => url'[s].hash # NoHash]_vars
=============================================================================
