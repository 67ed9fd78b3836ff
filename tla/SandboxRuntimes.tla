------------------------------ MODULE SandboxRuntimes ------------------------------
(***************************************************************************)
(* The servers inside a sandbox: the execution of a command, the body of a  *)
(* kept-alive request, the multipart upload as it streams, and the two ways *)
(* in which an upload reaches its file. They share no state; each has its   *)
(* own initial predicate and next-state relation.                           *)
(***************************************************************************)
EXTENDS Integers, FiniteSets, FiniteSetsExt, TLC, SequencesExt, Sequences

CONSTANTS Requests,
          Workers,          \* threads of the executor
          Escapes,          \* whether a child may leave the session
          EnvTimeouts,      \* values of SANDBOX_EXEC_TIMEOUT_SECONDS
          AskedTimeouts,    \* values of timeout_seconds; 0 when there is none
          DefaultTimeout    \* the 300 seconds

CONSTANTS Sizes,        \* lengths of bodies
          ExecuteLimit, UploadLimit,
          Chunk,
          MaxRequests

CONSTANTS Bytes, Separator, MaxBody,
          MaxRead,      \* most bytes a read returns
          Step,         \* UPLOAD_GROW_STEP
          Declared      \* TRUE: the size of the body is known

CONSTANTS Uploads, Paths, MaxParts,
          MaxFaults     \* file operations that fail

CONSTANTS InPlaceUploads, Downloads,
          Size,         \* [Uploads -> blocks of its content]
          Spooled,      \* uploads larger than what is kept in memory
          Runtime,      \* "python" or "firecracker"
          Overlap       \* whether requests run at the same time

VARIABLES env,      \* the environment's timeout
          req,      \* [Requests -> the request and its handler]
          leader,   \* [Requests -> the shell: "none", "alive" or "exited"]
          child,    \* [Requests -> what it started]
          exit      \* [Requests -> the shell's own exit code]

VARIABLES bodyReq,      \* the request being served
          body,     \* the BodyReader
          wire,     \* units of the body the client has not seen read
          pc,       \* "parse", "read", "drain", "draining", "answer", "closed"
          bodyGot,      \* units handed to the handler
          close,    \* the connection ends with this answer
          answer,   \* the status, 0 before
          served    \* requests so far

VARIABLES multiBody,         \* the whole body, from the start of the content
          multiAt,           \* how much of it was read
          buf,          \* MultipartStream._buf
          file,         \* what os.write was given
          allocated,    \* the size ftruncate gave the file
          state         \* "copy", "done" (the separator was found) or "early"

VARIABLES atomicFile,     \* [Paths -> the content in place]
          temps,    \* the temporary files on disk: [name |-> , whole |-> ]
          up,       \* [Uploads -> the handler]
          stuck,    \* the temporary files an unlink failed on, history
          faults

VARIABLES inPlaceFile,     \* the target: a sequence of blocks, or Absent
          inPlaceUp,       \* [Uploads -> [pc, at]]
          down,     \* [Downloads -> the download]
          order     \* the uploads answered with success, in that order

-----------------------------------------------------------------------------
(* /execute of the sandbox runtimes: a worker thread starts /bin/sh as the   *)
(* leader of a new session, waits for its pipes to close and for it to exit  *)
(* within a timeout, and otherwise kills its process group and waits again,  *)
(* this time without a limit.                                                *)
(*                                                                           *)
(* External: the command.  It may fork one child, which keeps the pipes or   *)
(* not, and stays in the group or (when Escapes) opens a session of its own; *)
(* it may run for ever.  Seconds are small numbers, and 0 stands for a text  *)
(* that is no finite positive number.                                        *)
execVars == <<env, req, leader, child, exit>>

New == [pc |-> "new", timeout |-> 0, timed_out |-> FALSE, exit_code |-> 0]
NoChild == [alive |-> FALSE, pipe |-> FALSE, grouped |-> TRUE]

TIMEOUT_EXIT_CODE == 124
KILLED == -9

-----------------------------------------------------------------------------

ExecTimeout(raw) == IF raw > 0 THEN raw ELSE DefaultTimeout

Effective(limit, asked) == IF asked = 0 THEN limit ELSE Min({limit, asked})

Request(r, asked) ==
    /\ req[r].pc = "new"
    /\ req' = [req EXCEPT ![r].pc = "queued", ![r].timeout = Effective(ExecTimeout(env), asked)]
    /\ UNCHANGED <<env, leader, child, exit>>

Busy == {r \in Requests : req[r].pc \in {"running", "killing", "draining"}}

Answer(r, timed_out, code) ==
    req' = [req EXCEPT ![r].pc = "answered", ![r].timed_out = timed_out, ![r].exit_code = code]

(* Popen: the shell starts, or an exception is answered with exit code 1. *)
Start(r) ==
    /\ req[r].pc = "queued" /\ Cardinality(Busy) < Workers
    /\ \/ /\ req' = [req EXCEPT ![r].pc = "running"]
          /\ leader' = [leader EXCEPT ![r] = "alive"]
          /\ UNCHANGED exit
       \/ /\ Answer(r, FALSE, 1) /\ exit' = [exit EXCEPT ![r] = 1]
          /\ UNCHANGED leader
    /\ UNCHANGED <<env, child>>

(* communicate() returns once no process holds the pipes and the shell ended.*)
PipesOpen(r) == leader[r] = "alive" \/ (child[r].alive /\ child[r].pipe)

Completes(r) ==
    /\ req[r].pc = "running" /\ ~PipesOpen(r)
    /\ Answer(r, FALSE, exit[r])
    /\ UNCHANGED <<env, leader, child, exit>>

TimesOut(r) ==
    /\ req[r].pc = "running" /\ PipesOpen(r)
    /\ req' = [req EXCEPT ![r].pc = "killing"]
    /\ UNCHANGED <<env, leader, child, exit>>

KillGroup(r) ==
    /\ req[r].pc = "killing"
    /\ req' = [req EXCEPT ![r].pc = "draining"]
    /\ leader' = [leader EXCEPT ![r] = "exited"]
    /\ exit' = [exit EXCEPT ![r] = IF leader[r] = "alive" THEN KILLED ELSE @]
    /\ child' = [child EXCEPT ![r].alive = @ /\ ~child[r].grouped]
    /\ UNCHANGED env

(* The second communicate(), without a timeout. *)
Drains(r) ==
    /\ req[r].pc = "draining" /\ ~PipesOpen(r)
    /\ Answer(r, TRUE, TIMEOUT_EXIT_CODE)
    /\ UNCHANGED <<env, leader, child, exit>>

-----------------------------------------------------------------------------
(* The command *)

Fork(r) ==
    /\ leader[r] = "alive" /\ child[r] = NoChild
    /\ \E pipe \in BOOLEAN, grouped \in (IF Escapes THEN BOOLEAN ELSE {TRUE}) :
        child' = [child EXCEPT ![r] = [alive |-> TRUE, pipe |-> pipe, grouped |-> grouped]]
    /\ UNCHANGED <<env, req, leader, exit>>

ShellExits(r) ==
    /\ leader[r] = "alive" /\ leader' = [leader EXCEPT ![r] = "exited"]
    /\ \E code \in {0, 3} : exit' = [exit EXCEPT ![r] = code]
    /\ UNCHANGED <<env, req, child>>

ChildExits(r) ==
    /\ child[r].alive /\ child' = [child EXCEPT ![r].alive = FALSE]
    /\ UNCHANGED <<env, req, leader, exit>>

ExecInit ==
    /\ env \in EnvTimeouts
    /\ req = [r \in Requests |-> New]
    /\ leader = [r \in Requests |-> "none"]
    /\ child = [r \in Requests |-> NoChild]
    /\ exit = [r \in Requests |-> 0]

Handler(r) == Start(r) \/ Completes(r) \/ TimesOut(r) \/ KillGroup(r) \/ Drains(r)

ExecNext == \E r \in Requests :
    \/ \E asked \in AskedTimeouts : Request(r, asked)
    \/ Handler(r)
    \/ Fork(r) \/ ShellExits(r) \/ ChildExits(r)

(* A handler goes on and its clock runs; a command promises nothing. *)
ExecSpec == ExecInit /\ [][ExecNext]_execVars /\ \A r \in Requests : WF_execVars(Handler(r))

-----------------------------------------------------------------------------

(* A command is reported as timed out exactly when it was killed: a caller   *)
(* can tell it from one that failed on its own, whose exit code it gets.     *)
ExitIsTrue ==
    \A r \in Requests : req[r].pc = "answered" =>
        IF req[r].timed_out THEN req[r].exit_code = TIMEOUT_EXIT_CODE
        ELSE req[r].exit_code = exit[r] /\ exit[r] /= KILLED

(* Once a command is reported as timed out, nothing it started runs: the     *)
(* kill reaches the whole process tree and not just the shell.               *)
NothingOutlives ==
    \A r \in Requests : req[r].timed_out => leader[r] /= "alive" /\ ~child[r].alive

-----------------------------------------------------------------------------
(* One keep-alive connection of the Hyperlight runtime: BodyReader frames    *)
(* the body of a POST by its length or by its chunks and hands at most       *)
(* `limit' of it to the handler; a body that is refused is drained before    *)
(* the answer; and the connection ends with the answer when where the body   *)
(* ends on the wire is not where the next request begins.                    *)
(*                                                                           *)
(* A body is a number of units, read at most Chunk at a time.  `wire' is     *)
(* what the client still has to send of it, the chunk that ends a chunked    *)
(* body included.                                                            *)
DRAIN_FACTOR == 4

bodyVars == <<bodyReq, body, wire, pc, bodyGot, close, answer, served>>

Targets == {"execute", "upload", "other", "GET"}
Framings == {"none", "length", "bad length", "chunked", "bad encoding", "bad chunks"}

IsChunked == body.framing \in {"chunked", "bad chunks"}
LimitOf(target) == IF target = "execute" THEN ExecuteLimit ELSE UploadLimit

NoBody == [framing |-> "none", left |-> 0, total |-> 0, done |-> FALSE, broken |-> FALSE]

(* What a request puts on the wire after its head. *)
OnWire(framing, size) ==
    CASE framing = "none" -> 0
      [] framing \in {"chunked", "bad chunks"} -> size + 1
      [] OTHER -> size

-----------------------------------------------------------------------------

RequestHead(target, framing, size) ==
    LET has_body == framing /= "none" /\ ~(framing = "length" /\ size = 0)
    IN  CASE target = "GET" -> [close |-> has_body, answer |-> 200]
          [] target = "other" -> [close |-> TRUE, answer |-> 404]
          [] framing = "bad length" -> [close |-> TRUE, answer |-> 400]
          [] framing = "bad encoding" -> [close |-> TRUE, answer |-> 501]
          [] OTHER -> [close |-> FALSE, answer |-> 0]

Parse(target, framing, size) ==
    LET h == RequestHead(target, framing, size)
    IN  /\ pc = "parse" /\ served < MaxRequests
        /\ bodyReq' = [target |-> target, limit |-> LimitOf(target), size |-> size]
        /\ body' = [NoBody EXCEPT !.framing = framing, !.left = IF framing = "length" THEN size ELSE 0]
        /\ wire' = OnWire(framing, size)
        /\ close' = h.close /\ answer' = h.answer
        /\ pc' = IF h.answer /= 0 THEN "answer" ELSE "read"
        /\ bodyGot' = 0 /\ served' = served + 1

-----------------------------------------------------------------------------
(* BodyReader *)

Refuse(status) ==
    /\ answer' = status /\ pc' = "drain"

(* One unit of reading: data, the end, a broken frame.  n is how much came.  *)
TakesPlain(n) ==
    /\ body.framing \in {"none", "length"} /\ n \in 1 .. Min({Chunk, body.left})
    /\ body' = [body EXCEPT !.left = @ - n, !.total = @ + n]
    /\ wire' = wire - n

TakesChunk(n) ==
    /\ IsChunked /\ ~body.done /\ n \in 1 .. Min({Chunk, wire - 1})
    /\ body' = [body EXCEPT !.total = @ + n]
    /\ wire' = wire - n

Takes(n) == TakesPlain(n) \/ TakesChunk(n)

AtEnd == IF IsChunked THEN body.done ELSE body.left = 0

(* The zero chunk and its trailers. *)
LastChunk ==
    /\ body.framing = "chunked" /\ ~body.done /\ wire = 1
    /\ body' = [body EXCEPT !.done = TRUE] /\ wire' = 0

Breaks ==
    /\ body.framing = "bad chunks" /\ ~body.broken /\ body' = [body EXCEPT !.broken = TRUE]
    /\ UNCHANGED wire

TooLarge == body.framing = "length" /\ body.total + body.left > bodyReq.limit

Read(n) ==
    /\ pc = "read" /\ ~TooLarge /\ Takes(n)
    /\ IF body.total + n > bodyReq.limit
       THEN Refuse(413) /\ UNCHANGED bodyGot
       ELSE bodyGot' = bodyGot + n /\ UNCHANGED <<pc, answer>>
    /\ UNCHANGED <<bodyReq, close, served>>

ReadTooLarge ==
    /\ pc = "read" /\ TooLarge /\ Refuse(413)
    /\ UNCHANGED <<bodyReq, body, wire, bodyGot, close, served>>

ReadBroken ==
    /\ pc = "read" /\ Breaks /\ Refuse(400)
    /\ UNCHANGED <<bodyReq, bodyGot, close, served>>

ReadLastChunk ==
    /\ pc = "read" /\ LastChunk
    /\ UNCHANGED <<bodyReq, pc, bodyGot, close, answer, served>>

(* The handler has the whole body and answers. *)
Handle ==
    /\ pc = "read" /\ ~TooLarge /\ AtEnd
    /\ \E status \in {200, 422, 500} : answer' = status
    /\ pc' = "answer"
    /\ UNCHANGED <<bodyReq, body, wire, bodyGot, close, served>>

(* The handler refuses the upload for its type or for a part with a bad name.*)
HandlerRefuses ==
    /\ pc = "read" /\ bodyReq.target = "upload" /\ Refuse(403)
    /\ UNCHANGED <<bodyReq, body, wire, bodyGot, close, served>>

-----------------------------------------------------------------------------
(* drain(): the rest, up to DRAIN_FACTOR times the limit; got counts what it *)
(* has discarded.                                                            *)
DrainBudget == DRAIN_FACTOR * bodyReq.limit

StartDrain ==
    /\ pc = "drain"
    /\ pc' = IF body.broken THEN "answer" ELSE "draining"
    /\ close' = (close \/ body.broken)
    /\ bodyGot' = 0
    /\ UNCHANGED <<bodyReq, body, wire, answer, served>>

Drain(n) ==
    /\ pc = "draining" /\ bodyGot < DrainBudget /\ n <= DrainBudget - bodyGot /\ Takes(n)
    /\ bodyGot' = bodyGot + n
    /\ UNCHANGED <<bodyReq, pc, close, answer, served>>

DrainLastChunk ==
    /\ pc = "draining" /\ bodyGot < DrainBudget /\ LastChunk
    /\ UNCHANGED <<bodyReq, pc, bodyGot, close, answer, served>>

DrainBroken ==
    /\ pc = "draining" /\ Breaks
    /\ pc' = "answer" /\ close' = TRUE
    /\ UNCHANGED <<bodyReq, bodyGot, answer, served>>

(* What drain() makes of the connection: kept when the body was read to its  *)
(* end.                                                                      *)
ClosedByDrain == ~AtEnd

EndDrain ==
    /\ pc = "draining" /\ (AtEnd \/ bodyGot >= DrainBudget)
    /\ pc' = "answer" /\ close' = (close \/ ClosedByDrain)
    /\ UNCHANGED <<bodyReq, body, wire, bodyGot, answer, served>>

(* ClientGone, in a read or in the drain: nobody is left to answer. *)
Gone ==
    /\ pc \in {"read", "draining"} /\ ~AtEnd /\ pc' = "closed"
    /\ UNCHANGED <<bodyReq, body, wire, bodyGot, close, answer, served>>

BodyAnswer ==
    /\ pc = "answer"
    /\ pc' = IF close THEN "closed" ELSE "parse"
    /\ UNCHANGED <<bodyReq, body, wire, bodyGot, close, answer, served>>

-----------------------------------------------------------------------------
BodyInit ==
    /\ bodyReq = [target |-> "GET", limit |-> 0, size |-> 0]
    /\ body = NoBody /\ wire = 0 /\ pc = "parse" /\ bodyGot = 0 /\ close = FALSE
    /\ answer = 0 /\ served = 0

Serve == \/ \E n \in 1 .. Chunk : Read(n) \/ Drain(n)
         \/ ReadTooLarge \/ ReadBroken \/ ReadLastChunk \/ Handle \/ HandlerRefuses
         \/ StartDrain \/ DrainLastChunk \/ DrainBroken \/ EndDrain
         \/ BodyAnswer

BodyNext ==
    \/ \E target \in Targets, framing \in Framings, size \in Sizes :
        (framing = "none" => size = 0) /\ Parse(target, framing, size)
    \/ Serve
    \/ Gone

(* A client sends what it announced or goes; the socket's timeout sees to it.*)
BodySpec == BodyInit /\ [][BodyNext]_bodyVars /\ WF_bodyVars(Serve)

-----------------------------------------------------------------------------

(* The next request is read where the previous body ended: a connection is   *)
(* reused only when nothing of the body is left on the wire and its framing  *)
(* was sound.                                                                *)
InSync == pc = "parse" => wire = 0 /\ ~body.broken

(* A refused client that stays gets its answer rather than a reset: the      *)
(* connection closes on unread data only when the framing was broken or the  *)
(* drain has read DRAIN_FACTOR times the limit.                              *)
AnswerReaches ==
    pc = "answer" /\ answer \in {403, 413} /\ wire > 0 /\ ~body.broken => bodyGot = DrainBudget

(* A sound body within the drain's budget costs no connection: after a       *)
(* refusal the next request can follow on it.                                *)
DrainedIsKept ==
    pc = "draining" /\ pc' = "answer" /\ wire' = 0 /\ ~body'.broken => ~close'

-----------------------------------------------------------------------------
(* The streaming path of an upload to the Hyperlight runtime: MultipartStream *)
(* copies the content of a part up to the separator, which may be cut by the  *)
(* end of any read, into a GrowingFile, whose space is allocated in steps     *)
(* ahead of the writes and cut to what was written at the end.                *)
(*                                                                            *)
(* A byte is a small number; the body, the separator and how much each read   *)
(* returns are chosen freely.                                                 *)
multiVars == <<multiBody, multiAt, buf, file, allocated, state>>

Bodies == UNION {[1 .. n -> Bytes] : n \in 0 .. MaxBody}

(* bytes.find: the first place of the separator, from 0, or -1. *)
FindIn(s) ==
    LET places == {i \in 0 .. Len(s) - Len(Separator) :
                    SubSeq(s, i + 1, i + Len(Separator)) = Separator}
    IN  IF places = {} THEN -1 ELSE Min(places)

Expected == IF Declared THEN Len(multiBody) ELSE 0

-----------------------------------------------------------------------------
(* GrowingFile *)

(* The size the file is given when a write passes what is allocated. *)
Allocates(end) ==
    IF Expected > end THEN Min({Expected, Max({end + Step, 2 * end})}) ELSE end + Step

Write(data) ==
    LET end == Len(file) + Len(data)
    IN  /\ file' = file \o data
        /\ allocated' = IF end > allocated THEN Allocates(end) ELSE allocated

(* finish(): the file is cut to what was written. *)
Finish == allocated' = Len(file')

-----------------------------------------------------------------------------

Keep == Len(Separator) - 1

Held == IF Len(buf) > Keep THEN SubSeq(buf, Len(buf) - Keep + 1, Len(buf)) ELSE buf

Flushed == IF Len(buf) > Keep THEN SubSeq(buf, 1, Len(buf) - Keep) ELSE <<>>

(* One turn of _copy_until's loop, with the read at its end. *)
CopyAndFill(n) ==
    /\ state = "copy" /\ FindIn(buf) < 0
    /\ n <= Len(multiBody) - multiAt
    /\ IF Flushed = <<>> THEN UNCHANGED <<file, allocated>> ELSE Write(Flushed)
    /\ buf' = Held \o SubSeq(multiBody, multiAt + 1, multiAt + n) /\ multiAt' = multiAt + n
    /\ UNCHANGED <<multiBody, state>>

(* The body ends before the separator. *)
EndsEarly ==
    /\ state = "copy" /\ FindIn(buf) < 0 /\ multiAt = Len(multiBody)
    /\ IF Flushed = <<>> THEN UNCHANGED <<file, allocated>> ELSE Write(Flushed)
    /\ buf' = Held /\ state' = "early"
    /\ UNCHANGED <<multiBody, multiAt>>

(* The separator is found; the part's file is finished. *)
Found ==
    LET i == FindIn(buf)
    IN  /\ state = "copy" /\ i >= 0
        /\ file' = file \o SubSeq(buf, 1, i) /\ buf' = SubSeq(buf, i + Len(Separator) + 1, Len(buf))
        /\ Finish
        /\ state' = "done"
        /\ UNCHANGED <<multiBody, multiAt>>

MultiInit ==
    /\ multiBody \in Bodies
    /\ \E n \in 0 .. Min({MaxRead, Len(multiBody)}) : multiAt = n /\ buf = SubSeq(multiBody, 1, n)
    /\ file = <<>> /\ allocated = 0 /\ state = "copy"

MultiNext == (\E n \in 1 .. MaxRead : CopyAndFill(n)) \/ EndsEarly \/ Found

MultiSpec == MultiInit /\ [][MultiNext]_multiVars /\ WF_multiVars(MultiNext)

-----------------------------------------------------------------------------

(* However the reads cut the body, the file holds exactly what stands before *)
(* the first separator, and what follows it is left for the next part.       *)
CopiesContent ==
    state = "done" =>
        LET i == FindIn(multiBody)
        IN  /\ i >= 0 /\ file = SubSeq(multiBody, 1, i)
            /\ buf \o SubSeq(multiBody, multiAt + 1, Len(multiBody)) = SubSeq(multiBody, i + Len(Separator) + 1, Len(multiBody))

(* A client that declares a large body and stalls holds little more memory   *)
(* than it has sent: the file is allocated at most twice what was written    *)
(* plus a step, and never less than what was written.                        *)
AllocationBounded ==
    state = "copy" => Len(file) <= allocated /\ allocated <= 2 * Len(file) + Step

-----------------------------------------------------------------------------
(* /upload of the Hyperlight runtime: the "file" parts of a body are written *)
(* to temporary files of a hidden directory, a later one replaces an earlier *)
(* one, and only a body read whole is renamed into place.  Uploads run in    *)
(* threads of their own, next to downloads and listings, and any of them may *)
(* end at any await of its body: the client goes, the body is malformed.     *)
(*                                                                           *)
(* A part is the name it asks for: a path, "denied" (outside the base        *)
(* directory), "directory" (what is no file name) or "field" (another form   *)
(* field).  The content of a part is the upload and the part's number.       *)
atomicVars == <<atomicFile, temps, up, stuck, faults>>

NoContent == <<>>
AtomicStart == [pc |-> "start", part |-> 0, name |-> "none", list |-> <<>>, last |-> 0, answer |-> 0]

(* The content (and temporary file) of the p-th part of u. *)
Content(u, p) == <<u, p>>

Fault == faults < MaxFaults /\ faults' = faults + 1
NoFault == UNCHANGED faults

Goes(u, changes) == up' = [up EXCEPT ![u] = changes @@ @]

(* BadRequest: the answer is given once the temporary files are removed. *)
AtomicRefuse(u, status) == Goes(u, [pc |-> "cleanup", answer |-> status])

-----------------------------------------------------------------------------

PartWithName(u, name) ==
    /\ up[u].pc \in {"start", "next"} /\ up[u].part < MaxParts
    /\ LET p == up[u].part + 1
       IN  CASE name = "field" -> Goes(u, [pc |-> "next", part |-> p])
             [] name = "denied" -> AtomicRefuse(u, 403)
             [] name = "directory" -> AtomicRefuse(u, 400)
             [] OTHER -> Goes(u, [pc |-> "unlink", part |-> p, last |-> p, name |-> name])
    /\ UNCHANGED <<atomicFile, temps, stuck, faults>>

Unlisted(s) == SubSeq(s, 1, Len(s) - 1)

(* The earlier "file" part is removed; one that cannot be stays listed.      *)
UnlinkEarlier(u) ==
    /\ up[u].pc = "unlink"
    /\ IF up[u].list = <<>> THEN Goes(u, [pc |-> "mkstemp"]) /\ NoFault /\ UNCHANGED <<temps, stuck>>
       ELSE \/ /\ NoFault /\ temps' = {t \in temps : t.name /= Last(up[u].list).content}
               /\ Goes(u, [list |-> Unlisted(up[u].list)]) /\ UNCHANGED stuck
            \/ /\ Fault /\ AtomicRefuse(u, 500) /\ UNCHANGED temps
               /\ stuck' = stuck \cup {Last(up[u].list).content}
    /\ UNCHANGED atomicFile

MakeTemp(u) ==
    LET c == Content(u, up[u].part)
    IN  /\ up[u].pc = "mkstemp"
        /\ \/ /\ NoFault /\ temps' = temps \cup {[name |-> c, whole |-> FALSE]}
              /\ Goes(u, [pc |-> "copy", list |-> Append(up[u].list, [content |-> c, path |-> up[u].name])])
           \/ Fault /\ AtomicRefuse(u, 500) /\ UNCHANGED temps
        /\ UNCHANGED <<atomicFile, stuck>>

(* The content is copied and finished, or a write fails. *)
Copy(u) ==
    LET c == Content(u, up[u].part)
    IN  /\ up[u].pc = "copy"
        /\ \/ /\ NoFault /\ Goes(u, [pc |-> "next"])
              /\ temps' = (temps \ {[name |-> c, whole |-> FALSE]}) \cup {[name |-> c, whole |-> TRUE]}
           \/ Fault /\ AtomicRefuse(u, 500) /\ UNCHANGED temps
        /\ UNCHANGED <<atomicFile, stuck>>

(* The body ends early or is malformed (400, 413), or its client goes (0).   *)
AtomicEnds(u, status) ==
    /\ up[u].pc \in {"start", "next", "copy"} /\ AtomicRefuse(u, status)
    /\ UNCHANGED <<atomicFile, temps, stuck, faults>>

(* The closing delimiter and the epilogue. *)
BodyWhole(u) ==
    /\ up[u].pc \in {"start", "next"}
    /\ IF up[u].list = <<>> THEN AtomicRefuse(u, 422) ELSE Goes(u, [pc |-> "replace"])
    /\ UNCHANGED <<atomicFile, temps, stuck, faults>>

Replace(u) ==
    LET t == Last(up[u].list)
    IN  /\ up[u].pc = "replace"
        /\ \/ /\ NoFault
              /\ atomicFile' = [atomicFile EXCEPT ![t.path] = t.content]
              /\ temps' = {x \in temps : x.name /= t.content}
              /\ Goes(u, [pc |-> "cleanup", list |-> Unlisted(up[u].list), answer |-> 200])
           \/ Fault /\ AtomicRefuse(u, 500) /\ UNCHANGED <<atomicFile, temps>>
        /\ UNCHANGED stuck

(* finally: every listed file is unlinked, past the ones that cannot be. *)
Cleanup(u) ==
    /\ up[u].pc = "cleanup"
    /\ IF up[u].list = <<>> THEN Goes(u, [pc |-> "answered"]) /\ NoFault /\ UNCHANGED <<temps, stuck>>
       ELSE /\ \/ /\ NoFault /\ temps' = {t \in temps : t.name /= Last(up[u].list).content}
                  /\ UNCHANGED stuck
               \/ /\ Fault /\ UNCHANGED temps
                  /\ stuck' = stuck \cup {Last(up[u].list).content}
            /\ Goes(u, [list |-> Unlisted(up[u].list)])
    /\ UNCHANGED atomicFile

-----------------------------------------------------------------------------
AtomicInit ==
    /\ atomicFile = [p \in Paths |-> NoContent]
    /\ temps = {}
    /\ up = [u \in Uploads |-> AtomicStart]
    /\ stuck = {} /\ faults = 0

AtomicStep(u) ==
    \/ UnlinkEarlier(u) \/ MakeTemp(u) \/ Copy(u) \/ BodyWhole(u)
    \/ Replace(u) \/ Cleanup(u)

AtomicNext == \E u \in Uploads :
    \/ \E name \in Paths \cup {"field", "denied", "directory"} : PartWithName(u, name)
    \/ \E status \in {0, 400, 413} : AtomicEnds(u, status)
    \/ AtomicStep(u)

(* A handler goes on; its connection's timeout ends a body that stalls. *)
AtomicSpec == AtomicInit /\ [][AtomicNext]_atomicVars /\ \A u \in Uploads : WF_atomicVars(AtomicStep(u) \/ AtomicEnds(u, 0))

-----------------------------------------------------------------------------

(* A file in place is always one upload's whole content: no reader sees a    *)
(* partial file, and two concurrent uploads never mix.                       *)
InPlaceIsWhole ==
    \A p \in Paths : atomicFile'[p] /= atomicFile[p] => [name |-> atomicFile'[p], whole |-> TRUE] \in temps

(* Once its request is answered, an upload leaves a temporary file only if   *)
(* an unlink failed.                                                         *)
NothingLeftBehind ==
    (\A u \in Uploads : up[u].pc \in {"start", "answered"}) => {t.name : t \in temps} \subseteq stuck

(* A success means that the last "file" part of that body is in place under  *)
(* the name it gave; an upload that is refused or fails changes no file.     *)
AnswerIsTrue ==
    \A u \in Uploads :
     /\ up[u].answer = 0 /\ up'[u].answer = 200
         => atomicFile'[up[u].name] = Content(u, up[u].last)
     /\ up[u].answer = 0 /\ up'[u].answer \notin {0, 200} => atomicFile' = atomicFile

-----------------------------------------------------------------------------
(* The file endpoints of the python runtime and of the Firecracker runtime.  *)
(* Both open the target itself, which empties it, and then write: the python *)
(* runtime in one write, after an await when the upload was spooled to disk; *)
(* the Firecracker runtime block by block, in a thread of its own.  Every    *)
(* open file has an offset of its own.  A download declares the size it      *)
(* finds and then reads blocks up to the end.                                *)
(*                                                                           *)
(* A block is the upload it comes from; the target is the sequence of them.  *)
inPlaceVars == <<inPlaceFile, inPlaceUp, down, order>>

Absent == <<"absent">>
ContentOf(u) == [i \in 1 .. Size[u] |-> u]

NewDown == [pc |-> "new", declared |-> 0, data |-> <<>>, before |-> <<>>]
Running == {u \in InPlaceUploads : inPlaceUp[u].pc \in {"open", "write"}} \cup {d \in Downloads : down[d].pc = "read"}
MayStart == Overlap \/ Running = {}

Blocks == IF inPlaceFile = Absent THEN <<>> ELSE inPlaceFile

(* The target after blocks `data' are written at offset `at'. *)
WriteAt(at, data) ==
    [i \in 1 .. (IF at + Len(data) > Len(Blocks) THEN at + Len(data) ELSE Len(Blocks)) |->
        IF i \in at + 1 .. at + Len(data) THEN data[i - at] ELSE Blocks[i]]

-----------------------------------------------------------------------------

Open(u) ==
    /\ inPlaceUp[u].pc = "new" /\ MayStart
    /\ IF Runtime = "python" /\ u \notin Spooled
       THEN /\ inPlaceFile' = ContentOf(u) /\ inPlaceUp' = [inPlaceUp EXCEPT ![u].pc = "done"]
            /\ order' = Append(order, u)
       ELSE /\ inPlaceFile' = <<>> /\ inPlaceUp' = [inPlaceUp EXCEPT ![u].pc = "write"]
            /\ UNCHANGED order
    /\ UNCHANGED down

(* The path leaves the base directory: answered with 403. *)
Deny(u) ==
    /\ inPlaceUp[u].pc = "new" /\ MayStart /\ inPlaceUp' = [inPlaceUp EXCEPT ![u].pc = "denied"]
    /\ UNCHANGED <<inPlaceFile, down, order>>

(* The write after the await: the whole content; or one block of the copy.   *)
InPlaceWrite(u) ==
    LET whole == Runtime = "python"
        data == IF whole THEN ContentOf(u) ELSE <<u>>
        at == inPlaceUp[u].at + Len(data)
    IN  /\ inPlaceUp[u].pc = "write"
        /\ inPlaceFile' = WriteAt(inPlaceUp[u].at, data)
        /\ inPlaceUp' = [inPlaceUp EXCEPT ![u] = [pc |-> IF at = Size[u] THEN "done" ELSE "write", at |-> at]]
        /\ order' = IF at = Size[u] THEN Append(order, u) ELSE order
        /\ UNCHANGED down

(* The disk is full: the open file is what was written so far. *)
WriteFails(u) ==
    /\ inPlaceUp[u].pc = "write" /\ inPlaceUp' = [inPlaceUp EXCEPT ![u].pc = "failed"]
    /\ UNCHANGED <<inPlaceFile, down, order>>

-----------------------------------------------------------------------------
(* FileResponse: the size of the moment is declared, then blocks are read;   *)
(* more or fewer of them than declared break the response.                   *)
StartDownload(d) ==
    /\ down[d].pc = "new" /\ MayStart
    /\ down' = [down EXCEPT ![d] =
         IF inPlaceFile = Absent THEN [@ EXCEPT !.pc = "not found"]
         ELSE [pc |-> "read", declared |-> Len(inPlaceFile), data |-> <<>>, before |-> inPlaceFile]]
    /\ UNCHANGED <<inPlaceFile, inPlaceUp, order>>

ReadBlock(d) ==
    LET got == Len(down[d].data)
    IN  /\ down[d].pc = "read"
        /\ down' = [down EXCEPT ![d] =
             CASE Len(inPlaceFile) > got /\ got < @.declared -> [@ EXCEPT !.data = Append(@, inPlaceFile[got + 1])]
               [] Len(inPlaceFile) = got /\ got = @.declared -> [@ EXCEPT !.pc = "done"]
               [] OTHER -> [@ EXCEPT !.pc = "broken"]]
        /\ UNCHANGED <<inPlaceFile, inPlaceUp, order>>

InPlaceInit ==
    /\ inPlaceFile = Absent
    /\ inPlaceUp = [u \in InPlaceUploads |-> [pc |-> "new", at |-> 0]]
    /\ down = [d \in Downloads |-> NewDown]
    /\ order = <<>>

InPlaceNext == \/ \E u \in InPlaceUploads : Open(u) \/ Deny(u) \/ InPlaceWrite(u) \/ WriteFails(u)
               \/ \E d \in Downloads : StartDownload(d) \/ ReadBlock(d)

InPlaceSpec == InPlaceInit /\ [][InPlaceNext]_inPlaceVars

-----------------------------------------------------------------------------

AllEnded == \A u \in InPlaceUploads : inPlaceUp[u].pc \in {"new", "done", "denied"}

(* Requests one after the other: the target is the last upload answered, and *)
(* a shorter one leaves no tail of a longer one before it.                   *)
LastIsSaved == AllEnded /\ order /= <<>> => inPlaceFile = ContentOf(order[Len(order)])

(* A download that completes has the size and the content the file had when  *)
(* its size was declared.                                                    *)
DownloadIsWhole == \A d \in Downloads : down[d].pc = "done" => down[d].data = down[d].before
=============================================================================
