---------------------------------- MODULE McpTools ----------------------------------
(***************************************************************************)
(* The MCP server of the sandboxes: its sessions, claims and tool calls,    *)
(* and the results it hands back. They share no state; each has its own     *)
(* initial predicate and next-state relation.                               *)
(***************************************************************************)
EXTENDS Integers, FiniteSets, TLC, FiniteSetsExt

CONSTANTS Sessions, NoSession,  \* session ids, and a transport without one
          Names,                \* the uuid names create_sandbox may draw
          Calls,                \* concurrent tool calls
          MaxFaults

CONSTANTS Lengths,      \* lengths of a stream, around the digits of a count
          Budgets,      \* values of max_output_chars
          Listings      \* numbers of entries of a directory, and of max_entries

VARIABLES server,     \* "starting", "serving" or "stopped"
          claim,      \* [Names -> the SandboxClaim]
          handle,     \* [Names -> the registry: "none", "open" or "closed"]
          call,       \* [Calls -> the call in progress or answered]
          maker,      \* [Names -> the session whose create drew the name], history
          faults

VARIABLES file,         \* the bytes of the one file, or "none"
          written,      \* the content and mode of the last accepted upload
          last          \* the call answered last, with its answer

-----------------------------------------------------------------------------
(* The MCP server: one process, one AsyncSandboxClient, many MCP sessions.   *)
(* A claim carries the id of the session that created it as a label, and     *)
(* every tool first lists the claims of the caller's session, then looks the *)
(* sandbox up through the client's registry of handles, then uses it.  Calls *)
(* run concurrently and each await is a step: a claim may be deleted by      *)
(* another call, or shut down by the controller, between any two of them.    *)
(*                                                                           *)
(* External: the API server (every request may fail within MaxFaults), the   *)
(* controller (binds a claim, expires it) and the ASGI server, which lets    *)
(* the calls end before it ends the lifespan.                                *)
mcpVars == <<server, claim, handle, call, maker, faults>>

Tools == {"execute_command", "get_sandbox_status", "delete_sandbox"}

NoClaim == [there |-> FALSE, label |-> NoSession, ready |-> FALSE]
Idle == [pc |-> "idle", tool |-> "none", by |-> NoSession, name |-> "none", answer |-> "none"]

Fault == faults < MaxFaults /\ faults' = faults + 1
NoFault == UNCHANGED faults

Goes(c, changes) == call' = [call EXCEPT ![c] = changes @@ @]
Answers(c, a) == Goes(c, [pc |-> "done", answer |-> a])

-----------------------------------------------------------------------------
(* The lifespan *)

Lifespan ==
    /\ server = "starting" /\ server' = "serving"
    /\ UNCHANGED <<claim, handle, call, maker, faults>>

Closes(failing) ==
    [n \in Names |-> IF handle[n] = "none" \/ n \in failing THEN handle[n] ELSE "none"]

Close ==
    /\ server = "serving"
    /\ \A c \in Calls : call[c].pc \in {"idle", "done"}
    /\ \E failing \in SUBSET {n \in Names : handle[n] = "open"} :
        /\ Cardinality(failing) <= MaxFaults - faults
        /\ faults' = faults + Cardinality(failing)
        /\ handle' = Closes(failing)
    /\ server' = "stopped"
    /\ UNCHANGED <<claim, call, maker>>

-----------------------------------------------------------------------------
(* create_sandbox *)

Label(session, callers) == session

Create(c, s, n) ==
    /\ call[c] = Idle /\ ~claim[n].there /\ maker[n] = NoSession
    /\ IF s = NoSession
       THEN /\ call' = [call EXCEPT ![c] = [pc |-> "done", tool |-> "create_sandbox", by |-> s,
                                             name |-> n, answer |-> "error"]]
            /\ UNCHANGED maker
       ELSE /\ call' = [call EXCEPT ![c] = [pc |-> "create", tool |-> "create_sandbox", by |-> s,
                                             name |-> n, answer |-> "none"]]
            /\ maker' = [maker EXCEPT ![n] = s]
    /\ UNCHANGED <<server, claim, handle, faults>>

Put(n, label) == [claim EXCEPT ![n] = [there |-> TRUE, label |-> label, ready |-> FALSE]]

(* The POST: answered, refused, or answered to nobody. *)
CreateClaim(c) ==
    LET n == call[c].name
    IN  /\ call[c].pc = "create"
        /\ \E callers \in Sessions \cup {NoSession} :
            \/ /\ NoFault /\ claim' = Put(n, Label(call[c].by, callers))
               /\ Goes(c, [pc |-> "wait"])
            \/ /\ Fault /\ claim' \in {claim, Put(n, Label(call[c].by, callers))}
               /\ Goes(c, [pc |-> "rollback"])
        /\ UNCHANGED <<server, handle, maker>>

(* The wait ends with a ready claim, or with a timeout while it is not, an   *)
(* error or a cancellation, which roll the claim back.                       *)
WaitReady(c) ==
    LET n == call[c].name
    IN  /\ call[c].pc = "wait"
        /\ \/ /\ claim[n].there /\ claim[n].ready /\ NoFault
              /\ handle' = [handle EXCEPT ![n] = "open"]
              /\ Answers(c, "ok")
           \/ /\ Fault \/ (~claim[n].ready /\ NoFault)
              /\ Goes(c, [pc |-> "rollback"])
              /\ UNCHANGED handle
        /\ UNCHANGED <<server, claim, maker>>

Rollback(c) ==
    /\ call[c].pc = "rollback"
    /\ \/ NoFault /\ claim' = [claim EXCEPT ![call[c].name] = NoClaim]
       \/ Fault /\ UNCHANGED claim
    /\ Answers(c, "error")
    /\ UNCHANGED <<server, handle, maker>>

-----------------------------------------------------------------------------
(* The other tools *)

UseTool(c, s, tool, n) ==
    /\ call[c] = Idle
    /\ call' = [call EXCEPT ![c] = [pc |-> IF s = NoSession THEN "done" ELSE "owns", tool |-> tool,
                                    by |-> s, name |-> n,
                                    answer |-> IF s = NoSession THEN "error" ELSE "none"]]
    /\ UNCHANGED <<server, claim, handle, maker, faults>>

ListClaims(s) == {n \in Names : claim[n].there /\ claim[n].label = s}

(* ensure_session_owns, then get_sandbox or delete_sandbox. *)
EnsureSessionOwns(c) ==
    /\ call[c].pc = "owns"
    /\ \/ /\ NoFault /\ call[c].name \in ListClaims(call[c].by)
          /\ Goes(c, [pc |-> IF call[c].tool = "delete_sandbox" THEN "delete" ELSE "get"])
       \/ /\ Fault \/ (NoFault /\ call[c].name \notin ListClaims(call[c].by))
          /\ Answers(c, "error")
    /\ UNCHANGED <<server, claim, handle, maker>>

(* client.get_sandbox: a lookup that fails, or times out on a claim that is  *)
(* not bound yet, closes the handle and keeps it; an open one is returned,   *)
(* a closed one is replaced.                                                 *)
GetSandbox(c) ==
    LET n == call[c].name
    IN  /\ call[c].pc = "get"
        /\ \/ /\ NoFault /\ claim[n].there
              /\ handle' = [handle EXCEPT ![n] = "open"]
              /\ Goes(c, [pc |-> "use"])
           \/ /\ Fault \/ (NoFault /\ ~claim[n].ready)
              /\ handle' = [handle EXCEPT ![n] = IF @ = "open" THEN "closed" ELSE @]
              /\ Answers(c, "error")
        /\ UNCHANGED <<server, claim, maker>>

(* The status of the Sandbox, and what each tool makes of its sandbox. *)
StatusOf(n) == CASE ~claim[n].there -> "SandboxNotFound"
                 [] claim[n].ready -> "SandboxReady"
                 [] OTHER -> "SandboxNotReady"

Use(c) ==
    LET n == call[c].name
    IN  /\ call[c].pc = "use"
        /\ \/ /\ call[c].tool = "get_sandbox_status" /\ NoFault /\ Answers(c, StatusOf(n))
           \/ /\ call[c].tool = "execute_command" /\ NoFault /\ handle[n] = "open"
              /\ claim[n].there /\ claim[n].ready /\ Answers(c, "ok")
           \/ /\ call[c].tool = "execute_command" /\ NoFault
              /\ ~(handle[n] = "open" /\ claim[n].there /\ claim[n].ready) /\ Answers(c, "error")
           \/ Fault /\ Answers(c, "error")
        /\ UNCHANGED <<server, claim, handle, maker>>

(* client.delete_sandbox logs what goes wrong and returns. *)
DeleteSandbox(c) ==
    LET n == call[c].name
    IN  /\ call[c].pc = "delete"
        /\ \/ /\ NoFault /\ claim' = [claim EXCEPT ![n] = NoClaim]
              /\ handle' = [handle EXCEPT ![n] = "none"]
           \/ /\ Fault /\ UNCHANGED <<claim, handle>>
        /\ Answers(c, "ok")
        /\ UNCHANGED <<server, maker>>

(* The sandboxes:// resource: the names, listed with the same selector. *)
GetSandboxes(c, s) ==
    /\ call[c] = Idle /\ s /= NoSession /\ NoFault
    /\ call' = [call EXCEPT ![c] = [pc |-> "done", tool |-> "sandboxes", by |-> s, name |-> "none",
                                    answer |-> ListClaims(s)]]
    /\ UNCHANGED <<server, claim, handle, maker>>

(* An answered call gives its task back. *)
Reuse(c) ==
    /\ call[c].pc = "done" /\ call' = [call EXCEPT ![c] = Idle]
    /\ UNCHANGED <<server, claim, handle, maker, faults>>

-----------------------------------------------------------------------------
(* The controller *)

BecomeReady(n) ==
    /\ claim[n].there /\ ~claim[n].ready /\ claim' = [claim EXCEPT ![n].ready = TRUE]
    /\ UNCHANGED <<server, handle, call, maker, faults>>

(* shutdown_after_seconds *)
Expire(n) ==
    /\ claim[n].there /\ claim' = [claim EXCEPT ![n] = NoClaim]
    /\ UNCHANGED <<server, handle, call, maker, faults>>

McpInit ==
    /\ server = "starting"
    /\ claim = [n \in Names |-> NoClaim]
    /\ handle = [n \in Names |-> "none"]
    /\ call = [c \in Calls |-> Idle]
    /\ maker = [n \in Names |-> NoSession]
    /\ faults = 0

CallStep(c) == \/ CreateClaim(c) \/ WaitReady(c) \/ Rollback(c)
               \/ EnsureSessionOwns(c) \/ GetSandbox(c) \/ Use(c) \/ DeleteSandbox(c)

Serve ==
    /\ server = "serving"
    /\ \/ \E c \in Calls, s \in Sessions \cup {NoSession}, n \in Names :
            \/ Create(c, s, n)
            \/ \E tool \in Tools : UseTool(c, s, tool, n)
       \/ \E c \in Calls : CallStep(c) \/ Reuse(c) \/ (\E s \in Sessions : GetSandboxes(c, s))

Controller == \E n \in Names : BecomeReady(n) \/ Expire(n)

McpNext == Lifespan \/ Close \/ Serve \/ Controller

(* A call goes on: the SDK bounds every wait. *)
McpSpec == McpInit /\ [][McpNext]_mcpVars /\ \A c \in Calls : WF_mcpVars(server = "serving" /\ CallStep(c))

-----------------------------------------------------------------------------

(* Whatever the interleaving of the calls and whatever labels a caller asks  *)
(* for, a call that passed ensure_session_owns works on a sandbox its own    *)
(* session created, and the resource lists no other.                         *)
OwnSandboxesOnly ==
    \A c \in Calls :
        /\ call[c].pc \in {"get", "use", "delete"} => maker[call[c].name] = call[c].by
        /\ call[c].tool = "sandboxes" => \A n \in call[c].answer : maker[n] = call[c].by

(* A name create_sandbox returned stays usable by its session: as long as    *)
(* its claim exists, the session's own list has it.                          *)
ReturnedIsListed ==
    \A c \in Calls :
        call[c].tool = "create_sandbox" /\ call[c].answer = "ok" /\ claim[call[c].name].there
            => call[c].name \in ListClaims(call[c].by)

(* A create that answers with an error leaves no claim behind, unless the    *)
(* request that was to roll it back failed too.                              *)
FailedCreateRollsBack ==
    \A c \in Calls :
     call[c].pc = "rollback" /\ call'[c].pc = "done" /\ faults' = faults
         => ~claim'[call[c].name].there

-----------------------------------------------------------------------------
(* What the tools of the MCP server return: the two streams of a command     *)
(* within one budget of characters, a listing cut to a number of entries,    *)
(* and the content of a file as text or as base64.                           *)
(*                                                                           *)
(* A stream is its length: a truncated one is [head, omitted, tail].  The    *)
(* bytes of a file are "utf8" (some text) or "raw" (not decodable); a        *)
(* content argument is text, the base64 of either, or not base64 at all.     *)
textVars == <<file, written, last>>

Nothing == [tool |-> "none"]

-----------------------------------------------------------------------------
(* The command's output *)

MIN_OUTPUT_CHARS == 128

DigitsOf(n) == CHOOSE k \in 1 .. 9 : n < 10 ^ k /\ (k = 1 \/ n >= 10 ^ (k - 1))

(* "\n[... N characters omitted ...]\n" *)
MarkerLength(n) == 31 + DigitsOf(n)

(* output[:k] and output[-k:], for every k Python accepts. *)
Leading(n, k) == IF k >= 0 THEN Min({k, n}) ELSE Max({n + k, 0})
Trailing(n, k) == CASE k > 0 -> Min({k, n})
                    [] k = 0 -> n
                    [] OTHER -> Max({n + k, 0})

Whole(n) == [head |-> n, omitted |-> 0, tail |-> 0, size |-> n]

(* _truncate_output *)
Truncate(n, max) ==
    LET retained == max - MarkerLength(n)
        head == retained \div 2
        tail == retained - head
        omitted == n - retained
    IN  IF n <= max THEN Whole(n)
        ELSE [head |-> Leading(n, head), omitted |-> omitted, tail |-> Trailing(n, tail),
              size |-> Leading(n, head) + MarkerLength(omitted) + Trailing(n, tail)]

(* Each stream has a share; what a short one leaves goes to the other. *)
Shares(out, err, max) ==
    LET first == Min({out, max \div 2})
        e == Min({err, max - first})
    IN  [stdout |-> Min({out, max - e}), stderr |-> e]

ExecuteCommand(out, err, max) ==
    LET b == Shares(out, err, max)
    IN  /\ max >= MIN_OUTPUT_CHARS
        /\ last' = [tool |-> "execute_command", max |-> max, out |-> out, err |-> err,
                    stdout |-> Truncate(out, b.stdout), stderr |-> Truncate(err, b.stderr),
                    stdout_truncated |-> out > b.stdout, stderr_truncated |-> err > b.stderr]
        /\ UNCHANGED <<file, written>>

-----------------------------------------------------------------------------
(* The listing *)

ListFiles(n, max) ==
    /\ last' = [tool |-> "list_files", returned |-> Min({n, max}), total_entries |-> n,
                truncated |-> n > max]
    /\ UNCHANGED <<file, written>>

-----------------------------------------------------------------------------
(* The file *)

Contents == {"text", "b64 of utf8", "b64 of raw", "not base64"}

(* The bytes a content stands for; base64 is text as well. *)
BytesOf(content, binary) ==
    CASE ~binary -> "utf8"
      [] content = "b64 of utf8" -> "utf8"
      [] content = "b64 of raw" -> "raw"
      [] OTHER -> "refused"

(* upload_file decodes before it writes. *)
UploadFile(content, binary) ==
    LET bytes == BytesOf(content, binary)
    IN  IF bytes = "refused"
        THEN /\ last' = [tool |-> "upload_file", answer |-> "ValueError"]
             /\ UNCHANGED <<file, written>>
        ELSE /\ file' = [bytes |-> bytes, text |-> IF binary THEN "decoded" ELSE content]
             /\ written' = [content |-> content, binary |-> binary]
             /\ last' = [tool |-> "upload_file", answer |-> "written"]

(* The content a text or a binary download makes of the bytes. *)
ContentOf(f, binary) ==
    CASE binary -> IF f.text = "decoded" /\ f.bytes = "raw" THEN "b64 of raw" ELSE "b64 of utf8"
      [] f.bytes = "raw" -> "ValueError"
      [] f.text = "decoded" -> "text"
      [] OTHER -> f.text

DownloadFile(binary) ==
    /\ last' = [tool |-> "download_file", binary |-> binary,
                answer |-> IF file.bytes = "none" THEN "RuntimeError" ELSE ContentOf(file, binary)]
    /\ UNCHANGED <<file, written>>

-----------------------------------------------------------------------------
NoFile == [bytes |-> "none", text |-> "none"]
Unwritten == [content |-> "none", binary |-> FALSE]

TextInit == file = NoFile /\ written = Unwritten /\ last = Nothing

(* A command and a listing depend on no earlier call: one of each is enough. *)
TextNext ==
    \/ last = Nothing /\ \E out, err \in Lengths, max \in Budgets : ExecuteCommand(out, err, max)
    \/ last = Nothing /\ \E n, max \in Listings : max > 0 /\ ListFiles(n, max)
    \/ \E c \in Contents, b \in BOOLEAN : UploadFile(c, b)
    \/ \E b \in BOOLEAN : DownloadFile(b)

TextSpec == TextInit /\ [][TextNext]_textVars

-----------------------------------------------------------------------------
IsCommand == last.tool = "execute_command"

(* The two streams of execute_command, markers included, never exceed        *)
(* max_output_chars, whatever the digits of the omitted counts and however   *)
(* the budget is shared.                                                     *)
WithinBudget == IsCommand => last.stdout.size + last.stderr.size <= last.max

(* A verbose stdout cannot hide stderr, nor the other way round: a stream    *)
(* that fits half of the budget is never cut, and none is when both fit.     *)
FairShare ==
    IsCommand =>
        /\ last.out + last.err <= last.max => ~last.stdout_truncated /\ ~last.stderr_truncated
        /\ last.err <= last.max \div 2 => ~last.stderr_truncated
        /\ last.out <= last.max \div 2 => ~last.stdout_truncated

(* What download_file returns is what the last accepted upload_file was      *)
(* given, when both use the same mode; a refused upload in between changes   *)
(* nothing.                                                                  *)
RoundTrip ==
    last.tool = "download_file" /\ written /= Unwritten /\ last.binary = written.binary
        => last.answer = written.content

=============================================================================
