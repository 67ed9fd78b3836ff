-------------------------------- MODULE ClientFiles --------------------------------
(***************************************************************************)
(* Files through the Python client: the transfer of contents in both        *)
(* directions, and the paths the client sends and the runtimes accept. They *)
(* share no state; each has its own initial predicate and next-state        *)
(* relation.                                                                *)
(***************************************************************************)
EXTENDS Integers, FiniteSetsExt, TLC, Sequences, SequencesExt, FiniteSets, Folds

CONSTANTS Sizes,        \* sizes of files and contents
          Limits,       \* values of max_download_size and max_bytes
          NoLimit,
          MaxAttempts   \* attempts of the connector for a repeatable request

CONSTANTS Names,        \* names of files and directories
          MaxSegments,
          Base          \* the base directory, a sequence of names

VARIABLES call,         \* the call: what is asked, and where its code stands
          source,       \* the content to upload: [size, from, at], at: position
          stored,       \* what the runtime stored last: <<from, to>>, or none
          dest,         \* units the destination has accepted
          response,     \* "none", "open" or "closed"
          transport     \* "good", "dead" or "invalidated"

VARIABLES path,         \* the caller's path
          clean,        \* whether it has no control character and is not all blank
          sent,         \* what _safe_upload_path returns
          endpoint,     \* what sandboxd receives of the path itself
          place,        \* where the python runtime looks for the path itself
          placeSent,    \* where it looks for what the SDK sends
          placeFc       \* where the Firecracker runtime looks for the path

-----------------------------------------------------------------------------
(* Filesystem and AsyncFilesystem of the SDK: an upload from bytes or from a *)
(* stream that can be read once, over a connector that repeats a PUT; and a  *)
(* download into a destination that may accept less than it is given, under  *)
(* the smaller of two limits.                                                *)
(*                                                                           *)
(* Content is counted in units.  External: the runtime, which may apply a    *)
(* request whose answer is lost, send the file in chunks of any size, with   *)
(* or without a length, compressed or not, and fail in the middle.           *)
fileVars == <<call, source, stored, dest, response, transport>>

NotStored == <<0, -1>>

Goes(changes) == call' = changes @@ call
Ends(result) == Goes([pc |-> "ended", result |-> result])

-----------------------------------------------------------------------------
(* write() *)

(* Whether the connector may repeat the request. *)
RepeatsAnything(sandboxd, kind) == sandboxd

Repeats(sandboxd, kind) == sandboxd /\ kind = "bytes"

(* bytes and str, a binary stream from its position, or a text stream. *)
StartWrite(sandboxd, kind) ==
    /\ call.pc = "write"
    /\ IF kind = "text stream" THEN Ends("TypeError")
       ELSE Goes([pc |-> "send", kind |-> kind, sandboxd |-> sandboxd, attempts |-> 0,
                  repeats |-> Repeats(sandboxd, kind)])
    /\ UNCHANGED <<source, stored, dest, response, transport>>

(* The body of an attempt: the bytes again, or what the stream has left. *)
Body == IF call.kind = "bytes" THEN <<source.from, source.size>> ELSE <<source.at, source.size>>
Consumed == IF call.kind = "bytes" THEN source ELSE [source EXCEPT !.at = source.size]

Sent ==
    /\ call.pc = "send"
    /\ stored' = Body /\ source' = Consumed /\ Ends("ok")
    /\ UNCHANGED <<dest, response, transport>>

(* An attempt fails, before or after the runtime applied it, with the stream *)
(* read to any place.                                                        *)
SendFails ==
    /\ call.pc = "send"
    /\ stored' \in {stored, Body}
    /\ \E at \in source.at .. source.size :
        source' = IF call.kind = "bytes" THEN source ELSE [source EXCEPT !.at = at]
    /\ IF call.repeats /\ call.attempts + 1 < MaxAttempts
       THEN Goes([attempts |-> call.attempts + 1])
       ELSE Ends("SandboxRequestError")
    /\ UNCHANGED <<dest, response, transport>>

-----------------------------------------------------------------------------
(* read_to() and read() *)

(* _download_limit: a call's limit may tighten the configured one. *)
DownloadLimit(config, asked) ==
    CASE config = NoLimit -> asked
      [] asked = NoLimit -> config
      [] OTHER -> Min({config, asked})

StartRead(sandboxd, config, asked) ==
    /\ call.pc = "read"
    /\ Goes([pc |-> "get", sandboxd |-> sandboxd, limit |-> DownloadLimit(config, asked),
             config |-> config, asked |-> asked])
    /\ UNCHANGED <<source, stored, dest, response, transport>>

CheckHeaders(declared, encoded) ==
    call.limit /= NoLimit /\ ~encoded /\ declared > call.limit

GetHeaders(encoded, declares) ==
    LET declared == IF ~declares THEN 0 ELSE IF encoded THEN source.size + 1 ELSE source.size
    IN  /\ call.pc = "get" /\ response' = "open"
        /\ IF CheckHeaders(declared, encoded)
           THEN Goes([pc |-> "close", result |-> "TooLarge"])
           ELSE Goes([pc |-> "stream", total |-> 0, left |-> source.size])
        /\ UNCHANGED <<source, stored, dest, transport>>

GetFails ==
    /\ call.pc = "get"
    /\ \/ Ends("SandboxRequestError") /\ UNCHANGED response
       \/ response' = "open" /\ Goes([pc |-> "close", result |-> "SandboxRequestError"])
    /\ UNCHANGED <<source, stored, dest, transport>>

Chunk(n) ==
    LET over == call.limit /= NoLimit /\ n > call.limit - call.total
        keep == IF over THEN call.limit - call.total ELSE n
    IN  /\ call.pc = "stream" /\ n \in 1 .. call.left
        /\ IF over /\ keep = 0 THEN Goes([pc |-> "close", result |-> "TooLarge"])
           ELSE Goes([pc |-> "put", left |-> call.left - n, chunk |-> keep, over |-> over])
        /\ UNCHANGED <<source, stored, dest, response, transport>>

(* _write_all: the destination accepts `count' of what is left of the chunk. *)
Put(count) ==
    /\ call.pc = "put"
    /\ IF count \in 1 .. call.chunk
       THEN /\ dest' = dest + count
            /\ LET total == call.total + count
               IN  IF count < call.chunk THEN Goes([total |-> total, chunk |-> call.chunk - count])
                   ELSE IF call.over THEN Goes([pc |-> "close", result |-> "TooLarge", total |-> total])
                   ELSE Goes([pc |-> "stream", total |-> total])
       ELSE /\ Goes([pc |-> "close", result |-> "OSError"])
            /\ UNCHANGED dest
    /\ UNCHANGED <<source, stored, response, transport>>

StreamEnds ==
    /\ call.pc = "stream" /\ call.left = 0
    /\ Goes([pc |-> "close", result |-> "ok"])
    /\ UNCHANGED <<source, stored, dest, response, transport>>

StreamBreaks ==
    /\ call.pc = "stream" /\ transport' = IF call.sandboxd THEN "invalidated" ELSE transport
    /\ Goes([pc |-> "close", result |-> "RequestException"])
    /\ UNCHANGED <<source, stored, dest, response>>

(* finally: response.close() *)
Close ==
    /\ call.pc = "close" /\ response' = "closed" /\ Goes([pc |-> "ended"])
    /\ UNCHANGED <<source, stored, dest, transport>>

-----------------------------------------------------------------------------
FileInit ==
    /\ call \in {[pc |-> "write", result |-> "none", limit |-> NoLimit],
                 [pc |-> "read", result |-> "none", limit |-> NoLimit]}
    /\ \E size \in Sizes, from \in Sizes :
        from <= size /\ source = [size |-> size, from |-> from, at |-> from]
    /\ stored = NotStored /\ dest = 0 /\ response = "none" /\ transport = "good"

FileNext ==
    \/ \E sandboxd \in BOOLEAN, kind \in {"bytes", "stream", "text stream"} : StartWrite(sandboxd, kind)
    \/ Sent \/ SendFails
    \/ \E sandboxd \in BOOLEAN, config, asked \in Limits \cup {NoLimit} : StartRead(sandboxd, config, asked)
    \/ \E encoded, declares \in BOOLEAN : GetHeaders(encoded, declares)
    \/ GetFails
    \/ \E n \in Sizes : Chunk(n) \/ Put(n)
    \/ StreamEnds \/ StreamBreaks \/ Close

FileSpec == FileInit /\ [][FileNext]_fileVars

-----------------------------------------------------------------------------

Ended(result) == call.pc = "ended" /\ call.result = result
Read == "asked" \in DOMAIN call

(* An upload that succeeds stored the whole content, from the position the   *)
(* stream had: a repeated request never sends a stream that is used up.      *)
UploadIsWhole == Ended("ok") /\ ~Read => stored = <<source.from, source.size>>

(* The destination never receives more than the smaller of the two limits,   *)
(* however the file is chunked, encoded or declared.                         *)
LimitHolds ==
    Read => \A l \in {call.config, call.asked} \ {NoLimit} : dest <= l

(* A download that succeeds delivered the whole file and returns its size,   *)
(* also through a destination that accepts a part at a time.                 *)
DownloadIsWhole == Ended("ok") /\ Read => dest = source.size /\ call.total = dest

-----------------------------------------------------------------------------
(* The paths of the file API: what the SDK makes of a path before it sends   *)
(* it, how sandboxd's endpoint carries it, and where the runtimes look.      *)
(*                                                                           *)
(* A path is the sequence of its segments between slashes: a leading empty   *)
(* one makes it absolute.  The base directory has no symbolic links.         *)
pathVars == <<path, clean, sent, endpoint, place, placeSent, placeFc>>

Segments == Names \cup {"", ".", ".."}
Paths == UNION {[1 .. n -> Segments] : n \in 1 .. MaxSegments}

Refused == <<"refused">>
None == <<"none">>

IsAbsolute(p) == Len(p) > 1 /\ p[1] = ""
IsName(s) == s \in Names

-----------------------------------------------------------------------------

NormStep(abs, comps, s) ==
    CASE s \in {"", "."} -> comps
      [] s /= ".." \/ (~abs /\ comps = <<>>) \/ (comps /= <<>> /\ Last(comps) = "..")
            -> Append(comps, s)
      [] comps /= <<>> -> Front(comps)
      [] OTHER -> comps

NormPath(abs, p) ==
    LET Step(comps, s) == NormStep(abs, comps, s) IN FoldLeft(Step, <<>>, p)

(* Filesystem._safe_upload_path *)
SafeUploadPath(p, ok) ==
    LET n == NormPath(IsAbsolute(p), p)
    IN  IF ~ok \/ p = <<"">> \/ n = <<>> \/ \E i \in 1 .. Len(n) : n[i] = ".."
        THEN Refused ELSE n

(* lstrip("/"): the leading empty segments of a path that has any other. *)
StripSlashes(p) ==
    LET from == {i \in 1 .. Len(p) : p[i] /= ""}
    IN  IF from = {} THEN <<"">> ELSE SubSeq(p, Min(from), Len(p))

Inside(place_) == IsPrefix(Base, place_)

GetSafePath(p) ==
    LET full == NormPath(TRUE, Base \o StripSlashes(p))
    IN  IF Inside(full) THEN full ELSE Refused

SafePathFc(p) ==
    LET full == NormPath(TRUE, IF IsAbsolute(p) THEN p ELSE Base \o p)
    IN  IF Inside(full) THEN full ELSE Refused

Endpoint(p) == [i \in 1 .. Len(p) |-> CASE p[i] = "." -> "%2E"
                                        [] p[i] = ".." -> "%2E%2E"
                                        [] OTHER -> p[i]]

(* The HTTP library resolves a URL segment that is literally a dot segment;  *)
(* sandboxd decodes the rest.                                                *)
Received(url) == IF url \in {<<".">>, <<"..">>} THEN <<"">>
                 ELSE [i \in 1 .. Len(url) |-> CASE url[i] = "%2E" -> "."
                                                 [] url[i] = "%2E%2E" -> ".."
                                                 [] OTHER -> url[i]]

-----------------------------------------------------------------------------
PathInit ==
    /\ path \in Paths /\ clean \in BOOLEAN
    /\ sent = None /\ endpoint = None /\ place = None /\ placeSent = None /\ placeFc = None

Call ==
    /\ sent = None
    /\ sent' = SafeUploadPath(path, clean)
    /\ endpoint' = Received(Endpoint(path))
    /\ place' = GetSafePath(path)
    /\ placeFc' = SafePathFc(path)
    /\ placeSent' = IF sent' = Refused THEN None ELSE GetSafePath(sent')
    /\ UNCHANGED <<path, clean>>

PathSpec == PathInit /\ [][Call]_pathVars

-----------------------------------------------------------------------------
(* The reference: the location a path names, without a stack.  A name counts *)
(* when no later ".." undoes it, and a path climbs above its start when some *)
(* beginning of it has more ".." than names.                                 *)
Ups(p, i, k) == Cardinality({j \in i .. k : p[j] = ".."})
Downs(p, i, k) == Cardinality({j \in i .. k : IsName(p[j])})
Location(p) ==
    LET kept == {i \in 1 .. Len(p) : IsName(p[i]) /\
                    \A k \in i .. Len(p) : Ups(p, i + 1, k) <= Downs(p, i + 1, k)}
        nth(n) == CHOOSE i \in kept : Cardinality({j \in kept : j <= i}) = n
    IN  [n \in 1 .. Cardinality(kept) |-> p[nth(n)]]

(* The runtimes look at the location the path names under the base directory *)
(* and deny it exactly when that is outside, for paths nobody sanitised as   *)
(* well (list and exists send the path as it is).                            *)
RuntimeConfines ==
    place /= None =>
        LET full == Location(Base \o StripSlashes(path))
        IN  place = IF Inside(full) THEN full ELSE Refused

(* SDK and runtime agree: whatever the SDK sends is accepted, and looked for *)
(* at that very place under the base directory.                              *)
SdkPathAccepted == placeSent /= None => placeSent = Base \o sent

=============================================================================
