--------------------------- MODULE RegistryUpload ---------------------------
(***************************************************************************)
(* Registry.UploadBlob and PutManifest: goroutines upload blobs in chunks  *)
(* to a registry that limits rates, fails and loses answers. Requests are  *)
(* retried by retryPublication, nested for the completion of a blob, and   *)
(* share one cooldown. Next to the client stands the registry: the chunks  *)
(* of the upload sessions and the blobs committed.                         *)
(*                                                                         *)
(* Time is what is left: of the cooldown and of the 600 seconds of each    *)
(* retry loop. A sleeper may look again at any time. Left out: locations,  *)
(* digests and tokens. The first 401 of an attempt renews the token and    *)
(* repeats a request the registry did not act on: nothing changes; what    *)
(* fails of the token's own request fails the request it is for.           *)
(* Assumed of the registry: what a request does, it has done when its      *)
(* failure is known.                                                       *)
(***************************************************************************)
EXTENDS Integers, Sequences

CONSTANTS
  Uploaders,     \* goroutines that upload
  Blobs,         \* contents
  Config,        \* the empty OCI config, uploaded in plaintext
  Chunks,        \* pieces each content is sent in
  UploadRetries, \* uploadRetries
  Deadline,      \* 600 seconds
  Delays         \* the pauses a failure may ask for

ASSUME UploadAssumption ==
  /\ Config \in Blobs /\ Chunks \in [Blobs -> Nat \ {0}]
  /\ UploadRetries \in Nat /\ Deadline \in Nat /\ Delays \subseteq Nat \ {0}

VARIABLES
  upload,     \* where each uploader is
  cooldown,   \* what is left until cooldownUntil
  configs,    \* the config is known to be in the repository
  session,    \* registry: chunks received and whether it was committed
  blobs       \* registry: contents committed

uploadVars == <<upload, cooldown, configs, session, blobs>>

\* A retry loop: failures so far and time left.
Fresh == [attempt |-> 0, left |-> Deadline]
NewUpload(b, pc) ==
  [pc |-> pc, blob |-> b, op |-> "none", status |-> "none", sent |-> 0,
   check |-> FALSE, inner |-> Fresh, outer |-> Fresh]
NoSession == [received |-> <<>>, spent |-> FALSE]

UploadInit ==
  /\ upload = [u \in Uploaders |-> NewUpload(Config, "idle")]
  /\ cooldown = 0 /\ configs = FALSE
  /\ session = [u \in Uploaders |-> NoSession] /\ blobs = {}

\* The call returned: "done" with a descriptor, "idle" without.
Returned(u) == upload[u].pc \in {"done", "idle"}
At(u, pc) == upload[u].pc = pc
Goto(u, w) == upload' = [upload EXCEPT ![u] = w]

\* The call returns, and nobody knows its session any more.
Return(u, pc) ==
  /\ Goto(u, NewUpload(IF pc = "done" THEN upload[u].blob ELSE Config, pc))
  /\ session' = [session EXCEPT ![u] = NoSession]

\* writeRequest: a request with a retry loop of its own.
Issue(w, op) ==
  [w EXCEPT !.pc = "wait", !.op = op, !.status = "none", !.inner = Fresh]
-----------------------------------------------------------------------------
UploadBlob(u, b) ==
  /\ Returned(u)
  /\ Goto(u, IF b = Config THEN NewUpload(b, "lock")
                           ELSE Issue(NewUpload(b, "wait"), "POST"))
  /\ UNCHANGED <<cooldown, configs, session, blobs>>

PutManifest(u) ==
  /\ Returned(u) /\ Goto(u, Issue(NewUpload(Config, "wait"), "MANIFEST"))
  /\ UNCHANGED <<cooldown, configs, session, blobs>>

\* configsMu is held during the upload of a config.
Uploading(u) ==
  /\ upload[u].blob = Config /\ upload[u].op \in {"POST", "PATCH", "PUT", "HEAD"}

LockConfigs(u) ==
  /\ At(u, "lock") /\ \A v \in Uploaders : ~Uploading(v)
  /\ \/ configs /\ Return(u, "done")
     \/ ~configs /\ Goto(u, Issue(upload[u], "POST")) /\ UNCHANGED session
  /\ UNCHANGED <<cooldown, configs, blobs>>

-----------------------------------------------------------------------------
\* Mutant of Expired: only the loop's own time counts, when it gets to look.
ExpiredUnseen(loop) == FALSE

\* No attempt can begin before the deadline.
Expired(loop) == loop.left = 0 \/ cooldown > loop.left

\* Past the cooldown the request is sent.
Send(u) ==
  /\ At(u, "wait") /\ ~Expired(upload[u].inner) /\ cooldown = 0
  /\ Goto(u, [upload[u] EXCEPT !.pc = "request"])
  /\ UNCHANGED <<cooldown, configs, session, blobs>>

\* The error returned is a rate limit's: the last one, or that of the wait.
GiveUp(u) ==
  /\ At(u, "wait") /\ Expired(upload[u].inner)
  /\ Goto(u, [upload[u] EXCEPT !.pc = "answered", !.status = "429", !.inner = Fresh])
  /\ UNCHANGED <<cooldown, configs, session, blobs>>

\* What the registry does on a request. A PATCH appends what it carries.
Effect(u) ==
  LET w == upload[u]  s == session[u]
      whole == s.received = [i \in 1..Chunks[w.blob] |-> i]
  IN  /\ session' = CASE w.op = "PATCH" ->
                           [session EXCEPT ![u].received = Append(@, w.sent + 1)]
                      [] w.op = "PUT" /\ whole ->
                           [session EXCEPT ![u].spent = TRUE]
                      [] OTHER -> session
      /\ blobs' = blobs \cup IF w.op = "PUT" /\ whole THEN {w.blob} ELSE {}

\* Requests the registry can grant: the session of a completion is whole and
\* not yet committed, and a HEAD finds the blob.
Granted(u) ==
  LET w == upload[u]  s == session[u]
  IN  /\ w.op = "PUT" => /\ ~s.spent
                         /\ s.received = [i \in 1..Chunks[w.blob] |-> i]
      /\ w.op = "HEAD" => w.blob \in blobs

\* A failure extends the cooldown of all, and the loop goes on unless it was the
\* last attempt or the cooldown reaches its deadline.
Extended(d) == IF d > cooldown THEN d ELSE cooldown
Exhausted(loop, until) == loop.attempt = UploadRetries \/ until >= loop.left
Failed(loop) == [loop EXCEPT !.attempt = @ + 1]

\* Mutant of Repeated: a request is repeated after any transient failure.
RepeatedTransient(s) == s \in {"429", "5xx"}

\* A single request is repeated only when the registry did not act on it.
Repeated(s) == s = "429"

\* The answer: granted; not found; a rate limit; a 5xx, before or after the effect; or
\* an answer lost before or after it, or one that says no. It is retried after a
\* pause of d, or left to the caller.
Answer(u, s, d) ==
  LET w == upload[u]
  IN  /\ At(u, "request")
      /\ \/ s = "ok" /\ Granted(u) /\ Effect(u)
         \/ s = "404" /\ w.op = "HEAD" /\ ~Granted(u) /\ UNCHANGED <<session, blobs>>
         \/ s \in {"429", "5xx", "other"} /\ UNCHANGED <<session, blobs>>
         \/ s \in {"5xx", "other"} /\ Granted(u) /\ Effect(u)
      /\ cooldown' = IF Repeated(s) THEN Extended(d) ELSE cooldown
      /\ Goto(u, IF Repeated(s) /\ ~Exhausted(w.inner, cooldown')
                 THEN [w EXCEPT !.pc = "wait", !.inner = Failed(@)]
                 ELSE [w EXCEPT !.pc = "answered", !.status = s, !.inner = Fresh])
      /\ UNCHANGED configs

-----------------------------------------------------------------------------
\* Where a granted request leads: the next chunk, the completion, or the end.
Advance(u) ==
  LET w == upload[u]
      sent == IF w.op = "PATCH" THEN w.sent + 1 ELSE w.sent
  IN  /\ At(u, "answered") /\ w.status = "ok"
      /\ \/ /\ w.op \in {"POST", "PATCH"} /\ sent < Chunks[w.blob]
            /\ \/ /\ Goto(u, Issue([w EXCEPT !.sent = sent], "PATCH"))
                  /\ UNCHANGED session
               \/ Return(u, "idle")  \* the source fails or exceeds blobLimit
            /\ UNCHANGED configs
         \/ /\ w.op = "PATCH" /\ sent = Chunks[w.blob]
            /\ Goto(u, [Issue([w EXCEPT !.sent = sent], "PUT") EXCEPT
                          !.pc = "pause", !.outer = Fresh])
            /\ UNCHANGED <<configs, session>>
         \/ /\ w.op \in {"PUT", "HEAD"}
            /\ configs' = (configs \/ w.blob = Config) /\ Return(u, "done")
         \/ w.op = "MANIFEST" /\ Return(u, "idle") /\ UNCHANGED configs
      /\ UNCHANGED <<cooldown, blobs>>

\* A completion is retried after a rate limit and after a transient failure.
Retried(w) == w.op \in {"PUT", "HEAD"} /\ w.status \in {"429", "5xx"}

\* completeBlob's next attempt: the blob itself is looked for once a completion
\* was sent.
Complete(u) ==
  LET w == upload[u]
  IN  /\ At(u, "pause") /\ ~Expired(w.outer) /\ cooldown = 0
      /\ Goto(u, Issue(w, IF w.check THEN "HEAD" ELSE "PUT"))
      /\ UNCHANGED <<cooldown, configs, session, blobs>>

GiveUpCompletion(u) ==
  /\ At(u, "pause") /\ Expired(upload[u].outer) /\ Return(u, "idle")
  /\ UNCHANGED <<cooldown, configs, blobs>>

\* The blob is not there: the completion is sent again in the same attempt.
Missed(u) ==
  /\ At(u, "answered") /\ upload[u].op = "HEAD" /\ upload[u].status = "404"
  /\ Goto(u, Issue(upload[u], "PUT"))
  /\ UNCHANGED <<cooldown, configs, session, blobs>>

RetryCompletion(u, d) ==
  LET w == upload[u]
  IN  /\ At(u, "answered") /\ Retried(w)
      /\ cooldown' = Extended(d)
      /\ \/ Exhausted(w.outer, cooldown') /\ Return(u, "idle")
         \/ /\ ~Exhausted(w.outer, cooldown')
            /\ Goto(u, [w EXCEPT !.pc = "pause", !.status = "none", !.check = TRUE,
                                 !.outer = Failed(@)])
            /\ UNCHANGED session
      /\ UNCHANGED <<configs, blobs>>

\* Mutant of Fail: the config is cached before the error is looked at.
FailCached(u) ==
  /\ At(u, "answered") /\ upload[u].status # "ok" /\ ~Retried(upload[u])
  /\ ~(upload[u].op = "HEAD" /\ upload[u].status = "404")
  /\ configs' = (configs \/ Uploading(u)) /\ Return(u, "idle")
  /\ UNCHANGED <<cooldown, blobs>>

\* Any other failure is the upload's.
Fail(u) ==
  /\ At(u, "answered") /\ upload[u].status # "ok" /\ ~Retried(upload[u])
  /\ ~(upload[u].op = "HEAD" /\ upload[u].status = "404")
  /\ Return(u, "idle")
  /\ UNCHANGED <<cooldown, configs, blobs>>

\* Time passes for the cooldown and for every retry loop.
Less(n) == IF n = 0 THEN 0 ELSE n - 1
Tick ==
  /\ cooldown' = Less(cooldown)
  /\ upload' = [u \in Uploaders |->
       LET w == upload[u]
       IN  [w EXCEPT
              !.inner.left = IF w.pc \in {"wait", "request"} THEN Less(@) ELSE @,
              !.outer.left = IF w.op \in {"PUT", "HEAD"} THEN Less(@) ELSE @]]
  /\ UNCHANGED <<configs, session, blobs>>

Requesting(u) ==
  \/ LockConfigs(u) \/ Send(u) \/ GiveUp(u)
  \/ Advance(u) \/ Complete(u) \/ GiveUpCompletion(u) \/ Missed(u) \/ Fail(u)
  \/ \E d \in Delays :
       \/ RetryCompletion(u, d)
       \/ \E s \in {"ok", "404", "429", "5xx", "other"} : Answer(u, s, d)

UploadNext ==
  \/ \E u \in Uploaders :
       \/ PutManifest(u) \/ Requesting(u)
       \/ \E b \in Blobs : UploadBlob(u, b)
  \/ Tick
UploadSpec == UploadInit /\ [][UploadNext]_uploadVars

\* Goroutines run, requests are answered (the client has timeouts), time passes,
\* and a mutex does not starve who waits for it.
UploadFairness ==
  /\ WF_uploadVars(Tick)
  /\ \A u \in Uploaders :
       WF_uploadVars(Requesting(u)) /\ SF_uploadVars(LockConfigs(u))

-----------------------------------------------------------------------------
\* What an upload returned, and the config once it is cached, is in the registry:
\* a descriptor handed to a snapshot names a blob that can be read.
CompleteUploads ==
  /\ \A u \in Uploaders : At(u, "done") => upload[u].blob \in blobs
  /\ configs => Config \in blobs

\* However requests fail, no chunk reaches a session twice or out of order, and a
\* completion is not sent again after the registry acted on it: lost and failed
\* answers are ambiguous.
SendsOnce ==
  \A u \in Uploaders :
    /\ session[u].received = [i \in 1..Len(session[u].received) |-> i]
    /\ At(u, "request") /\ upload[u].op = "PUT" => ~session[u].spent

\* An upload returns, though others keep running into the rate limit and extend
\* the cooldown it waits for.
UploadsEnd == \A u \in Uploaders : []<>Returned(u)
=============================================================================
