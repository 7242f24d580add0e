------------------------------ MODULE Lifecycle ------------------------------
(***************************************************************************)
(* The server process of cmd/server/main.go, from its start (migrations,   *)
(* bucket) through serving to SIGTERM and Shutdown, with crashes at any    *)
(* point, and what that does to the requests it is running.  The database  *)
(* and the object store survive it.                                        *)
(*                                                                         *)
(* Of the requests, uploads (internal/media/handler.go) are modelled with  *)
(* their calls of the object store, downloads as a stream that nothing     *)
(* limits, and the others as a handler that reads its body, works under    *)
(* its context's timeout, and then pushes or writes its answer for as long *)
(* as the clients take.  Time is counted down in ticks.                    *)
(***************************************************************************)
EXTENDS Integers

CONSTANTS
    Req,            \* slots for running requests
    Socket,         \* slots for WebSocket connections
    Versions,       \* number of migrations
    Statements,     \* number of statements in each
    MaxUpload,      \* bound on the uploads
    ApiBudget,      \* timeout of a handler's context, in ticks
    UploadBudget,   \* timeout of upload's context
    Grace           \* timeout of Shutdown's context

ASSUME BoundsAssumption ==
    /\ Versions \in Nat /\ Statements \in Nat /\ MaxUpload \in Nat
    /\ ApiBudget \in Nat /\ UploadBudget \in Nat /\ Grace \in Nat

(* 5 s and what a call of Redis may take beyond them, against 10 s.        *)
ASSUME GraceAssumption == ApiBudget < Grace

VARIABLES
    phase,      \* what main is doing; "down" after a crash, "exited" after main's end
    schema,     \* the schema_migrations row
    executed,   \* executed[v]: how many of migration v's statements were executed
    bucket,     \* whether the bucket exists
    grace,      \* what is left of Shutdown's timeout
    req,        \* req[r]: the request running in slot r
    sockets,    \* the WebSocket connections, taken over from net/http
    uploads,    \* how many uploads have begun to store
    stored,     \* the objects in the bucket
    answered    \* the ids that were given to clients in an ok answer

database == <<schema, executed>>
server == <<phase, database, bucket, grace>>
media == <<uploads, stored, answered>>
vars == <<server, media, req, sockets>>

Object == (1..MaxUpload) \X {"file", "thumb"}

Kind == {"api", "download", "image", "video"}

Upload == {"image", "video"}

(* left is what is left of the context's timeout; late is history: whether *)
(* the body was complete only after Shutdown had begun.                    *)
Request ==
    [kind: Kind, pc: {"body", "work", "thumb", "out"}, left: Nat, late: BOOLEAN,
     upload: 0..MaxUpload]

Idle == [pc |-> "idle"]

Init ==
    /\ phase = "down"
    /\ schema = [version |-> 0, dirty |-> FALSE]
    /\ executed = [v \in 1..Versions |-> 0]
    /\ bucket = FALSE
    /\ grace = 0
    /\ req = [r \in Req |-> Idle]
    /\ sockets = {}
    /\ uploads = 0 /\ stored = {} /\ answered = {}

-----------------------------------------------------------------------------
(* main, buildMux.                                                         *)

Goto(to) == phase' = to

(* Connect succeeds.                                                       *)
Start ==
    /\ phase \in {"down", "exited"}
    /\ Goto("migrating")
    /\ UNCHANGED <<database, bucket, grace, media, req, sockets>>

SetVersion_Clean(version, dirty) == schema' = [version |-> version, dirty |-> FALSE]

SetVersion(version, dirty) == schema' = [version |-> version, dirty |-> dirty]

(* golang-migrate's Up: a version is marked dirty, its statements are      *)
(* executed, each for good (MySQL commits every change of a table), and it *)
(* is marked clean; on a dirty one Up fails, and main with it.             *)
MigrateBegin ==
    /\ phase = "migrating" /\ ~schema.dirty /\ schema.version < Versions
    /\ SetVersion(schema.version + 1, TRUE)
    /\ Goto("applying")
    /\ UNCHANGED <<executed, bucket, grace, media, req, sockets>>

Execute ==
    /\ phase = "applying" /\ executed[schema.version] < Statements
    /\ executed' = [executed EXCEPT ![schema.version] = @ + 1]
    /\ UNCHANGED <<phase, schema, bucket, grace, media, req, sockets>>

MigrateEnd ==
    /\ phase = "applying" /\ executed[schema.version] = Statements
    /\ SetVersion(schema.version, FALSE)
    /\ Goto("migrating")
    /\ UNCHANGED <<executed, bucket, grace, media, req, sockets>>

Migrated_ErrorsIgnored ==
    phase = "migrating" /\ (schema.version = Versions \/ schema.dirty)

(* ErrNoChange, or the end of Up.                                          *)
Migrated == phase = "migrating" /\ schema.version = Versions /\ ~schema.dirty

(* NewMinioStore and ListenAndServe.                                       *)
Serve ==
    /\ Migrated
    /\ bucket' = TRUE
    /\ Goto("serving")
    /\ UNCHANGED <<database, grace, media, req, sockets>>

(* SIGTERM or SIGINT: Shutdown closes the listener.                        *)
StartShutdown ==
    /\ phase = "serving"
    /\ Goto("draining")
    /\ grace' = Grace
    /\ UNCHANGED <<database, bucket, media, req, sockets>>

(* The process is gone, and the memory of every handler with it.           *)
Die(to) ==
    /\ Goto(to)
    /\ req' = [r \in Req |-> Idle]
    /\ sockets' = {}
    /\ grace' = 0
    /\ UNCHANGED <<database, bucket, media>>

Active == {r \in Req : req[r] # Idle}

Exit_AtOnce == phase = "draining" /\ Die("exited")

Exit_WaitsForAll == phase = "draining" /\ Active = {} /\ Die("exited")

(* Shutdown returns when no request is active, or when its time is over;   *)
(* hijacked connections are none of its business.                          *)
Exit ==
    /\ phase = "draining"
    /\ Active = {} \/ grace = 0
    /\ Die("exited")

(* log.Fatalf at start-up (MySQL or MinIO cannot be reached, a statement of *)
(* a migration fails), a panic, SIGKILL, or a signal before NotifyContext.             *)
Crash ==
    /\ phase \notin {"down", "exited"}
    /\ Die("down")

-----------------------------------------------------------------------------
(* Requests.                                                               *)

Set(r, request) == req' = [req EXCEPT ![r] = request]

Receive(r) ==
    /\ phase = "serving" /\ req[r] = Idle
    /\ \E kind \in Kind :
        Set(r, [kind |-> kind, pc |-> "body", left |-> 0, late |-> FALSE, upload |-> 0])
    /\ UNCHANGED <<server, media, sockets>>

Begin(r, pc, left, upload) ==
    Set(r, [req[r] EXCEPT !.pc = pc, !.left = left, !.upload = upload,
                          !.late = (phase = "draining")])

(* The body has been read, by a server that sets no limit to that, and the *)
(* handler makes its context; download makes none.                         *)
HaveBody(r) ==
    /\ req[r].pc = "body"
    /\ \/ req[r].kind = "api" /\ Begin(r, "work", ApiBudget, 0) /\ UNCHANGED uploads
       \/ req[r].kind = "download" /\ Begin(r, "out", 0, 0) /\ UNCHANGED uploads
       \/ /\ req[r].kind \in Upload /\ uploads < MaxUpload
          /\ uploads' = uploads + 1
          /\ Begin(r, "work", UploadBudget, uploads + 1)
    /\ UNCHANGED <<server, stored, answered, sockets>>

(* A refusal (a malformed body, a size or type that is not allowed), or the*)
(* end of the answer.                                                      *)
Finish(r) ==
    /\ req[r].pc \in {"body", "out"}
    /\ Set(r, Idle)
    /\ UNCHANGED <<server, media, sockets>>

(* A handler's calls have returned or failed, at the latest when its       *)
(* context ends; what follows is bounded by nothing.                       *)
Work(r) ==
    /\ req[r].pc = "work" /\ req[r].kind = "api"
    /\ Set(r, [req[r] EXCEPT !.pc = "out"])
    /\ UNCHANGED <<server, media, sockets>>

File(r) == <<req[r].upload, "file">>
Thumb(r) == <<req[r].upload, "thumb">>

AnswerError_Ok(r) == Set(r, Idle) /\ answered' = answered \cup {File(r)}

AnswerError(r) == Set(r, Idle) /\ UNCHANGED answered

AnswerOk(r, ids) == Set(r, Idle) /\ answered' = answered \cup ids

(* The Put of a video, or of an image before its thumbnail.                *)
PutFile(r) ==
    /\ req[r].pc = "work" /\ req[r].kind \in Upload
    /\ stored' = stored \cup {File(r)}
    /\ IF req[r].kind = "video" THEN AnswerOk(r, {File(r)})
       ELSE Set(r, [req[r] EXCEPT !.pc = "thumb"]) /\ UNCHANGED answered
    /\ UNCHANGED <<server, uploads, sockets>>

PutThumb(r) ==
    /\ req[r].pc = "thumb"
    /\ stored' = stored \cup {Thumb(r)}
    /\ AnswerOk(r, {File(r), Thumb(r)})
    /\ UNCHANGED <<server, uploads, sockets>>

(* A Put fails, or succeeds and is reported as failed: the client gets an  *)
(* error and no id, and what was stored stays.                             *)
PutFails(r) ==
    /\ req[r].pc \in {"work", "thumb"} /\ req[r].kind \in Upload
    /\ stored' \in {stored, stored \cup {IF req[r].pc = "work" THEN File(r) ELSE Thumb(r)}}
    /\ AnswerError(r)
    /\ UNCHANGED <<server, uploads, sockets>>

Bounded(r) == Work(r) \/ PutFile(r) \/ PutThumb(r) \/ PutFails(r)

OpenSocket(s) ==
    /\ phase = "serving" /\ s \notin sockets
    /\ sockets' = sockets \cup {s}
    /\ UNCHANGED <<server, media, req>>

(* Its client has gone.                                                    *)
CloseSocket(s) ==
    /\ s \in sockets
    /\ sockets' = sockets \ {s}
    /\ UNCHANGED <<server, media, req>>

-----------------------------------------------------------------------------
(* Time passes, and a call made under a context returns before its end.    *)

Timed == {r \in Req : req[r].pc \in {"work", "thumb"}}

Tick ==
    /\ Timed # {} \/ phase = "draining"
    /\ \A r \in Timed : req[r].left > 0
    /\ phase = "draining" => grace > 0
    /\ req' = [r \in Req |-> IF r \in Timed THEN [req[r] EXCEPT !.left = @ - 1] ELSE req[r]]
    /\ grace' = IF phase = "draining" THEN grace - 1 ELSE grace
    /\ UNCHANGED <<phase, database, bucket, media, sockets>>

Next ==
    \/ Start \/ MigrateBegin \/ Execute \/ MigrateEnd \/ Serve
    \/ StartShutdown \/ Exit \/ Crash
    \/ \E r \in Req : Receive(r) \/ HaveBody(r) \/ Finish(r) \/ Bounded(r)
    \/ \E s \in Socket : OpenSocket(s) \/ CloseSocket(s)
    \/ Tick

Spec == Init /\ [][Next]_vars

(* Time passes, calls end with their context, and main runs on.            *)
FairSpec == Spec /\ WF_vars(Tick) /\ WF_vars(Exit) /\ \A r \in Req : WF_vars(Bounded(r))

-----------------------------------------------------------------------------
(* The variables have their types, a request or a socket exists only while *)
(* the server runs, objects are in a bucket, and a version is dirty while  *)
(* it is applied at least.                                                 *)
TypeOK ==
    /\ phase \in {"down", "migrating", "applying", "serving", "draining", "exited"}
    /\ schema \in [version: 0..Versions, dirty: BOOLEAN]
    /\ executed \in [1..Versions -> 0..Statements]
    /\ bucket \in BOOLEAN
    /\ grace \in 0..Grace
    /\ req \in [Req -> Request \cup {Idle}] /\ sockets \in SUBSET Socket
    /\ uploads \in 0..MaxUpload
    /\ stored \in SUBSET Object /\ answered \in SUBSET Object
    /\ Active # {} \/ sockets # {} => phase \in {"serving", "draining"}
    /\ phase \in {"serving", "draining"} \/ stored # {} => bucket
    /\ phase = "applying" => schema.dirty /\ schema.version > 0

(* Requests are served only on tables that every statement of every        *)
(* migration has been executed on, however many starts were cut off, and   *)
(* wherever: what schema_migrations says is never more than what was done. *)
ServesMigrated ==
    phase \in {"serving", "draining"} => \A v \in 1..Versions : executed[v] = Statements

(* Every id in an ok answer is of an object that can be downloaded: a      *)
(* failure, a timeout or a crash between the Puts may leave an object that *)
(* nobody knows, and never a known id without its object.                  *)
AnsweredIsStored == answered \subseteq stored

Cut(r) == req[r] # Idle /\ phase = "draining" /\ phase' = "exited"

(* Shutdown cuts off no request but an upload, one whose body came in      *)
(* after it had begun, and one that waits for a client to send or to read: *)
(* a handler that was at work then has had its 5 s before the 10 s are over.*)
ShutdownCutsOnly ==
    [][\A r \in Req : Cut(r) =>
          \/ req[r].kind \in Upload
          \/ req[r].late
          \/ req[r].pc \in {"body", "out"}]_vars

(* A server that has been told to shut down ends, whatever requests and    *)
(* connections are still open.                                             *)
ShutdownEnds == phase = "draining" ~> phase \in {"down", "exited"}

=============================================================================
