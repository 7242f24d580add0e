--------------------------- MODULE LifecycleProofs ---------------------------
(***************************************************************************)
(* What holds of Lifecycle for any numbers of requests, connections,       *)
(* migrations and uploads, and any timeouts with ApiBudget < Grace.        *)
(***************************************************************************)
EXTENDS Lifecycle, TLAPS

(* What a running request relies on: an upload has an id of its own, an    *)
(* image whose thumbnail is due has its file stored, and a handler that    *)
(* works under the short timeout, if it had begun before Shutdown, will    *)
(* have ended before Shutdown gives up.                                    *)
Ready(r) ==
    /\ req[r].pc \in {"work", "thumb"} /\ req[r].kind \in Upload => req[r].upload # 0
    /\ req[r].pc = "thumb" => req[r].kind \in Upload /\ File(r) \in stored
    /\ req[r].pc = "work" => req[r].kind # "download"
    /\ req[r].pc = "work" /\ req[r].kind = "api" =>
          /\ req[r].left <= ApiBudget
          /\ phase = "draining" /\ ~req[r].late => req[r].left < grace

(* Whatever schema_migrations says was done was done: a version comes      *)
(* after the complete ones only, and is clean only if it is complete too.  *)
Recorded ==
    /\ \A v \in 1..Versions :
          v < schema.version \/ (v = schema.version /\ ~schema.dirty) => executed[v] = Statements
    /\ phase \in {"serving", "draining"} => schema.version = Versions /\ ~schema.dirty

(* AnsweredIsStored needs to know what a request has stored already,       *)
(* ShutdownCutsOnly how much time its context has left, and ServesMigrated *)
(* what was executed before the earlier starts were cut off.               *)
IInv ==
    /\ TypeOK
    /\ Recorded
    /\ AnsweredIsStored
    /\ \A r \in Active : Ready(r)

-----------------------------------------------------------------------------
(* Idle is told apart from every request by its pc.                        *)
LEMMA IdleIsNoRequest == Idle.pc = "idle" /\ Idle \notin Request
  <1>1. \A q \in Request : q.pc # "idle"
    BY DEF Request
  <1> QED  BY <1>1 DEF Idle

(* Nothing runs and nothing is answered at first.                          *)
LEMMA InitIInv == Init => IInv
  <1> SUFFICES ASSUME Init PROVE IInv
    OBVIOUS
  <1>1. Active = {}
    BY DEF Init, Active
  <1>2. 0 \in 0..Versions /\ 0 \in 0..Statements /\ 0 \in 0..Grace /\ 0 \in 0..MaxUpload
    BY BoundsAssumption
  <1>3. TypeOK
    BY <1>1, <1>2, BoundsAssumption DEF Init, TypeOK
  <1>4. Recorded /\ AnsweredIsStored
    BY DEF Init, Recorded, AnsweredIsStored
  <1> QED  BY <1>1, <1>3, <1>4 DEF IInv

(* A slot is given a request and the others keep theirs.                   *)
LEMMA SetType ==
    ASSUME TypeOK, NEW r \in Req, NEW q \in Request \cup {Idle}, Set(r, q)
    PROVE  /\ req' \in [Req -> Request \cup {Idle}]
           /\ req'[r] = q
           /\ \A s \in Req \ {r} : req'[s] = req[s]
  BY DEF TypeOK, Set

(* A request at one of its calls is in an active slot.                     *)
LEMMA AtWork ==
    ASSUME TypeOK, NEW r \in Req, req[r].pc # "idle"
    PROVE  req[r] \in Request /\ r \in Active /\ phase \in {"serving", "draining"}
  BY IdleIsNoRequest DEF TypeOK, Active

(* A step of one request that leaves the server alone, and at which that   *)
(* request is ready for its next call, if it has one.                      *)
LEMMA RequestStep ==
    ASSUME IInv, NEW r \in Req, NEW q \in Request \cup {Idle}, Set(r, q),
           phase \in {"serving", "draining"}, UNCHANGED <<server, sockets>>,
           uploads' \in 0..MaxUpload, stored' \in SUBSET Object, stored \subseteq stored',
           answered' \subseteq stored', q # Idle => Ready(r)'
    PROVE  IInv'
  <1>1. /\ req' \in [Req -> Request \cup {Idle}]
        /\ req'[r] = q
        /\ \A s \in Req \ {r} : req'[s] = req[s]
    BY SetType DEF IInv
  <1>2. TypeOK'
    BY <1>1 DEF IInv, TypeOK, server, database, Active
  <1>3. Recorded' /\ AnsweredIsStored'
    BY DEF IInv, Recorded, AnsweredIsStored, server, database
  <1>4. ASSUME NEW s \in Active'  PROVE  Ready(s)'
    <2>1. CASE s = r
      BY <1>1, <1>4, <2>1 DEF Active
    <2>2. CASE s # r
      <3>1. s \in Active /\ req'[s] = req[s] /\ Ready(s)
        BY <1>1, <1>4, <2>2 DEF Active, IInv
      <3> QED  BY <3>1 DEF Ready, File, server
    <2> QED  BY <2>1, <2>2
  <1> QED  BY <1>2, <1>3, <1>4 DEF IInv

(* A step of main that ends every handler.                                 *)
LEMMA DieStep ==
    ASSUME IInv, NEW to \in {"down", "exited"}, Die(to)
    PROVE  IInv'
  <1>1. req' = [r \in Req |-> Idle] /\ Active' = {}
    BY DEF Die, Active
  <1>2. TypeOK'
    BY <1>1, BoundsAssumption DEF IInv, TypeOK, Die, Goto, database, media, Active
  <1>3. Recorded' /\ AnsweredIsStored'
    BY DEF IInv, Recorded, AnsweredIsStored, Die, Goto, database, media
  <1> QED  BY <1>1, <1>2, <1>3 DEF IInv

(* A step of main before it serves: there is no request.                   *)
LEMMA StartStep ==
    ASSUME IInv, Start \/ MigrateBegin \/ Execute \/ MigrateEnd \/ Serve
    PROVE  IInv'
  <1>1. /\ Active = {} /\ sockets = {} /\ Active' = {}
        /\ UNCHANGED <<grace, media, req, sockets>>
    BY DEF IInv, TypeOK, Start, MigrateBegin, Execute, MigrateEnd, Serve, Migrated, Active
  <1>2. /\ schema \in [version: 0..Versions, dirty: BOOLEAN]
        /\ executed \in [1..Versions -> 0..Statements]
        /\ \A v \in 1..Versions :
              v < schema.version \/ (v = schema.version /\ ~schema.dirty)
              => executed[v] = Statements
    BY DEF IInv, TypeOK, Recorded
  <1>3. /\ schema' \in [version: 0..Versions, dirty: BOOLEAN]
        /\ executed' \in [1..Versions -> 0..Statements]
        /\ phase' = "applying" => schema'.dirty /\ schema'.version > 0
        /\ Recorded'
    <2>1. CASE Start
      BY <1>2, <2>1 DEF Start, Goto, database, Recorded
    <2>2. CASE MigrateBegin
      <3>1. schema.version + 1 \in 0..Versions /\ schema.version + 1 > 0
        BY <1>2, <2>2, BoundsAssumption DEF MigrateBegin
      <3>2. /\ schema' = [version |-> schema.version + 1, dirty |-> TRUE]
            /\ executed' = executed /\ phase' = "applying" /\ ~schema.dirty
        BY <2>2 DEF MigrateBegin, SetVersion, Goto
      <3>3. Recorded'
        <4> SUFFICES ASSUME NEW v \in 1..Versions, v < schema.version + 1
                     PROVE  executed[v] = Statements
          BY <3>2 DEF Recorded
        <4>1. v < schema.version \/ v = schema.version
          BY <1>2
        <4> QED  BY <1>2, <3>2, <4>1
      <3> QED  BY <1>2, <3>1, <3>2, <3>3
    <2>3. CASE Execute
      <3>1. /\ UNCHANGED <<phase, schema>> /\ phase = "applying"
            /\ schema.dirty /\ schema.version \in 1..Versions
        BY <1>2, <2>3, BoundsAssumption DEF IInv, TypeOK, Execute
      <3>2. /\ executed' \in [1..Versions -> 0..Statements]
            /\ \A v \in 1..Versions : v # schema.version => executed'[v] = executed[v]
        <4>1. executed[schema.version] + 1 \in 0..Statements
          BY <1>2, <2>3, <3>1, BoundsAssumption DEF Execute
        <4> QED  BY <1>2, <2>3, <3>1, <4>1 DEF Execute
      <3>3. Recorded'
        BY <1>2, <3>1, <3>2 DEF Recorded
      <3> QED  BY <1>2, <3>1, <3>2, <3>3
    <2>4. CASE MigrateEnd
      <3>1. /\ schema' = [version |-> schema.version, dirty |-> FALSE]
            /\ executed' = executed /\ phase' = "migrating"
            /\ executed[schema.version] = Statements
        BY <2>4 DEF MigrateEnd, SetVersion, Goto
      <3> QED  BY <1>2, <3>1 DEF Recorded
    <2>5. CASE Serve
      <3>1. schema.version = Versions /\ ~schema.dirty /\ phase' = "serving"
        BY <2>5 DEF Serve, Migrated, Goto
      <3> QED  BY <1>2, <2>5, <3>1 DEF Serve, database, Recorded
    <2> QED  BY <2>1, <2>2, <2>3, <2>4, <2>5
  <1>4. TypeOK'
    <2>1. phase' \in {"migrating", "applying", "serving"} /\ bucket' \in BOOLEAN
      BY DEF IInv, TypeOK, Start, MigrateBegin, Execute, MigrateEnd, Serve, Goto
    <2>2. phase' = "serving" \/ stored' # {} => bucket'
      BY <1>1
         DEF IInv, TypeOK, Start, MigrateBegin, Execute, MigrateEnd, Serve, Goto, media
    <2> QED  BY <1>1, <1>3, <2>1, <2>2 DEF IInv, TypeOK, media
  <1>5. AnsweredIsStored'
    BY <1>1 DEF IInv, AnsweredIsStored, media
  <1> QED  BY <1>1, <1>3, <1>4, <1>5 DEF IInv

(* SIGTERM comes when every handler at work has less left than Shutdown.   *)
LEMMA ShutdownStep == IInv /\ StartShutdown => IInv'
  <1> SUFFICES ASSUME IInv, StartShutdown PROVE IInv'
    OBVIOUS
  <1>1. TypeOK'
    BY BoundsAssumption DEF IInv, TypeOK, StartShutdown, Goto, database, media, Active
  <1>2. Recorded' /\ AnsweredIsStored'
    BY DEF IInv, Recorded, AnsweredIsStored, StartShutdown, Goto, database, media
  <1>3. ASSUME NEW r \in Active'  PROVE  Ready(r)'
    <2>1. r \in Active /\ req' = req /\ stored' = stored /\ grace' = Grace
      BY <1>3 DEF StartShutdown, media, Active
    <2>2. req[r] \in Request /\ Ready(r)
      BY <2>1 DEF IInv, TypeOK, Active
    <2>3. req[r].left \in Nat
      BY <2>2 DEF Request
    <2> QED  BY <2>1, <2>2, <2>3, BoundsAssumption, GraceAssumption DEF Ready, File
  <1> QED  BY <1>1, <1>2, <1>3 DEF IInv

(* The handlers' time and Shutdown's run out together.                     *)
LEMMA TickStep == IInv /\ Tick => IInv'
  <1> SUFFICES ASSUME IInv, Tick PROVE IInv'
    OBVIOUS
  <1>1. ASSUME NEW r \in Timed
        PROVE  /\ req[r] \in Request /\ req[r].left > 0
               /\ req'[r] = [req[r] EXCEPT !.left = @ - 1] /\ req'[r] \in Request
    <2>1. req[r] \in Request
      BY AtWork DEF IInv, Timed
    <2> QED  BY <1>1, <2>1 DEF Tick, Timed, Request
  <1>2. \A r \in Req \ Timed : req'[r] = req[r]
    BY DEF Tick
  <1>3. Active' = Active
    BY <1>1, <1>2, IdleIsNoRequest DEF Active, Timed
  <1>4. req' \in [Req -> Request \cup {Idle}]
    <2>1. \A r \in Req : req'[r] \in Request \cup {Idle}
      BY <1>1, <1>2 DEF IInv, TypeOK
    <2> QED  BY <2>1 DEF Tick
  <1>5. grace' \in 0..Grace /\ (phase = "draining" => grace' = grace - 1)
    BY BoundsAssumption DEF IInv, TypeOK, Tick
  <1>6. TypeOK'
    BY <1>3, <1>4, <1>5 DEF IInv, TypeOK, Tick, database, media
  <1>7. Recorded' /\ AnsweredIsStored'
    BY DEF IInv, Recorded, AnsweredIsStored, Tick, database, media
  <1>8. ASSUME NEW r \in Active'  PROVE  Ready(r)'
    <2>1. r \in Active /\ r \in Req /\ Ready(r) /\ phase' = phase /\ stored' = stored
      BY <1>3, <1>8 DEF IInv, Active, Tick, media
    <2>2. CASE r \in Timed
      <3>1. /\ req'[r].pc = req[r].pc /\ req'[r].kind = req[r].kind
            /\ req'[r].upload = req[r].upload /\ req'[r].late = req[r].late
            /\ req'[r].left = req[r].left - 1 /\ req[r].left \in Nat
        BY <1>1, <2>2 DEF Request
      <3>2. grace \in Nat /\ ApiBudget \in Nat
        BY BoundsAssumption DEF IInv, TypeOK
      <3> QED  BY <1>5, <2>1, <3>1, <3>2 DEF Ready, File
    <2>3. CASE r \notin Timed
      BY <1>2, <2>1, <2>3 DEF Ready, Timed, File
    <2> QED  BY <2>2, <2>3
  <1> QED  BY <1>6, <1>7, <1>8 DEF IInv

(* One step of a request, call by call.                                    *)
LEMMA HandlerStep ==
    ASSUME IInv, NEW r \in Req, Receive(r) \/ HaveBody(r) \/ Finish(r) \/ Bounded(r)
    PROVE  IInv'
  <1> USE DEF server, database, media
  <1>1. TypeOK /\ stored \subseteq Object /\ answered \subseteq stored /\ uploads \in 0..MaxUpload
    BY DEF IInv, TypeOK, AnsweredIsStored
  <1>2. CASE Receive(r)
    <2>1. PICK kind \in Kind :
            Set(r, [kind |-> kind, pc |-> "body", left |-> 0, late |-> FALSE, upload |-> 0])
      BY <1>2 DEF Receive
    <2> DEFINE q == [kind |-> kind, pc |-> "body", left |-> 0, late |-> FALSE, upload |-> 0]
    <2>2. q \in Request
      BY BoundsAssumption DEF Request
    <2>3. req'[r] = q
      BY <1>1, <2>1, <2>2, SetType
    <2>4. Ready(r)'
      BY <2>3 DEF Ready
    <2> QED  BY <1>1, <1>2, <2>1, <2>2, <2>4, RequestStep DEF Receive
  <1>3. CASE HaveBody(r)
    <2>1. /\ req[r] \in Request /\ phase \in {"serving", "draining"} /\ req[r].pc = "body"
          /\ UNCHANGED <<server, stored, answered, sockets>>
      BY <1>1, <1>3, AtWork DEF HaveBody
    <2>2. \E pc \in {"work", "out"}, left \in Nat, upload \in 0..MaxUpload :
            /\ Begin(r, pc, left, upload)
            /\ uploads' \in 0..MaxUpload
            /\ pc = "work" => req[r].kind # "download"
            /\ pc = "work" /\ req[r].kind \in Upload => upload # 0
            /\ pc = "work" /\ req[r].kind = "api" => left = ApiBudget
      <3>1. CASE req[r].kind = "api" /\ Begin(r, "work", ApiBudget, 0) /\ UNCHANGED uploads
        BY <1>1, <3>1, BoundsAssumption DEF Upload
      <3>2. CASE req[r].kind = "download" /\ Begin(r, "out", 0, 0) /\ UNCHANGED uploads
        BY <1>1, <3>2, BoundsAssumption
      <3>3. CASE /\ req[r].kind \in Upload /\ uploads < MaxUpload /\ uploads' = uploads + 1
                 /\ Begin(r, "work", UploadBudget, uploads + 1)
        <4>1. uploads + 1 \in 0..MaxUpload /\ uploads + 1 # 0
          BY <1>1, <3>3, BoundsAssumption
        <4>2. req[r].kind \notin {"api", "download"}
          BY <3>3 DEF Upload
        <4> QED  BY <3>3, <4>1, <4>2, BoundsAssumption
      <3> QED  BY <1>3, <3>1, <3>2, <3>3 DEF HaveBody
    <2>3. PICK pc \in {"work", "out"}, left \in Nat, upload \in 0..MaxUpload :
            /\ Begin(r, pc, left, upload)
            /\ uploads' \in 0..MaxUpload
            /\ pc = "work" => req[r].kind # "download"
            /\ pc = "work" /\ req[r].kind \in Upload => upload # 0
            /\ pc = "work" /\ req[r].kind = "api" => left = ApiBudget
      BY <2>2
    <2> DEFINE q == [req[r] EXCEPT !.pc = pc, !.left = left, !.upload = upload,
                                   !.late = (phase = "draining")]
    <2>4. q \in Request /\ Set(r, q)
      BY <2>1, <2>3 DEF Request, Begin
    <2>5. /\ q.pc = pc /\ q.left = left /\ q.upload = upload /\ q.kind = req[r].kind
          /\ phase = "draining" => q.late
      BY <2>1 DEF Request
    <2>6. req'[r] = q
      BY <1>1, <2>4, SetType
    <2> HIDE DEF q
    <2>7. Ready(r)'
      BY <2>1, <2>3, <2>5, <2>6, BoundsAssumption DEF Ready
    <2> QED  BY <1>1, <2>1, <2>3, <2>4, <2>7, RequestStep
  <1>4. CASE Finish(r)
    <2>1. phase \in {"serving", "draining"}
      BY <1>1, <1>4, AtWork DEF Finish
    <2> QED  BY <1>1, <1>4, <2>1, RequestStep DEF Finish
  <1>5. CASE Work(r)
    <2> DEFINE q == [req[r] EXCEPT !.pc = "out"]
    <2>1. req[r] \in Request /\ phase \in {"serving", "draining"}
      BY <1>1, <1>5, AtWork DEF Work
    <2>2. q \in Request /\ q.pc = "out"
      BY <2>1 DEF Request
    <2>3. req'[r] = q
      BY <1>1, <1>5, <2>2, SetType DEF Work
    <2>4. Ready(r)'
      BY <2>2, <2>3 DEF Ready
    <2> QED  BY <1>1, <1>5, <2>1, <2>2, <2>4, RequestStep DEF Work
  <1>6. CASE PutFile(r)
    <2>1. /\ req[r] \in Request /\ r \in Active /\ phase \in {"serving", "draining"}
          /\ req[r].pc = "work" /\ req[r].kind \in Upload
      BY <1>1, <1>6, AtWork DEF PutFile
    <2>2. req[r].upload \in 1..MaxUpload
      BY <2>1, BoundsAssumption DEF IInv, Ready, Request
    <2>3. File(r) \in Object /\ stored' = stored \cup {File(r)}
      BY <1>6, <2>2 DEF PutFile, File, Object
    <2>4. CASE req[r].kind = "video"
      BY <1>1, <1>6, <2>1, <2>3, <2>4, RequestStep DEF PutFile, AnswerOk
    <2>5. CASE req[r].kind # "video"
      <3> DEFINE q == [req[r] EXCEPT !.pc = "thumb"]
      <3>1. /\ q \in Request /\ q.pc = "thumb" /\ q.kind = req[r].kind
            /\ q.upload = req[r].upload
        BY <2>1 DEF Request
      <3>2. Set(r, q) /\ answered' = answered
        BY <1>6, <2>5 DEF PutFile
      <3>3. req'[r] = q
        BY <1>1, <3>1, <3>2, SetType
      <3>4. Ready(r)'
        BY <2>1, <2>2, <2>3, <3>1, <3>3 DEF Ready, File, Upload
      <3> QED  BY <1>1, <1>6, <2>1, <2>3, <3>1, <3>2, <3>4, RequestStep DEF PutFile
    <2> QED  BY <2>4, <2>5
  <1>7. CASE PutThumb(r)
    <2>1. /\ req[r] \in Request /\ r \in Active /\ phase \in {"serving", "draining"}
          /\ req[r].pc = "thumb"
      BY <1>1, <1>7, AtWork DEF PutThumb
    <2>2. req[r].upload \in 1..MaxUpload /\ File(r) \in stored
      BY <2>1, BoundsAssumption DEF IInv, Ready, Request
    <2>3. Thumb(r) \in Object /\ stored' = stored \cup {Thumb(r)}
      BY <1>7, <2>2 DEF PutThumb, Thumb, Object
    <2> QED  BY <1>1, <1>7, <2>1, <2>2, <2>3, RequestStep DEF PutThumb, AnswerOk
  <1>8. CASE PutFails(r)
    <2>1. /\ req[r] \in Request /\ r \in Active /\ phase \in {"serving", "draining"}
          /\ req[r].pc \in {"work", "thumb"} /\ req[r].kind \in Upload
      BY <1>1, <1>8, AtWork DEF PutFails
    <2>2. req[r].upload \in 1..MaxUpload
      BY <2>1, BoundsAssumption DEF IInv, Ready, Request
    <2>3. File(r) \in Object /\ Thumb(r) \in Object
      BY <2>2 DEF File, Thumb, Object
    <2>4. stored' \in SUBSET Object /\ stored \subseteq stored'
      BY <1>1, <1>8, <2>3 DEF PutFails
    <2> QED  BY <1>1, <1>8, <2>1, <2>4, RequestStep DEF PutFails, AnswerError
  <1> QED  BY <1>2, <1>3, <1>4, <1>5, <1>6, <1>7, <1>8 DEF Bounded

(* Connections come and go beside the requests.                            *)
LEMMA SocketStep ==
    ASSUME IInv, NEW s \in Socket, OpenSocket(s) \/ CloseSocket(s)
    PROVE  IInv'
  <1>1. UNCHANGED <<server, media, req>> /\ sockets' \in SUBSET Socket /\ Active' = Active
    BY DEF IInv, TypeOK, OpenSocket, CloseSocket, Active
  <1>2. sockets' # {} => phase \in {"serving", "draining"}
    BY DEF IInv, TypeOK, OpenSocket, CloseSocket
  <1>3. TypeOK'
    BY <1>1, <1>2 DEF IInv, TypeOK, server, database, media
  <1>4. Recorded' /\ AnsweredIsStored' /\ \A r \in Active : Ready(r)'
    BY <1>1 DEF IInv, Recorded, AnsweredIsStored, Ready, File, server, database, media
  <1> QED  BY <1>1, <1>3, <1>4 DEF IInv

(* Every step keeps the invariant.                                         *)
LEMMA NextIInv == IInv /\ [Next]_vars => IInv'
  <1> SUFFICES ASSUME IInv, [Next]_vars PROVE IInv'
    OBVIOUS
  <1>1. CASE Start \/ MigrateBegin \/ Execute \/ MigrateEnd \/ Serve
    BY <1>1, StartStep
  <1>2. CASE StartShutdown
    BY <1>2, ShutdownStep
  <1>3. CASE Exit \/ Crash
    BY <1>3, DieStep DEF Exit, Crash
  <1>4. ASSUME NEW r \in Req, Receive(r) \/ HaveBody(r) \/ Finish(r) \/ Bounded(r)
        PROVE  IInv'
    BY <1>4, HandlerStep
  <1>5. ASSUME NEW s \in Socket, OpenSocket(s) \/ CloseSocket(s)  PROVE IInv'
    BY <1>5, SocketStep
  <1>6. CASE Tick
    BY <1>6, TickStep
  <1>7. CASE UNCHANGED vars
    BY <1>7 DEF vars, server, database, media, IInv, TypeOK, Recorded, AnsweredIsStored,
                Active, Ready, File
  <1> QED  BY <1>1, <1>2, <1>3, <1>4, <1>5, <1>6, <1>7 DEF Next

(* IInv holds in every state of every behaviour.                           *)
THEOREM SpecIInv == Spec => []IInv
  BY InitIInv, NextIInv, PTL DEF Spec

(* The variables have their types, and requests and connections exist only *)
(* while the server runs.                                                  *)
THEOREM SpecTypeOK == Spec => []TypeOK
  <1>1. IInv => TypeOK
    BY DEF IInv
  <1> QED  BY <1>1, SpecIInv, PTL

(* Nothing is served on tables that a statement of a migration is missing  *)
(* from, wherever earlier starts were cut off and however many migrations  *)
(* there are.                                                              *)
THEOREM SpecServesMigrated == Spec => []ServesMigrated
  <1>1. IInv => ServesMigrated
    <2> SUFFICES ASSUME IInv, phase \in {"serving", "draining"}, NEW v \in 1..Versions
                 PROVE  executed[v] = Statements
      BY DEF ServesMigrated
    <2>1. schema.version = Versions /\ ~schema.dirty
      BY DEF IInv, Recorded
    <2>2. v < schema.version \/ v = schema.version
      BY <2>1, BoundsAssumption
    <2> QED  BY <2>1, <2>2 DEF IInv, Recorded
  <1> QED  BY <1>1, SpecIInv, PTL

(* No client knows an id whose object is not stored, whichever Puts fail   *)
(* and wherever the server dies.                                           *)
THEOREM SpecAnsweredIsStored == Spec => []AnsweredIsStored
  <1>1. IInv => AnsweredIsStored
    BY DEF IInv
  <1> QED  BY <1>1, SpecIInv, PTL

(* Shutdown cuts off no handler that was at work under the short timeout,  *)
(* for any timeouts of which the handlers' is the shorter.                 *)
THEOREM SpecShutdownCutsOnly == Spec => ShutdownCutsOnly
  <1>1. IInv /\ [Next]_vars =>
          [\A r \in Req : Cut(r) =>
              \/ req[r].kind \in Upload
              \/ req[r].late
              \/ req[r].pc \in {"body", "out"}]_vars
    <2> SUFFICES ASSUME IInv, Next, NEW r \in Req, Cut(r),
                        req[r].kind \notin Upload, req[r].pc \notin {"body", "out"}
                 PROVE  req[r].late
      OBVIOUS
    <2>1. r \in Active /\ phase = "draining"
      BY DEF Cut, Active
    <2>2. Exit
      BY DEF Next, Cut, Start, MigrateBegin, Execute, MigrateEnd, Serve, Migrated,
             StartShutdown, Crash, Die, Goto, Receive, HaveBody, Finish, Bounded, Work, PutFile,
             PutThumb, PutFails, OpenSocket, CloseSocket, Tick, server
    <2>3. grace = 0
      BY <2>1, <2>2 DEF Exit
    <2>4. req[r] \in Request /\ Ready(r)
      BY <2>1 DEF IInv, TypeOK, Active
    <2>5. req[r].left \in Nat /\ req[r].pc \in {"body", "work", "thumb", "out"} /\ req[r].kind \in Kind
      BY <2>4 DEF Request
    <2> QED  BY <2>1, <2>3, <2>4, <2>5 DEF Ready, Kind, Upload
  <1> QED  BY <1>1, SpecIInv, PTL DEF Spec, ShutdownCutsOnly

=============================================================================
