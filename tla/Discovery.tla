----------------------------- MODULE Discovery ------------------------------
(***************************************************************************)
(* solar-discovery: the scanner and the webhook server put repository      *)
(* events on a channel; qualifier, filter, handler and API writer, each a  *)
(* Runner with one goroutine and a bounded input channel, pass them on and *)
(* write the catalog.  Publishing to a full channel drops the event, and   *)
(* so does every error: nothing is retried but by the next scan.           *)
(*                                                                         *)
(* An image is one OCM component version in the OCI registry; its content  *)
(* (and its digest) is the number of the push that made it.  The name of   *)
(* its ComponentVersion leaves the registry out and is cut at 63           *)
(* characters, so images may share one.  The objects the writer creates    *)
(* and their finalizers are the subject of Catalog.                        *)
(***************************************************************************)
EXTENDS Naturals, Sequences, FiniteSets, Functions

CONSTANTS
    Repos,        \* component repositories of the scanned registries
    Versions,
    ComponentVersionName, \* of an image <<repo, version>>; images may share a name
    Deployable,   \* the pushes whose descriptor has exactly one Helm chart
    Cap,          \* the capacities of the four channels (each 1000 in the code)
    Initial,      \* the images there are before the process starts: <<repo, version>> -> push or None
    Announced,    \* those of them whose notification is still under way
    MaxInFlight,  \* bound on the events in the pipeline when a notification comes
    MaxBacklog,   \* and when the scanner publishes
    MaxChanges,   \* bound on pushes, removals, failing calls, shutdowns and crashes together
    None

Qualifier == 1
Filter == 2
Handler == 3
Writer == 4
Stages == Qualifier .. Writer

Images == Repos \X Versions
Names == {ComponentVersionName[x] : x \in Images}
FirstPushes == Cardinality({x \in Images : Initial[x] # None})
Digests == 1 .. FirstPushes + MaxChanges

ASSUME DiscoveryAssumption ==
    /\ \A S \in (SUBSET Images) \cup (SUBSET Versions) : Cardinality(S) \in Nat \* finitely many
    /\ Cap \in [Stages -> Nat \ {0}]
    /\ MaxInFlight \in Nat /\ MaxBacklog \in Nat /\ MaxChanges \in Nat
    /\ Deployable \subseteq Nat
    /\ Initial \in [Images -> 1 .. FirstPushes \cup {None}]
    /\ Announced \subseteq {x \in Images : Initial[x] # None}

VARIABLES
    images,    \* OCI registry: <<repo, version>> -> push number or None
    notices,   \* notifications under way from the OCI registry
    requests,  \* those whose request the webhook server had taken when it was shut down
    chan,      \* the input channels of the four stages
    stage,     \* the runLoop of each stage
    scan,      \* the registry scanner
    life,      \* of the process: new, running, shutdown, stopping, stopped
    halt,      \* while stopping: what Pipeline.Stop waits for (0: the scanner)
    ctxDone,   \* the process's context is cancelled
    cvs,       \* catalog: name -> [img, label, spec] or None
    pushes,    \* the number of the last push
    changes

env == <<images, notices, pushes>>
proc == <<requests, chan, stage, scan, life, halt, ctxDone>>
vars == <<env, proc, cvs, changes>>

Change == changes < MaxChanges /\ changes' = changes + 1

(* RepositoryEvent, ComponentVersionEvent and WriteAPIResourceEvent in one:
   spec is what the handler read from the component descriptor. *)
Event(t, r, v, d) == [type |-> t, repo |-> r, ver |-> v, dig |-> d, spec |-> None]

Events ==
    [type : {"created", "updated", "deleted"}, repo : Repos,
     ver : Versions \cup {None}, dig : Digests \cup {None}, spec : Digests \cup {None}]

(* A ComponentVersion: the image it describes (component, tag and resources),
   the digest label and the content. *)
Entries == [img : Images, label : Digests \cup {None}, spec : Deployable]

ASSUME NoneAssumption ==
    None \notin Versions \cup Digests \cup Deployable \cup Events \cup Entries

Off == [pc |-> "off", ev |-> None, out |-> <<>>]
ScanOff == [pc |-> "off", locked |-> FALSE, todo |-> {}]

VersionsOf(r) == {v \in Versions : images[<<r, v>>] # None}

(* What zot sends when an image is pushed (the first of a repository creates
   it) or removed. *)
Pushed(r, v, d) ==
    {Event(t, r, v, d) : t \in {"updated"} \cup (IF VersionsOf(r) = {} THEN {"created"} ELSE {})}
Removed(r, d) == Event("deleted", r, None, d)

Init ==
    /\ images = Initial
    /\ notices = {Event("updated", x[1], x[2], Initial[x]) : x \in Announced}
    /\ requests = {}
    /\ pushes = FirstPushes
    /\ chan = [i \in Stages |-> <<>>] /\ stage = [i \in Stages |-> Off]
    /\ scan = ScanOff /\ life = "new" /\ halt = 0 /\ ctxDone = FALSE
    /\ cvs = [n \in Names |-> None]
    /\ changes = 0

-----------------------------------------------------------------------------
(* The OCI registry: images are pushed (again) and removed, each change is
   notified, and a notification may never arrive or overtake another. *)

PushImage(r, v) ==
    /\ Change
    /\ pushes' = pushes + 1
    /\ images' = [images EXCEPT ![<<r, v>>] = pushes + 1]
    /\ notices' = notices \cup Pushed(r, v, pushes + 1)
    /\ UNCHANGED <<proc, cvs>>

RemoveImage(r, v) ==
    /\ images[<<r, v>>] # None /\ Change
    /\ images' = [images EXCEPT ![<<r, v>>] = None]
    /\ notices' = notices \cup {Removed(r, images[<<r, v>>])}
    /\ UNCHANGED <<pushes, proc, cvs>>

-----------------------------------------------------------------------------
(* The events a stage works on, and all accepted events, oldest first. *)
Held(i) == IF stage[i].ev = None THEN stage[i].out ELSE <<stage[i].ev>>

InFlight ==
    Held(Writer) \o chan[Writer] \o Held(Handler) \o chan[Handler]
      \o Held(Filter) \o chan[Filter] \o Held(Qualifier) \o chan[Qualifier]

(* Publish and the webhook handler *)

HasRoom(i) == Len(chan[i]) < Cap[i]

(* The bound on the events under way holds back what would make the line
   longer, but no scan that would wait for a qualifier that has ended. *)
Fits(max) ==
    \/ ~HasRoom(Qualifier)
    \/ stage[Qualifier].pc = "done"
    \/ Len(InFlight) < max

\* Mutant of Publish: the channel is not bounded.
PublishAlways(i, e) == [chan EXCEPT ![i] = Append(@, e)]

(* The non-blocking send: the event is dropped when the channel is full. *)
Publish(i, e) == IF HasRoom(i) THEN [chan EXCEPT ![i] = Append(@, e)] ELSE chan

(* The zot handler sends without blocking and answers 503 when the channel is
   full.  A request taken before the shutdown may be served during it or at
   any time after it. *)
ServeHTTP(n) ==
    /\ n \in (IF life = "running" THEN notices ELSE requests) /\ Fits(MaxInFlight)
    /\ notices' = notices \ {n} /\ requests' = requests \ {n}
    /\ chan' = Publish(Qualifier, n)
    /\ UNCHANGED <<images, pushes, stage, scan, life, halt, ctxDone, cvs, changes>>

-----------------------------------------------------------------------------
(* The registry scanner.  The first scan runs in scanLoop, which Stop waits
   for; the later ones run in goroutines of their own, one at a time by
   scanMutex (a tick that finds it locked does nothing). *)

(* The repositories there are, found in any order. *)
Listing == {r \in Repos : \E v \in Versions : images[<<r, v>>] # None}

ScannerStopped == ctxDone \/ life = "stopping"

BeginScan ==
    /\ scan.pc \in {"started", "ticking"} /\ ~scan.locked
    /\ scan' = [pc     |-> IF scan.pc = "started" THEN "first" ELSE "ticking",
                locked |-> TRUE, todo |-> Listing]
    /\ UNCHANGED <<env, requests, chan, stage, life, halt, ctxDone, cvs, changes>>

ScanRepo(r) ==
    /\ scan.locked /\ Fits(MaxBacklog)
    /\ chan' = Publish(Qualifier, Event("created", r, None, None))
    /\ scan' = [scan EXCEPT !.todo = @ \ {r}]
    /\ UNCHANGED <<env, requests, stage, life, halt, ctxDone, cvs, changes>>

(* Listing the repositories, or a page of them, fails. *)
ScanFails ==
    /\ scan.locked /\ scan.todo # {}
    /\ IF ctxDone THEN UNCHANGED changes ELSE Change
    /\ scan' = [scan EXCEPT !.todo = {}]
    /\ UNCHANGED <<env, requests, chan, stage, life, halt, ctxDone, cvs>>

EndScan ==
    /\ scan.locked /\ scan.todo = {}
    /\ scan' = [scan EXCEPT !.locked = FALSE, !.pc = IF @ = "first" THEN "ticking" ELSE @]
    /\ UNCHANGED <<env, requests, chan, stage, life, halt, ctxDone, cvs, changes>>

\* Mutant of EndScanLoop: the loop does not look at stopChan.
EndScanLoopCtx ==
    /\ scan.pc = "ticking" /\ ctxDone
    /\ scan' = [scan EXCEPT !.pc = "done"]
    /\ UNCHANGED <<env, requests, chan, stage, life, halt, ctxDone, cvs, changes>>

EndScanLoop ==
    /\ scan.pc = "ticking" /\ ScannerStopped
    /\ scan' = [scan EXCEPT !.pc = "done"]
    /\ UNCHANGED <<env, requests, chan, stage, life, halt, ctxDone, cvs, changes>>

-----------------------------------------------------------------------------
(* The Processors: the output events there may be for an input event. *)

(* An event without a version is expanded to one per version listed now, in
   the order of the registry's answer. *)
QualifierProcess(e) ==
    IF e.type = "deleted" \/ e.ver # None THEN {<<e>>}
    ELSE LET n == Cardinality(VersionsOf(e.repo))
         IN  {[k \in 1 .. n |-> [e EXCEPT !.ver = listed[k]]] :
                 listed \in Bijection(1 .. n, VersionsOf(e.repo))}

\* Mutant of FilterProcess: any version of the component counts.
FilterProcessAny(e) ==
    IF e.type = "created" /\ \E v \in Versions : cvs[ComponentVersionName[<<e.repo, v>>]] # None
    THEN {<<>>} ELSE {<<e>>}

(* Only created events are held back, and only if the name is taken. *)
FilterProcess(e) ==
    IF e.type = "created" /\ cvs[ComponentVersionName[<<e.repo, e.ver>>]] # None
    THEN {<<>>} ELSE {<<e>>}

(* The version is looked up as it is now; it must have one Helm chart. *)
HandlerProcess(e) ==
    IF e.type = "deleted" THEN {<<e>>}
    ELSE IF images[<<e.repo, e.ver>>] \in Deployable
         THEN {<<[e EXCEPT !.spec = images[<<e.repo, e.ver>>]]>>}
         ELSE {<<>>}

(* Deletions find their ComponentVersions by the digest label. *)
deleteComponentVersion(e) ==
    [n \in Names |-> IF e.dig # None /\ cvs[n] # None /\ cvs[n].label = e.dig
                     THEN None ELSE cvs[n]]

(* Create, or Update of whatever has the name. *)
ensureComponentVersion(e) ==
    LET x == <<e.repo, e.ver>>
    IN  [cvs EXCEPT ![ComponentVersionName[x]] = [img |-> x, label |-> e.dig, spec |-> e.spec]]

WriterProcess(e) ==
    IF e.type = "deleted" THEN deleteComponentVersion(e) ELSE ensureComponentVersion(e)

Output(i, e) ==
    CASE i = Qualifier -> QualifierProcess(e)
      [] i = Filter    -> FilterProcess(e)
      [] i = Handler   -> HandlerProcess(e)
      [] i = Writer    -> {<<>>}

-----------------------------------------------------------------------------
(* The Runner *)

\* Mutant of Receive: the newest event is taken first.
ReceiveLast(i) ==
    /\ stage[i].pc = "idle" /\ chan[i] # <<>>
    /\ stage' = [stage EXCEPT ![i].pc = "busy", ![i].ev = chan[i][Len(chan[i])]]
    /\ chan' = [chan EXCEPT ![i] = SubSeq(@, 1, Len(@) - 1)]
    /\ UNCHANGED <<env, requests, scan, life, halt, ctxDone, cvs, changes>>

Receive(i) ==
    /\ stage[i].pc = "idle" /\ chan[i] # <<>>
    /\ stage' = [stage EXCEPT ![i].pc = "busy", ![i].ev = Head(chan[i])]
    /\ chan' = [chan EXCEPT ![i] = Tail(@)]
    /\ UNCHANGED <<env, requests, scan, life, halt, ctxDone, cvs, changes>>

(* select picks any ready case: a stopped stage may go on while it has input. *)
LeaveLoop(i) ==
    /\ stage[i].pc = "idle"
    /\ ctxDone \/ (life = "stopping" /\ halt >= i)
    /\ stage' = [stage EXCEPT ![i].pc = "done"]
    /\ UNCHANGED <<env, requests, chan, scan, life, halt, ctxDone, cvs, changes>>

Yield(i, out) ==
    stage' = [stage EXCEPT ![i] = [pc |-> IF out = <<>> THEN "idle" ELSE "out",
                                   ev |-> None, out |-> out]]

Process(i) ==
    /\ stage[i].pc = "busy"
    /\ \E out \in Output(i, stage[i].ev) : Yield(i, out)
    /\ cvs' = IF i = Writer THEN WriterProcess(stage[i].ev) ELSE cvs
    /\ UNCHANGED <<env, requests, chan, scan, life, halt, ctxDone, changes>>

(* Any error, from the rate limiter, the OCI registry or the API server, is
   logged and the event forgotten. *)
ProcessFails(i) ==
    /\ stage[i].pc = "busy"
    /\ IF ctxDone THEN UNCHANGED changes ELSE Change
    /\ Yield(i, <<>>)
    /\ UNCHANGED <<env, requests, chan, scan, life, halt, ctxDone, cvs>>

\* Mutant of PublishOutput: the outputs are published from the last.
PublishOutputLast(i) ==
    /\ stage[i].pc = "out"
    /\ LET o == stage[i].out
       IN  chan' = Publish(i + 1, o[Len(o)]) /\ Yield(i, SubSeq(o, 1, Len(o) - 1))
    /\ UNCHANGED <<env, requests, scan, life, halt, ctxDone, cvs, changes>>

PublishOutput(i) ==
    /\ stage[i].pc = "out"
    /\ chan' = Publish(i + 1, Head(stage[i].out))
    /\ Yield(i, Tail(stage[i].out))
    /\ UNCHANGED <<env, requests, scan, life, halt, ctxDone, cvs, changes>>

-----------------------------------------------------------------------------
(* Pipeline.Start, Pipeline.Stop and the process *)

Start ==
    /\ life = "new"
    /\ life' = "running"
    /\ scan' = [ScanOff EXCEPT !.pc = "started"]
    /\ stage' = [i \in Stages |-> [Off EXCEPT !.pc = "idle"]]
    /\ UNCHANGED <<env, requests, chan, halt, ctxDone, cvs, changes>>

(* The webhook server cannot listen: Start stops what never started. *)
StartFails ==
    /\ life = "new" /\ Change
    /\ life' = "stopping"
    /\ UNCHANGED <<env, requests, chan, stage, scan, halt, ctxDone, cvs>>

(* An error event or the end of the context makes main call Stop, which first
   shuts the webhook server down: it takes no more requests. *)
Stop(cancelled) ==
    /\ life = "running" /\ Change
    /\ life' = "shutdown" /\ ctxDone' = cancelled
    /\ requests' \in SUBSET notices
    /\ UNCHANGED <<env, chan, stage, scan, halt, cvs>>

(* Shutdown waits for the requests under way, but for five seconds at most. *)
ShutdownReturns ==
    /\ life = "shutdown"
    /\ life' = "stopping"
    /\ UNCHANGED <<env, requests, chan, stage, scan, halt, ctxDone, cvs, changes>>

Ended(i) == (IF i = 0 THEN scan.pc ELSE stage[i].pc) \in {"off", "done"}

\* Mutant of StopNext: Stop does not wait.
StopNextAtOnce ==
    /\ life = "stopping"
    /\ IF halt < Writer THEN halt' = halt + 1 /\ UNCHANGED life
                        ELSE life' = "stopped" /\ UNCHANGED halt
    /\ UNCHANGED <<env, requests, chan, stage, scan, ctxDone, cvs, changes>>

(* Stop waits for the goroutine of one component, then turns to the next. *)
StopNext ==
    /\ life = "stopping" /\ Ended(halt)
    /\ IF halt < Writer THEN halt' = halt + 1 /\ UNCHANGED life
                        ELSE life' = "stopped" /\ UNCHANGED halt
    /\ UNCHANGED <<env, requests, chan, stage, scan, ctxDone, cvs, changes>>

(* The process is gone with its channels, and the pod is started again. *)
Die ==
    /\ life' = "new" /\ halt' = 0 /\ ctxDone' = FALSE /\ requests' = {}
    /\ chan' = [i \in Stages |-> <<>>]
    /\ stage' = [i \in Stages |-> Off] /\ scan' = ScanOff
    /\ UNCHANGED <<env, cvs>>

Restart == life = "stopped" /\ Die /\ UNCHANGED changes

Crash ==
    /\ life \in {"running", "shutdown", "stopping"} /\ Change
    /\ Die

-----------------------------------------------------------------------------
StageStep(i) ==
    Receive(i) \/ LeaveLoop(i) \/ Process(i) \/ ProcessFails(i) \/ PublishOutput(i)

Next ==
    \/ \E r \in Repos, v \in Versions : PushImage(r, v) \/ RemoveImage(r, v)
    \/ \E n \in notices \cup requests : ServeHTTP(n)
    \/ \E r \in scan.todo : ScanRepo(r)
    \/ BeginScan \/ ScanFails \/ EndScan \/ EndScanLoop
    \/ \E i \in Stages : StageStep(i)
    \/ Start \/ StartFails \/ Stop(TRUE) \/ Stop(FALSE) \/ ShutdownReturns
    \/ StopNext \/ Restart \/ Crash

Spec == Init /\ [][Next]_vars

(* The goroutines keep running, and a pod that ended is started again. *)
Progress ==
    /\ WF_vars(BeginScan \/ EndScan \/ \E r \in scan.todo : ScanRepo(r)) /\ WF_vars(EndScanLoop)
    /\ WF_vars(Start \/ ShutdownReturns \/ StopNext \/ Restart)
    /\ \A i \in Stages : WF_vars(Receive(i) \/ LeaveLoop(i) \/ Process(i) \/ PublishOutput(i))

FairSpec == Spec /\ Progress

-----------------------------------------------------------------------------
(* Properties *)

(* Events, channels, stages and catalog have their types: no channel holds more
   than its capacity, and a stage holds an event, or its outputs, or neither. *)
TypeOK ==
    /\ images \in [Images -> Digests \cup {None}]
    /\ notices \subseteq Events /\ requests \subseteq notices
    /\ \A i \in Stages :
         /\ Len(chan[i]) <= Cap[i]
         /\ \A k \in DOMAIN chan[i] : chan[i][k] \in Events
         /\ stage[i].pc \in {"off", "idle", "busy", "out", "done"}
         /\ (stage[i].pc = "busy") = (stage[i].ev # None)
         /\ (stage[i].pc = "out") = (stage[i].out # <<>>)
    /\ scan.pc \in {"off", "started", "first", "ticking", "done"}
    /\ life \in {"new", "running", "shutdown", "stopping", "stopped"} /\ halt \in 0 .. Writer
    /\ cvs \in [Names -> Entries \cup {None}]

Promise == INSTANCE Delivery WITH line <- InFlight

(* Whatever is dropped, the four stages deliver like one line: no event
   overtakes another, none is applied twice, and every change of the catalog
   is the application of the oldest event (one goroutine per Runner, FIFO
   channels, Publish in the order of the outputs). *)
DeliversInOrder == Promise!Spec

(* A ComponentVersion that is rewritten for the same image never goes back to
   the content of an earlier push, although the handler's read of the OCI
   registry and the writer's write are separated by a channel and another
   image may have the same name. *)
SpecNeverRegresses ==
    [][\A n \in Names :
          cvs[n] # None /\ cvs'[n] # None /\ cvs'[n].img = cvs[n].img
          => cvs'[n].spec >= cvs[n].spec]_vars

(* Once Pipeline.Stop has returned, no goroutine of the pipeline writes to
   the catalog any more. *)
QuietAfterStop == [][life = "stopped" => UNCHANGED cvs]_vars

(* Pipeline.Stop returns: whatever the stages and the requests under way are
   doing, Shutdown ends and so does each goroutine Stop waits for. *)
StopReturns == []<>(life \notin {"shutdown", "stopping"})

(* An event of a scan that names the image x, or its repository, is dropped at
   a full channel. *)
Dropped(x) ==
    \/ ScanRepo(x[1]) /\ ~HasRoom(Qualifier)
    \/ \E i \in Stages \ {Writer} :
          /\ PublishOutput(i) /\ ~HasRoom(i + 1)
          /\ LET e == Head(stage[i].out) IN <<e.repo, e.ver>> = x

(* A deployable image that stays in a scanned registry has a ComponentVersion
   of its name in the end, whatever notifications, events and calls were lost
   and however often the process ended: only full channels, and only if they
   drop its events again and again, keep the scans from finding it. *)
EventuallyDiscovered ==
    \A x \in Images :
        <>[](images[x] \in Deployable)
        => <>[](cvs[ComponentVersionName[x]] # None) \/ []<><<Dropped(x)>>_vars

(* What the comment on the digest label says it is for: a deletion that the
   writer processes finds the ComponentVersion of the removed image. *)
DeletionsFindTheirVersion ==
    [][\A d \in Digests :
         /\ stage[Writer].pc = "busy" /\ stage'[Writer].pc = "idle" /\ changes' = changes /\ ~ctxDone
         /\ stage[Writer].ev.type = "deleted" /\ stage[Writer].ev.dig = d
         => \A n \in Names : cvs'[n] # None => cvs'[n].spec # d]_vars
=============================================================================
