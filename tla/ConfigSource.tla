---------------------------- MODULE ConfigSource ----------------------------
(***************************************************************************)
(* How a server binary gets its configuration: the source of               *)
(* configuration.go, a goroutine that reads a file for each SIGHUP or gets  *)
(* and watches a key of etcd, and the loop in main() that calls the source  *)
(* and loads what it returns.                                               *)
(*                                                                         *)
(* Contents are numbered as they are written; `valid' tells which of them   *)
(* can be parsed and pass validateResourceRepository.  Number 0 stands for  *)
(* an error.  Channels: c and updates have one place, req has none.         *)
(***************************************************************************)
EXTENDS Integers, Sequences

CONSTANTS MaxWrites, MaxFailures

ASSUME SourceBounds == MaxWrites \in Nat /\ MaxFailures \in Nat

VARIABLES kind,          \* what ParseSource made of -config: "file" or "etcd"
          endpoints,     \* whether etcd's client accepts -etcd_endpoints
          valid,         \* of each content written so far, the newest last
          noticed,       \* whether the source has, or will, read the newest
          hup,           \* c holds a SIGHUP
          source,        \* where the source's goroutine is
          waitIndex,     \* the watcher's: the next content, or 0 for any new one
          updates,       \* the channel: empty, or one content
          loop,          \* where main's loop is in its call of the source
          loaded,        \* the content server.config was made from, 0 for none
          election,      \* "none", "running", or "failed" to start
          serving,       \* WaitUntilConfigured has returned
          failures

etcdVars == <<kind, endpoints>>
serverVars == <<loaded, election, serving>>
sourceVars == <<etcdVars, valid, noticed, hup, source, waitIndex, updates, loop, serverVars, failures>>

\* The number of the newest content.
Written == Len(valid)
Error == 0

AtPlace(place) == [at |-> place]
Pushing(content, next) == [at |-> "pushing", content |-> content, next |-> next]
Sleeping(next) == [at |-> "sleeping", next |-> next]
Watching(from) == [at |-> "watching", from |-> from]

\* The SIGHUP that LocalFile sends itself makes it read the file for the first
\* time.
SourceInit ==
    /\ kind \in {"file", "etcd"} /\ endpoints \in {"good", "bad"}
    /\ valid \in {<<TRUE>>, <<FALSE>>}
    /\ hup = (kind = "file") /\ noticed = hup
    /\ source = AtPlace(IF kind = "file" THEN "idle" ELSE "connect")
    /\ waitIndex = 0 /\ updates = <<>> /\ loop = "calling"
    /\ loaded = 0 /\ election = "none" /\ serving = FALSE
    /\ failures = 0

MayFail == failures < MaxFailures /\ failures' = failures + 1

-----------------------------------------------------------------------------
(* The operator. *)

\* A watch that knows which content comes next misses none.
Write ==
    /\ Written < MaxWrites
    /\ \E v \in BOOLEAN : valid' = Append(valid, v)
    /\ noticed' = (kind = "etcd" /\ (source.at = "watching" \/ waitIndex > 0))
    /\ UNCHANGED <<etcdVars, hup, source, waitIndex, updates, loop, serverVars, failures>>

\* Mutant of Hangup: a signal is dropped while the goroutine is busy.
HangupWhenIdle ==
    /\ kind = "file" /\ noticed' = TRUE
    /\ hup' = (hup \/ source.at = "idle")
    /\ UNCHANGED <<etcdVars, valid, source, waitIndex, updates, loop, serverVars, failures>>

\* A second SIGHUP finds c full and is dropped.
Hangup ==
    /\ kind = "file" /\ noticed' = TRUE
    /\ hup' = TRUE
    /\ UNCHANGED <<etcdVars, valid, source, waitIndex, updates, loop, serverVars, failures>>

-----------------------------------------------------------------------------
(* LocalFile *)

TakeSignal ==
    /\ source = AtPlace("idle") /\ hup
    /\ hup' = FALSE /\ source' = AtPlace("reading")
    /\ UNCHANGED <<etcdVars, valid, noticed, waitIndex, updates, loop, serverVars, failures>>

ReadFile ==
    /\ source = AtPlace("reading")
    /\ \/ /\ source' = Pushing(Written, "idle")
          /\ UNCHANGED <<noticed, failures>>
       \/ /\ source' = Pushing(Error, "idle") /\ MayFail
          /\ noticed' = (noticed /\ hup)
    /\ UNCHANGED <<etcdVars, valid, hup, waitIndex, updates, loop, serverVars>>

-----------------------------------------------------------------------------
(* Etcd *)

\* client.New fails for endpoints that are no URLs, and then always.
Connect ==
    /\ source = AtPlace("connect")
    /\ source' = IF endpoints = "good" THEN AtPlace("get") ELSE Pushing(Error, "retry")
    /\ UNCHANGED <<etcdVars, valid, noticed, hup, waitIndex, updates, loop, serverVars, failures>>

\* kapi.Get, once.
Get ==
    /\ source = AtPlace("getting")
    /\ \/ /\ source' = Pushing(Written, "watch") /\ noticed' = TRUE
          /\ UNCHANGED failures
       \/ /\ source' = Pushing(Error, "watch") /\ MayFail
          /\ UNCHANGED noticed
    /\ UNCHANGED <<etcdVars, valid, hup, waitIndex, updates, loop, serverVars>>

\* Watcher.Next sends its request: without an index etcd answers with whatever
\* is written from now on.
OpenWatch ==
    /\ source = AtPlace("open")
    /\ source' = Watching(IF waitIndex = 0 THEN Written + 1 ELSE waitIndex)
    /\ UNCHANGED <<etcdVars, valid, noticed, hup, waitIndex, updates, loop, serverVars, failures>>

SeeContent ==
    /\ source.at = "watching" /\ source.from <= Written
    /\ source' = Pushing(source.from, "watch") /\ waitIndex' = source.from + 1
    /\ UNCHANGED <<etcdVars, valid, noticed, hup, updates, loop, serverVars, failures>>

\* Mutant of WatcherFails: a new watcher starts from the beginning.
WatcherFailsAnew ==
    /\ source.at = "watching" /\ MayFail
    /\ source' = Pushing(Error, "wait") /\ waitIndex' = 1
    /\ UNCHANGED <<etcdVars, valid, noticed, hup, updates, loop, serverVars>>

\* What was written since, and nobody knows the index of, is lost.
WatcherFails ==
    /\ source.at = "watching" /\ MayFail
    /\ source' = Pushing(Error, "wait")
    /\ noticed' = (noticed /\ (waitIndex > 0 \/ source.from > Written))
    /\ UNCHANGED <<etcdVars, valid, hup, waitIndex, updates, loop, serverVars>>

\* updates <- pair; after an error the goroutine sleeps before it goes on.
Push ==
    /\ source.at = "pushing" /\ updates = <<>>
    /\ updates' = <<source.content>>
    /\ source' = CASE source.next = "retry" -> Sleeping("connect")
                   [] source.next = "wait" -> Sleeping("watch")
                   [] OTHER -> AtPlace(source.next)
    /\ UNCHANGED <<etcdVars, valid, noticed, hup, waitIndex, loop, serverVars, failures>>

WakeUp ==
    /\ source.at = "sleeping"
    /\ source' = AtPlace(source.next)
    /\ UNCHANGED <<etcdVars, valid, noticed, hup, waitIndex, updates, loop, serverVars, failures>>

-----------------------------------------------------------------------------
(* The binary. *)

\* cfg(context.Background()): a call of the etcd source waits until its
\* goroutine asks for one.
Call ==
    /\ loop = "calling" /\ loop' = "waiting"
    /\ \/ kind = "file" /\ UNCHANGED source
       \/ source = AtPlace("get") /\ source' = AtPlace("getting")
       \/ source = AtPlace("watch") /\ source' = AtPlace("open")
    /\ UNCHANGED <<etcdVars, valid, noticed, hup, waitIndex, updates, serverVars, failures>>

\* Election.Run fails if etcd's client does not accept the endpoints, unless the
\* election is a trivial one.
TriggerElection == election' \in IF endpoints = "good" THEN {"running"} ELSE {"running", "failed"}

\* Server.LoadConfig.  The first configuration also starts the election.
LoadConfig(content) ==
    /\ loaded' = content
    /\ IF loaded = 0 THEN TriggerElection ELSE UNCHANGED election

\* The call returns.  Errors, and contents that cannot be used, are logged only.
Receive ==
    /\ loop = "waiting" /\ updates # <<>>
    /\ loop' = "calling" /\ updates' = <<>>
    /\ IF updates[1] # Error /\ valid[updates[1]]
       THEN LoadConfig(updates[1])
       ELSE UNCHANGED <<loaded, election>>
    /\ UNCHANGED <<etcdVars, valid, noticed, hup, source, waitIndex, serving, failures>>

\* dm.WaitUntilConfigured(), and then the server listens.
Serve ==
    /\ loaded # 0 /\ ~serving /\ serving' = TRUE
    /\ UNCHANGED <<etcdVars, valid, noticed, hup, source, waitIndex, updates, loop, loaded, election, failures>>

SourceStep ==
    TakeSignal \/ ReadFile \/ Connect \/ Get \/ OpenWatch \/ SeeContent \/ Push \/ WakeUp

SourceNext == Write \/ Hangup \/ WatcherFails \/ SourceStep \/ Call \/ Receive \/ Serve

\* The goroutine, the loop and main() run on; nobody has to write or to send
\* signals.
SourceSpec ==
    /\ SourceInit /\ [][SourceNext]_sourceVars
    /\ WF_sourceVars(SourceStep) /\ WF_sourceVars(Call \/ Receive) /\ WF_sourceVars(Serve)

-----------------------------------------------------------------------------
(* The newest content that is valid is served in the end, whatever was      *)
(* written, signalled or failed before -- if the source noticed it: the     *)
(* file was read after a SIGHUP, or the key was written before it was read  *)
(* or while it is watched.                                                  *)
NewestIsServed ==
    <>[](noticed /\ valid[Written])
        => <>[](serving /\ loaded = Written /\ election # "none")

(* A configuration is never replaced by an older one, and never by one that *)
(* could not be used.                                                       *)
ConfigNeverGoesBack == [][loaded' # loaded => loaded' > loaded /\ valid[loaded']]_sourceVars

=============================================================================
