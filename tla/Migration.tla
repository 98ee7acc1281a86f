----------------------------- MODULE Migration ------------------------------
(* The state tree migration of network version 16 (migration/nv16): a       *)
(* creator walks the old tree and queues a job per actor, workers migrate   *)
(* them, a writer puts the results into the new tree, all in one errgroup   *)
(* whose context is cancelled by the first error.                           *)
EXTENDS Integers, FiniteSets

CONSTANTS
    Workers,      \* bound: the goroutines that may be started
    Configs,      \* bound: [workers, JobQueueSize, ResultQueueSize]
    Trees,        \* bound: the trees to migrate, functions from addresses to actors
    Names,        \* of the built-in actors, "system" and "storagemarket" among them
    Manifests,    \* bound: the sets of names the new manifest may have
    ManifestData, \* the head of the migrated system actor
    ValidLabels,  \* the labels that are valid UTF-8
    EpochUndefined

ASSUME ConfigAssumption ==
    Configs \subseteq [workers : SUBSET Workers, JobQueueSize : Nat, ResultQueueSize : Nat]

(* The condition for inclusion in PendingProposals, of deal d of a market   *)
MutantPendingIfNoState(s, d) == d \notin DOMAIN s.States
InPending(s, d) == d \notin DOMAIN s.States \/ s.States[d] = EpochUndefined

(* The actors of the old tree; its market is as the old code left it, with  *)
(* its pending proposals in step with its deals.                            *)
ASSUME TreesAssumption ==
    \A t \in Trees : \A a \in DOMAIN t :
        /\ DOMAIN t[a] = {"Code", "Head", "CallSeqNum", "Balance"}
        /\ DOMAIN t[a].Code = {"name", "version"}
        /\ t[a].Code.name = "storagemarket" =>
              /\ DOMAIN t[a].Head = {"Proposals", "States", "PendingProposals"}
              /\ \A d \in DOMAIN t[a].Head.Proposals :
                    DOMAIN t[a].Head.Proposals[d] = {"Label", "Encoding"}
              /\ t[a].Head.PendingProposals =
                    {t[a].Head.Proposals[d] : d \in {e \in DOMAIN t[a].Head.Proposals :
                                                       \/ e \notin DOMAIN t[a].Head.States
                                                       \/ t[a].Head.States[e] = EpochUndefined}}

VARIABLES
    cfg, actorsIn, manifest,  \* the parameters
    main,          \* of MigrateStateTree: "start", "waiting", "ok", "error"
    ctxDone,       \* the context of the errgroup is done
    creator,       \* "visit", "send", "done", "failed"
    rest,          \* addresses that ForEach has not visited
    actorIn,       \* the record that ForEach decodes every actor into
    jobCh, jobClosed,
    worker, job,   \* of each worker: "receive", "run", "send", "done", "failed"
    closer,
    resultCh, resultClosed,
    writer,        \* "receive", "done", "failed"
    actorsOut,     \* the new tree: a set of entries, one per address
    panicked       \* history: a send on a closed channel

vars == <<cfg, actorsIn, manifest, main, ctxDone, creator, rest, actorIn, jobCh, jobClosed, worker,
          job, closer, resultCh, resultClosed, writer, actorsOut, panicked>>
creatorVars == <<creator, rest, actorIn, jobClosed>>
workerVars == <<worker, job>>
writerVars == <<writer, actorsOut>>
params == <<cfg, actorsIn, manifest>>

-----------------------------------------------------------------------------
(* Migrators.  The head of a market is its state; a CID stands for what it  *)
(* hashes, so a proposal is its own.  A label that is not valid UTF-8 was   *)
(* encoded as a string all the same, which the new code cannot decode.      *)
Entry(address, actor) == [Address |-> address, Actor |-> actor]

NeedsUpdate(p) == p.Label \notin ValidLabels
NewLabelFromBytes(p) == [p EXCEPT !.Encoding = "bytes"]

UpdateProposals(s) ==
    [d \in DOMAIN s.Proposals |-> IF NeedsUpdate(s.Proposals[d]) THEN NewLabelFromBytes(s.Proposals[d])
                                  ELSE s.Proposals[d]]

(* UpdatePendingProposals: one swap per changed proposal that is pending    *)
UpdatePendingProposals(s) ==
    LET changed == {d \in DOMAIN s.Proposals : NeedsUpdate(s.Proposals[d]) /\ InPending(s, d)}
    IN  (s.PendingProposals \ {s.Proposals[d] : d \in changed})
            \cup {NewLabelFromBytes(s.Proposals[d]) : d \in changed}

marketMigrateState(s) ==
    [s EXCEPT !.Proposals = UpdateProposals(s), !.PendingProposals = UpdatePendingProposals(s)]

(* migrateState of the actor's migrator: codes are pairs of a name and a    *)
(* version                                                                  *)
migrateState(name, head) ==
    CASE name = "system" -> ManifestData
      [] name = "storagemarket" -> marketMigrateState(head)
      [] OTHER -> head

HasMigration(actor) == actor.Code.version = 7 /\ actor.Code.name \in Names

(* migrationJob.run on the actor it holds *)
Migrated(actor) ==
    [actor EXCEPT !.Code = [name |-> actor.Code.name, version |-> 8],
                  !.Head = migrateState(actor.Code.name, actor.Head)]
MutantSharedPointer(j) == Entry(j.Address, Migrated(actorIn.Actor))
run(j) == Entry(j.Address, Migrated(j.Actor))

-----------------------------------------------------------------------------
Init ==
    /\ cfg \in Configs
    /\ actorsIn \in Trees
    /\ manifest \in Manifests
    /\ main = "start"
    /\ ctxDone = FALSE
    /\ creator = "visit"
    /\ rest = DOMAIN actorsIn
    /\ actorIn = <<>>
    /\ jobCh = {} /\ jobClosed = FALSE
    /\ worker = [w \in Workers |-> "receive"]
    /\ job = [w \in Workers |-> <<>>]
    /\ closer = "wait"
    /\ resultCh = {} /\ resultClosed = FALSE
    /\ writer = "receive"
    /\ actorsOut = {}
    /\ panicked = FALSE

(* MigrateStateTree up to the start of the goroutines *)
Start ==
    /\ main = "start"
    /\ main' = IF cfg.workers # {} /\ Names \subseteq manifest THEN "waiting" ELSE "error"
    /\ UNCHANGED <<params, ctxDone, creatorVars, jobCh, workerVars, closer, resultCh, resultClosed,
                   writerVars, panicked>>

Running == main = "waiting"

(* The caller cancels its context.                                          *)
Cancel ==
    /\ Running
    /\ ctxDone' = TRUE
    /\ UNCHANGED <<params, main, creatorVars, jobCh, workerVars, closer, resultCh, resultClosed,
                   writerVars, panicked>>

(* A channel takes as many values as it buffers and receivers wait for.     *)
CanSend(ch, size, receivers) == Cardinality(ch) < size + Cardinality(receivers)

(* A goroutine of the errgroup returns; its error cancels the context.      *)
Returned(err) == ctxDone' = (ctxDone \/ err)

-----------------------------------------------------------------------------
(* The creator of jobs *)
CreatorReturns(pc) ==
    /\ creator' = pc
    /\ jobClosed' = TRUE
    /\ Returned(pc = "failed")

Visit(a) ==
    /\ Running /\ creator = "visit" /\ a \in rest
    /\ rest' = rest \ {a}
    /\ actorIn' = Entry(a, actorsIn[a])
    /\ IF HasMigration(actorsIn[a])
       THEN creator' = "send" /\ UNCHANGED <<ctxDone, jobClosed>>
       ELSE CreatorReturns("failed")
    /\ UNCHANGED <<params, main, jobCh, workerVars, closer, resultCh, resultClosed, writerVars, panicked>>

SendJob ==
    /\ Running /\ creator = "send"
    /\ CanSend(jobCh, cfg.JobQueueSize, {w \in cfg.workers : worker[w] = "receive"})
    /\ jobCh' = jobCh \cup {actorIn}
    /\ creator' = "visit"
    /\ UNCHANGED <<params, main, ctxDone, rest, actorIn, jobClosed, workerVars, closer, resultCh,
                   resultClosed, writerVars, panicked>>

(* All jobs are created, or ForEach failed to load a node, or the context   *)
(* was done while the queue was full.                                       *)
CreatorEnds ==
    /\ Running
    /\ \/ creator = "visit" /\ rest = {} /\ CreatorReturns("done")
       \/ creator = "visit" /\ rest # {} /\ CreatorReturns("failed")
       \/ creator = "send" /\ ctxDone /\ CreatorReturns("failed")
    /\ UNCHANGED <<params, main, rest, actorIn, jobCh, workerVars, closer, resultCh, resultClosed,
                   writerVars, panicked>>

-----------------------------------------------------------------------------
(* The workers *)
ReceiveJob(w, j) ==
    /\ Running /\ worker[w] = "receive" /\ j \in jobCh
    /\ jobCh' = jobCh \ {j}
    /\ job' = [job EXCEPT ![w] = j]
    /\ worker' = [worker EXCEPT ![w] = "run"]
    /\ UNCHANGED <<params, main, ctxDone, creatorVars, closer, resultCh, resultClosed, writerVars, panicked>>

RunJob(w) ==
    /\ Running /\ worker[w] = "run"
    /\ job' = [job EXCEPT ![w] = run(@)]
    /\ worker' = [worker EXCEPT ![w] = "send"]
    /\ UNCHANGED <<params, main, ctxDone, creatorVars, jobCh, closer, resultCh, resultClosed,
                   writerVars, panicked>>

SendResult(w) ==
    /\ Running /\ worker[w] = "send"
    /\ resultClosed \/ CanSend(resultCh, cfg.ResultQueueSize, {x \in {0} : writer = "receive"})
    /\ panicked' = (panicked \/ resultClosed)
    /\ resultCh' = resultCh \cup {job[w]}
    /\ worker' = [worker EXCEPT ![w] = "receive"]
    /\ UNCHANGED <<params, main, ctxDone, creatorVars, jobCh, job, closer, resultClosed, writerVars>>

(* A worker ends when there are no more jobs, when a migration fails, or    *)
(* when the context is done while the writer does not take its result.      *)
WorkerReturns(w, pc) ==
    /\ worker' = [worker EXCEPT ![w] = pc]
    /\ Returned(pc = "failed")
MutantSendsWithoutSelect(w) ==
    /\ \/ worker[w] = "receive" /\ jobCh = {} /\ jobClosed /\ WorkerReturns(w, "done")
       \/ worker[w] = "run" /\ WorkerReturns(w, "failed")
    /\ Running
    /\ UNCHANGED <<params, main, creatorVars, jobCh, job, closer, resultCh, resultClosed,
                   writerVars, panicked>>
WorkerEnds(w) ==
    /\ Running
    /\ \/ worker[w] = "receive" /\ jobCh = {} /\ jobClosed /\ WorkerReturns(w, "done")
       \/ worker[w] = "run" /\ WorkerReturns(w, "failed")
       \/ worker[w] = "send" /\ ctxDone /\ WorkerReturns(w, "failed")
    /\ UNCHANGED <<params, main, creatorVars, jobCh, job, closer, resultCh, resultClosed,
                   writerVars, panicked>>

-----------------------------------------------------------------------------
(* Closes the results when the workers' wait group is empty *)
Ended == {"done", "failed"}
MutantClosesAfterJobs ==
    /\ Running /\ closer = "wait"
    /\ creator \in Ended /\ jobCh = {}
    /\ closer' = "done"
    /\ resultClosed' = TRUE
    /\ UNCHANGED <<params, main, ctxDone, creatorVars, jobCh, workerVars, resultCh, writerVars, panicked>>
CloseResults ==
    /\ Running /\ closer = "wait"
    /\ \A w \in cfg.workers : worker[w] \in Ended
    /\ closer' = "done"
    /\ resultClosed' = TRUE
    /\ UNCHANGED <<params, main, ctxDone, creatorVars, jobCh, workerVars, resultCh, writerVars, panicked>>

(* The result writer, whose SetActor may fail to load or store a node *)
WriteResult(r) ==
    /\ Running /\ writer = "receive" /\ r \in resultCh
    /\ resultCh' = resultCh \ {r}
    /\ \/ /\ actorsOut' = {x \in actorsOut : x.Address # r.Address} \cup {r}
          /\ UNCHANGED <<writer, ctxDone>>
       \/ /\ writer' = "failed"
          /\ Returned(TRUE)
          /\ UNCHANGED actorsOut
    /\ UNCHANGED <<params, main, creatorVars, jobCh, workerVars, closer, resultClosed, panicked>>

WriterEnds ==
    /\ Running /\ writer = "receive" /\ resultCh = {} /\ resultClosed
    /\ writer' = "done"
    /\ UNCHANGED <<params, main, ctxDone, creatorVars, jobCh, workerVars, closer, resultCh, resultClosed,
                   actorsOut, panicked>>

(* grp.Wait and Flush, which may fail to store *)
Return ==
    /\ Running
    /\ {creator, writer} \cup {worker[w] : w \in cfg.workers} \subseteq Ended
    /\ closer = "done"
    /\ main' \in IF "failed" \in {creator, writer} \cup {worker[w] : w \in cfg.workers}
                 THEN {"error"} ELSE {"ok", "error"}
    /\ UNCHANGED <<params, ctxDone, creatorVars, jobCh, workerVars, closer, resultCh, resultClosed,
                   writerVars, panicked>>

-----------------------------------------------------------------------------
CreatorStep == (\E a \in rest : Visit(a)) \/ SendJob \/ CreatorEnds
WorkerStep(w) == (\E j \in jobCh : ReceiveJob(w, j)) \/ RunJob(w) \/ SendResult(w) \/ WorkerEnds(w)
WriterStep == (\E r \in resultCh : WriteResult(r)) \/ WriterEnds

Next ==
    \/ Start
    \/ Cancel
    \/ CreatorStep
    \/ \E w \in cfg.workers : WorkerStep(w)
    \/ CloseResults
    \/ WriterStep
    \/ Return

Spec == Init /\ [][Next]_vars

(* The scheduler runs every goroutine that can go on; nobody has to cancel. *)
FairSpec ==
    /\ Spec
    /\ WF_vars(Start) /\ WF_vars(CreatorStep) /\ WF_vars(CloseResults) /\ WF_vars(WriterStep)
    /\ WF_vars(Return)
    /\ \A w \in Workers : WF_vars(w \in cfg.workers /\ WorkerStep(w))

-----------------------------------------------------------------------------
(* A root is returned only for the whole tree: if MigrateStateTree succeeds *)
(* then the new tree has every actor of the old one, each migrated from its *)
(* own record, whatever the workers, the queues and the order of results,   *)
(* and whatever failed or was cancelled on the way.                         *)
TreeMigrated ==
    main = "ok" => actorsOut = {Entry(a, Migrated(actorsIn[a])) : a \in DOMAIN actorsIn}

(* In the migrated market every proposal can be decoded, and the pending    *)
(* proposals are exactly the CIDs of the deals that are still pending, so   *)
(* that a deal published before the upgrade can neither be published again  *)
(* nor fail to leave the pending set later.                                 *)
PendingFollows ==
    \A r \in actorsOut :
        r.Actor.Code.name = "storagemarket" =>
            /\ \A d \in DOMAIN r.Actor.Head.Proposals :
                  r.Actor.Head.Proposals[d].Encoding = "bytes"
                     \/ r.Actor.Head.Proposals[d].Label \in ValidLabels
            /\ r.Actor.Head.PendingProposals =
                  {r.Actor.Head.Proposals[d] :
                     d \in {e \in DOMAIN r.Actor.Head.Proposals :
                              \/ e \notin DOMAIN r.Actor.Head.States
                              \/ r.Actor.Head.States[e] = EpochUndefined}}

(* No worker sends on the channel of results after it was closed, not even  *)
(* when other goroutines have failed.                                       *)
NeverPanics == ~panicked

(* The migration always returns: no goroutine waits for ever for a peer     *)
(* that has failed.                                                         *)
Returns == <>(main \in {"ok", "error"})
=============================================================================
