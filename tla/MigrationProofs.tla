-------------------------- MODULE MigrationProofs ---------------------------
(* A root that MigrateStateTree returns is that of the whole migrated tree, *)
(* for any tree, any number of workers and any size of the queues.          *)
EXTENDS Migration, TLAPS

Old(a) == Entry(a, actorsIn[a])
New(a) == Entry(a, Migrated(actorsIn[a]))
Olds == {Old(a) : a \in DOMAIN actorsIn}
News == {New(a) : a \in DOMAIN actorsIn}

PCs ==
    /\ cfg \in Configs
    /\ main \in {"start", "waiting", "ok", "error"}
    /\ creator \in {"visit", "send", "done", "failed"}
    /\ worker \in [Workers -> {"receive", "run", "send", "done", "failed"}]
    /\ DOMAIN job = Workers
    /\ writer \in {"receive", "done", "failed"}
    /\ main = "waiting" => cfg.workers # {}

(* Who has ended, ended because there was nothing left for it to take.      *)
EndedInOrder ==
    /\ creator = "done" => rest = {}
    /\ jobClosed => creator \in Ended
    /\ \A w \in cfg.workers : worker[w] = "done" => jobCh = {} /\ jobClosed
    /\ resultClosed => \A w \in cfg.workers : worker[w] \in Ended
    /\ closer = "done" => resultClosed
    /\ writer = "done" => resultCh = {} /\ resultClosed

(* Whatever is under way is the record of some actor, migrated or not.      *)
Cargo ==
    /\ creator = "send" => actorIn \in Olds
    /\ jobCh \subseteq Olds
    /\ \A w \in cfg.workers : worker[w] = "run" => job[w] \in Olds
    /\ \A w \in cfg.workers : worker[w] = "send" => job[w] \in News
    /\ resultCh \subseteq News
    /\ actorsOut \subseteq News

AllWell ==
    /\ "failed" \notin {creator, writer}
    /\ \A w \in cfg.workers : worker[w] # "failed"

(* As long as nobody has failed, no actor is lost on its way.               *)
Held(a) ==
    \E w \in cfg.workers : \/ worker[w] = "run" /\ job[w] = Old(a)
                           \/ worker[w] = "send" /\ job[w] = New(a)
OnItsWay(a) ==
    \/ a \in rest
    \/ creator = "send" /\ actorIn = Old(a)
    \/ Old(a) \in jobCh
    \/ Held(a)
    \/ New(a) \in resultCh
    \/ New(a) \in actorsOut
NoneLost == AllWell => \A a \in DOMAIN actorsIn : OnItsWay(a)

IInv ==
    /\ actorsIn \in Trees
    /\ rest \subseteq DOMAIN actorsIn
    /\ PCs
    /\ EndedInOrder
    /\ Cargo
    /\ NoneLost
    /\ panicked = FALSE
    /\ TreeMigrated

-----------------------------------------------------------------------------
(* The address and the actor of a record are what Entry was given.          *)
LEMMA EntryFields == \A a, x : Entry(a, x).Address = a /\ Entry(a, x).Actor = x
BY DEF Entry

(* Before MigrateStateTree starts, every actor is still to be visited.      *)
LEMMA InitInv == Init => IInv
<1> SUFFICES ASSUME Init PROVE IInv
  OBVIOUS
<1>1. PCs
  BY DEF Init, PCs
<1>2. EndedInOrder /\ Cargo
  BY ConfigAssumption DEF Init, EndedInOrder, Cargo, Ended
<1>3. NoneLost
  BY DEF Init, NoneLost, OnItsWay
<1> QED
  BY <1>1, <1>2, <1>3 DEF Init, IInv, TreeMigrated

(* The parameters stay, so the records to expect do.                        *)
LEMMA SameRecords ==
    ASSUME UNCHANGED params
    PROVE  /\ cfg' = cfg /\ actorsIn' = actorsIn
           /\ \A a : Old(a)' = Old(a) /\ New(a)' = New(a)
           /\ Olds' = Olds /\ News' = News
BY DEF params, Old, New, Olds, News, Entry

(* No step of a goroutine loses an actor or ends out of order.              *)
LEMMA StepInv == IInv /\ [Next]_vars => IInv'
<1> SUFFICES ASSUME IInv, [Next]_vars PROVE IInv'
  OBVIOUS
<1> USE DEF IInv
<1>w. cfg.workers \subseteq Workers
  BY ConfigAssumption DEF PCs
<1>p. UNCHANGED params
  BY DEF Next, vars, params, Start, Cancel, CreatorStep, Visit, SendJob, CreatorEnds, WorkerStep,
         ReceiveJob, RunJob, SendResult, WorkerEnds, CloseResults, WriterStep, WriteResult, WriterEnds,
         Return
<1>s. /\ cfg' = cfg /\ actorsIn' = actorsIn
      /\ \A a : Old(a)' = Old(a) /\ New(a)' = New(a)
      /\ Olds' = Olds /\ News' = News
  BY <1>p, SameRecords
<1>1. CASE Start
  <2>1. PCs' /\ EndedInOrder' /\ Cargo'
    BY <1>1, <1>s DEF Start, PCs, EndedInOrder, Cargo, creatorVars, workerVars, writerVars, params
  <2>2. NoneLost' /\ TreeMigrated'
    BY <1>1, <1>s DEF Start, NoneLost, AllWell, OnItsWay, Held, TreeMigrated, creatorVars, workerVars,
                      writerVars, params
  <2> QED BY <1>1, <1>s, <2>1, <2>2 DEF Start, creatorVars
<1>2. CASE Cancel
  <2>1. PCs' /\ EndedInOrder' /\ Cargo'
    BY <1>2, <1>s DEF Cancel, PCs, EndedInOrder, Cargo, creatorVars, workerVars, writerVars, params
  <2>2. NoneLost' /\ TreeMigrated'
    BY <1>2, <1>s DEF Cancel, NoneLost, AllWell, OnItsWay, Held, TreeMigrated, creatorVars, workerVars,
                      writerVars, params
  <2> QED BY <1>2, <1>s, <2>1, <2>2 DEF Cancel, creatorVars
<1>3. ASSUME NEW a \in rest, Visit(a) PROVE IInv'
  <2>0. a \in DOMAIN actorsIn /\ main = "waiting" /\ creator = "visit"
    BY <1>3 DEF Visit, Running
  <2>1. CASE HasMigration(actorsIn[a])
    <3>1. /\ creator' = "send" /\ actorIn' = Old(a) /\ rest' = rest \ {a}
          /\ UNCHANGED <<main, jobClosed, jobCh, worker, job, closer, resultCh, resultClosed, writer,
                         actorsOut, panicked>>
      BY <1>3, <2>1 DEF Visit, Old, workerVars, writerVars
    <3>2. PCs' /\ EndedInOrder' /\ Cargo'
      BY <1>s, <2>0, <3>1 DEF PCs, EndedInOrder, Cargo, Ended, Olds
    <3>3. NoneLost'
      BY <1>s, <2>0, <3>1 DEF NoneLost, AllWell, OnItsWay, Held
    <3> QED BY <1>s, <2>0, <3>1, <3>2, <3>3 DEF TreeMigrated
  <2>2. CASE ~HasMigration(actorsIn[a])
    <3>1. /\ creator' = "failed" /\ jobClosed' = TRUE /\ rest' = rest \ {a}
          /\ UNCHANGED <<main, jobCh, worker, job, closer, resultCh, resultClosed, writer,
                         actorsOut, panicked>>
      BY <1>3, <2>2 DEF Visit, CreatorReturns, workerVars, writerVars
    <3>2. PCs' /\ EndedInOrder' /\ Cargo'
      BY <1>s, <2>0, <3>1 DEF PCs, EndedInOrder, Cargo, Ended
    <3>3. NoneLost'
      BY <3>1 DEF NoneLost, AllWell
    <3> QED BY <1>s, <2>0, <3>1, <3>2, <3>3 DEF TreeMigrated
  <2> QED BY <2>1, <2>2
<1>4. CASE SendJob
  <2>1. /\ main = "waiting" /\ creator = "send" /\ creator' = "visit" /\ jobCh' = jobCh \cup {actorIn}
        /\ UNCHANGED <<main, rest, actorIn, jobClosed, worker, job, closer, resultCh, resultClosed,
                       writer, actorsOut, panicked>>
    BY <1>4 DEF SendJob, Running, workerVars, writerVars
  <2>2. PCs' /\ Cargo'
    BY <1>s, <2>1 DEF PCs, Cargo
  <2>3. EndedInOrder'
    BY <1>s, <2>1 DEF EndedInOrder, Ended
  <2>4. NoneLost'
    BY <1>s, <2>1 DEF NoneLost, AllWell, OnItsWay, Held
  <2> QED BY <1>s, <2>1, <2>2, <2>3, <2>4 DEF TreeMigrated
<1>5. CASE CreatorEnds
  <2>1. /\ main = "waiting" /\ jobClosed' = TRUE
        /\ \/ creator = "visit" /\ creator' = "done" /\ rest = {}
           \/ creator' = "failed"
        /\ UNCHANGED <<main, rest, actorIn, jobCh, worker, job, closer, resultCh, resultClosed,
                       writer, actorsOut, panicked>>
    BY <1>5 DEF CreatorEnds, CreatorReturns, Running, workerVars, writerVars
  <2>2. PCs' /\ Cargo' /\ EndedInOrder'
    BY <1>s, <2>1 DEF PCs, Cargo, EndedInOrder, Ended
  <2>3. NoneLost'
    BY <1>s, <2>1 DEF NoneLost, AllWell, OnItsWay, Held
  <2> QED BY <1>s, <2>1, <2>2, <2>3 DEF TreeMigrated
<1>6. ASSUME NEW w \in cfg.workers, NEW j \in jobCh, ReceiveJob(w, j) PROVE IInv'
  <2>1. /\ main = "waiting" /\ worker[w] = "receive" /\ jobCh' = jobCh \ {j}
        /\ job' = [job EXCEPT ![w] = j] /\ worker' = [worker EXCEPT ![w] = "run"]
        /\ UNCHANGED <<main, creator, rest, actorIn, jobClosed, closer, resultCh, resultClosed,
                       writer, actorsOut, panicked>>
    BY <1>6 DEF ReceiveJob, Running, creatorVars, writerVars
  <2>2. /\ worker'[w] = "run" /\ job'[w] = j
        /\ \A x \in cfg.workers \ {w} : worker'[x] = worker[x] /\ job'[x] = job[x]
    BY <1>w, <2>1 DEF PCs
  <2>3. PCs' /\ Cargo'
    BY <1>s, <1>w, <2>1, <2>2 DEF PCs, Cargo
  <2>4. EndedInOrder'
    BY <1>s, <2>1, <2>2 DEF EndedInOrder, Ended
  <2>5. NoneLost'
    <3> SUFFICES ASSUME AllWell', NEW a \in DOMAIN actorsIn PROVE OnItsWay(a)'
      BY <1>s DEF NoneLost
    <3>1. AllWell
      BY <1>s, <2>1, <2>2 DEF AllWell
    <3>2. CASE Old(a) = j
      BY <1>s, <2>2, <3>2 DEF OnItsWay, Held
    <3>3. CASE Held(a)
      BY <1>s, <2>1, <2>2, <3>3 DEF OnItsWay, Held
    <3> QED BY <1>s, <2>1, <3>1, <3>2, <3>3 DEF NoneLost, OnItsWay
  <2> QED BY <1>s, <2>1, <2>3, <2>4, <2>5 DEF TreeMigrated
<1>7. ASSUME NEW w \in cfg.workers, RunJob(w) PROVE IInv'
  <2>1. /\ main = "waiting" /\ worker[w] = "run"
        /\ job' = [job EXCEPT ![w] = run(job[w])] /\ worker' = [worker EXCEPT ![w] = "send"]
        /\ UNCHANGED <<main, creator, rest, actorIn, jobCh, jobClosed, closer, resultCh, resultClosed,
                       writer, actorsOut, panicked>>
    BY <1>7 DEF RunJob, Running, creatorVars, writerVars
  <2>2. PICK a \in DOMAIN actorsIn : job[w] = Old(a)
    BY <2>1 DEF Cargo, Olds
  <2>3. run(job[w]) = New(a)
    BY <2>2, EntryFields DEF run, Old, New
  <2>4. /\ worker'[w] = "send" /\ job'[w] = New(a)
        /\ \A x \in cfg.workers \ {w} : worker'[x] = worker[x] /\ job'[x] = job[x]
    BY <1>w, <2>1, <2>3 DEF PCs
  <2>5. PCs' /\ Cargo'
    BY <1>s, <1>w, <2>1, <2>4 DEF PCs, Cargo, News
  <2>6. EndedInOrder'
    BY <1>s, <2>1, <2>4 DEF EndedInOrder, Ended
  <2>7. NoneLost'
    <3> SUFFICES ASSUME AllWell', NEW b \in DOMAIN actorsIn PROVE OnItsWay(b)'
      BY <1>s DEF NoneLost
    <3>1. AllWell
      BY <1>s, <2>1, <2>4 DEF AllWell
    <3>2. CASE b = a
      BY <1>s, <2>4, <3>2 DEF OnItsWay, Held
    <3>3. CASE b # a /\ Held(b)
      <4>1. Old(a) # Old(b)
        BY <3>3, EntryFields DEF Old
      <4> QED BY <1>s, <2>1, <2>2, <2>4, <3>3, <4>1 DEF OnItsWay, Held
    <3> QED BY <1>s, <2>1, <3>1, <3>2, <3>3 DEF NoneLost, OnItsWay
  <2> QED BY <1>s, <2>1, <2>5, <2>6, <2>7 DEF TreeMigrated
<1>8. ASSUME NEW w \in cfg.workers, SendResult(w) PROVE IInv'
  <2>1. /\ main = "waiting" /\ worker[w] = "send" /\ worker' = [worker EXCEPT ![w] = "receive"]
        /\ resultCh' = resultCh \cup {job[w]} /\ panicked' = (panicked \/ resultClosed)
        /\ UNCHANGED <<main, creator, rest, actorIn, jobCh, jobClosed, job, closer, resultClosed,
                       writer, actorsOut>>
    BY <1>8 DEF SendResult, Running, creatorVars, writerVars
  <2>2. /\ worker'[w] = "receive"
        /\ \A x \in cfg.workers \ {w} : worker'[x] = worker[x]
    BY <1>w, <2>1 DEF PCs
  <2>3. ~resultClosed
    BY <2>1 DEF EndedInOrder, Ended
  <2>4. PCs' /\ Cargo'
    BY <1>s, <1>w, <2>1, <2>2 DEF PCs, Cargo
  <2>5. EndedInOrder'
    BY <1>s, <2>1, <2>2, <2>3 DEF EndedInOrder, Ended
  <2>6. NoneLost'
    <3> SUFFICES ASSUME AllWell', NEW a \in DOMAIN actorsIn PROVE OnItsWay(a)'
      BY <1>s DEF NoneLost
    <3>1. AllWell
      BY <1>s, <2>1, <2>2 DEF AllWell
    <3>2. CASE Held(a)
      BY <1>s, <2>1, <2>2, <3>2 DEF OnItsWay, Held
    <3> QED BY <1>s, <2>1, <3>1, <3>2 DEF NoneLost, OnItsWay
  <2> QED BY <1>s, <2>1, <2>3, <2>4, <2>5, <2>6 DEF TreeMigrated
<1>9. ASSUME NEW w \in cfg.workers, WorkerEnds(w) PROVE IInv'
  <2>1. /\ main = "waiting"
        /\ \/ /\ worker' = [worker EXCEPT ![w] = "done"]
              /\ worker[w] = "receive" /\ jobCh = {} /\ jobClosed
           \/ worker' = [worker EXCEPT ![w] = "failed"]
        /\ UNCHANGED <<main, creator, rest, actorIn, jobCh, jobClosed, job, closer, resultCh, resultClosed,
                       writer, actorsOut, panicked>>
    BY <1>9 DEF WorkerEnds, WorkerReturns, Running, creatorVars, writerVars
  <2>2. /\ \/ worker'[w] = "done" /\ worker[w] = "receive" /\ jobCh = {} /\ jobClosed
           \/ worker'[w] = "failed"
        /\ \A x \in cfg.workers \ {w} : worker'[x] = worker[x]
    BY <1>w, <2>1 DEF PCs
  <2>3. PCs' /\ Cargo'
    BY <1>s, <1>w, <2>1, <2>2 DEF PCs, Cargo
  <2>4. EndedInOrder'
    BY <1>s, <2>1, <2>2 DEF EndedInOrder, Ended
  <2>5. NoneLost'
    <3> SUFFICES ASSUME AllWell', NEW a \in DOMAIN actorsIn PROVE OnItsWay(a)'
      BY <1>s DEF NoneLost
    <3>1. AllWell /\ worker'[w] = "done"
      BY <1>s, <2>1, <2>2 DEF AllWell
    <3>2. CASE Held(a)
      BY <1>s, <2>1, <2>2, <3>1, <3>2 DEF OnItsWay, Held
    <3> QED BY <1>s, <2>1, <3>1, <3>2 DEF NoneLost, OnItsWay
  <2> QED BY <1>s, <2>1, <2>3, <2>4, <2>5 DEF TreeMigrated
<1>10. CASE CloseResults
  <2>1. /\ \A w \in cfg.workers : worker[w] \in Ended
        /\ closer' = "done" /\ resultClosed' = TRUE
        /\ UNCHANGED <<main, creator, rest, actorIn, jobCh, jobClosed, worker, job, resultCh, writer,
                       actorsOut, panicked>>
    BY <1>10 DEF CloseResults, creatorVars, workerVars, writerVars
  <2>2. PCs' /\ Cargo' /\ EndedInOrder'
    BY <1>s, <2>1 DEF PCs, Cargo, EndedInOrder
  <2>3. NoneLost'
    BY <1>s, <2>1 DEF NoneLost, AllWell, OnItsWay, Held
  <2> QED BY <1>s, <2>1, <2>2, <2>3 DEF TreeMigrated
<1>11. ASSUME NEW r \in resultCh, WriteResult(r) PROVE IInv'
  <2>1. /\ main = "waiting" /\ writer = "receive" /\ resultCh' = resultCh \ {r}
        /\ \/ writer' = "failed" /\ actorsOut' = actorsOut
           \/ writer' = writer /\ actorsOut' = {x \in actorsOut : x.Address # r.Address} \cup {r}
        /\ UNCHANGED <<main, creator, rest, actorIn, jobCh, jobClosed, worker, job, closer, resultClosed,
                       panicked>>
    BY <1>11 DEF WriteResult, Running, creatorVars, workerVars
  <2>2. PCs' /\ Cargo' /\ EndedInOrder'
    BY <1>s, <2>1 DEF PCs, Cargo, EndedInOrder
  <2>3. NoneLost'
    <3> SUFFICES ASSUME AllWell', NEW a \in DOMAIN actorsIn PROVE OnItsWay(a)'
      BY <1>s DEF NoneLost
    <3>1. AllWell /\ actorsOut' = {x \in actorsOut : x.Address # r.Address} \cup {r}
      BY <1>s, <2>1 DEF AllWell
    <3>2. PICK b \in DOMAIN actorsIn : r = New(b)
      BY DEF Cargo, News
    <3>3. New(a) \in resultCh \cup actorsOut => New(a) \in resultCh' \cup actorsOut'
      <4>1. CASE a = b
        BY <3>1, <3>2, <4>1
      <4>2. CASE a # b
        BY <2>1, <3>1, <3>2, <4>2, EntryFields DEF New
      <4> QED BY <4>1, <4>2
    <3> QED BY <1>s, <2>1, <3>1, <3>3 DEF NoneLost, OnItsWay, Held
  <2> QED BY <1>s, <2>1, <2>2, <2>3 DEF TreeMigrated
<1>12. CASE WriterEnds
  <2>1. /\ resultCh = {} /\ resultClosed /\ writer = "receive" /\ writer' = "done"
        /\ UNCHANGED <<main, creator, rest, actorIn, jobCh, jobClosed, worker, job, closer, resultCh,
                       resultClosed, actorsOut, panicked>>
    BY <1>12 DEF WriterEnds, creatorVars, workerVars
  <2>2. PCs' /\ Cargo' /\ EndedInOrder'
    BY <1>s, <2>1 DEF PCs, Cargo, EndedInOrder
  <2>3. NoneLost'
    BY <1>s, <2>1 DEF NoneLost, AllWell, OnItsWay, Held
  <2> QED BY <1>s, <2>1, <2>2, <2>3 DEF TreeMigrated
<1>13. CASE Return
  <2>1. /\ main = "waiting" /\ closer = "done" /\ creator \in Ended /\ writer \in Ended
        /\ \A w \in cfg.workers : worker[w] \in Ended
        /\ main' \in {"ok", "error"}
        /\ main' = "ok" => AllWell
        /\ UNCHANGED <<creator, rest, actorIn, jobCh, jobClosed, worker, job, closer, resultCh,
                       resultClosed, writer, actorsOut, panicked>>
    BY <1>13 DEF Return, Running, AllWell, Ended, creatorVars, workerVars, writerVars
  <2>2. PCs' /\ Cargo' /\ EndedInOrder'
    BY <1>s, <2>1 DEF PCs, Cargo, EndedInOrder
  <2>3. NoneLost'
    BY <1>s, <2>1 DEF NoneLost, AllWell, OnItsWay, Held
  <2>4. ASSUME main' = "ok" PROVE actorsOut = News
    <3>1. AllWell /\ creator = "done" /\ writer = "done" /\ \A w \in cfg.workers : worker[w] = "done"
      BY <2>1, <2>4 DEF AllWell, Ended
    <3>2. rest = {} /\ jobCh = {} /\ resultCh = {}
      BY <2>1, <3>1 DEF EndedInOrder, PCs
    <3>3. \A a \in DOMAIN actorsIn : New(a) \in actorsOut
      BY <3>1, <3>2 DEF NoneLost, OnItsWay, Held
    <3> QED BY <3>3 DEF Cargo, News
  <2>5. TreeMigrated'
    BY <1>s, <2>1, <2>4 DEF TreeMigrated, News, New
  <2> QED BY <1>s, <2>1, <2>2, <2>3, <2>5
<1>14. CASE UNCHANGED vars
  <2>1. PCs' /\ Cargo' /\ EndedInOrder' /\ TreeMigrated'
    BY <1>14, <1>s DEF vars, PCs, Cargo, EndedInOrder, TreeMigrated
  <2>2. NoneLost'
    BY <1>14, <1>s DEF vars, NoneLost, AllWell, OnItsWay, Held
  <2> QED BY <1>14, <2>1, <2>2 DEF vars
<1> QED
  BY <1>1, <1>2, <1>3, <1>4, <1>5, <1>6, <1>7, <1>8, <1>9, <1>10, <1>11, <1>12, <1>13, <1>14
  DEF Next, CreatorStep, WorkerStep, WriterStep

(* The inductive invariant holds in every run of MigrateStateTree.          *)
LEMMA Invariance == Spec => []IInv
BY InitInv, StepInv, PTL DEF Spec

(* A root is returned only for the whole tree, for any number of workers    *)
(* and any size of the queues of MigrateStateTree.                          *)
THEOREM WholeTree == Spec => []TreeMigrated
<1>1. IInv => TreeMigrated
  BY DEF IInv
<1> QED
  BY <1>1, Invariance, PTL

(* No worker sends on the closed channel of results.                        *)
THEOREM NoSendAfterClose == Spec => []NeverPanics
<1>1. IInv => NeverPanics
  BY DEF IInv, NeverPanics
<1> QED
  BY <1>1, Invariance, PTL

-----------------------------------------------------------------------------
(* A market as the tree holds it; labels that the new code can decode;      *)
(* pending proposals that are those of the pending deals.                   *)
MarketShape(s) ==
    /\ DOMAIN s = {"Proposals", "States", "PendingProposals"}
    /\ \A d \in DOMAIN s.Proposals : DOMAIN s.Proposals[d] = {"Label", "Encoding"}
Decodable(s) ==
    \A d \in DOMAIN s.Proposals : s.Proposals[d].Encoding = "bytes" \/ s.Proposals[d].Label \in ValidLabels
PendingExact(s) ==
    s.PendingProposals = {s.Proposals[d] : d \in {e \in DOMAIN s.Proposals : InPending(s, e)}}

(* What UpdateProposals and UpdatePendingProposals make of a market whose   *)
(* pending proposals are those of its pending deals.                        *)
LEMMA MarketInStep ==
    \A s : MarketShape(s) /\ PendingExact(s) =>
              Decodable(marketMigrateState(s)) /\ PendingExact(marketMigrateState(s))
<1> SUFFICES ASSUME NEW s, MarketShape(s), PendingExact(s),
                    NEW t, t = marketMigrateState(s)
             PROVE  Decodable(t) /\ PendingExact(t)
  OBVIOUS
<1>1. /\ t.Proposals = UpdateProposals(s) /\ t.States = s.States
      /\ t.PendingProposals = UpdatePendingProposals(s)
  BY DEF marketMigrateState, MarketShape
<1>2. /\ DOMAIN t.Proposals = DOMAIN s.Proposals
      /\ \A d \in DOMAIN s.Proposals :
            t.Proposals[d] = IF NeedsUpdate(s.Proposals[d]) THEN NewLabelFromBytes(s.Proposals[d])
                             ELSE s.Proposals[d]
  BY <1>1 DEF UpdateProposals
<1>3. \A d \in DOMAIN s.Proposals :
         NeedsUpdate(s.Proposals[d]) => t.Proposals[d].Encoding = "bytes"
  BY <1>2 DEF NewLabelFromBytes, MarketShape
<1>4. Decodable(t)
  BY <1>2, <1>3 DEF NeedsUpdate, Decodable
<1>5. \A d : InPending(t, d) = InPending(s, d)
  BY <1>1 DEF InPending
<1>6. PendingExact(t)
  BY <1>1, <1>2, <1>5 DEF UpdatePendingProposals, PendingExact
<1> QED
  BY <1>4, <1>6

(* The pending proposals of the migrated market follow their new CIDs,      *)
(* whatever its deals and labels.                                           *)
THEOREM PendingInStep == Spec => []PendingFollows
<1>1. IInv => PendingFollows
  <2> SUFFICES ASSUME IInv, NEW r \in actorsOut, r.Actor.Code.name = "storagemarket"
               PROVE  Decodable(r.Actor.Head) /\ PendingExact(r.Actor.Head)
    BY DEF PendingFollows, InPending, Decodable, PendingExact
  <2>1. PICK a \in DOMAIN actorsIn : r = New(a)
    BY DEF IInv, Cargo, News
  <2>2. r.Actor = Migrated(actorsIn[a])
    BY <2>1, EntryFields DEF New
  <2>3. /\ DOMAIN actorsIn[a] = {"Code", "Head", "CallSeqNum", "Balance"}
        /\ DOMAIN actorsIn[a].Code = {"name", "version"}
    BY TreesAssumption DEF IInv
  <2>4. /\ r.Actor.Code.name = actorsIn[a].Code.name
        /\ r.Actor.Head = migrateState(actorsIn[a].Code.name, actorsIn[a].Head)
    BY <2>2, <2>3 DEF Migrated
  <2>5. r.Actor.Head = marketMigrateState(actorsIn[a].Head)
    BY <2>4 DEF migrateState
  <2>6. MarketShape(actorsIn[a].Head) /\ PendingExact(actorsIn[a].Head)
    BY <2>4, TreesAssumption DEF IInv, InPending, MarketShape, PendingExact
  <2> QED
    BY <2>5, <2>6, MarketInStep
<1> QED
  BY <1>1, Invariance, PTL
=============================================================================
