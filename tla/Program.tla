------------------------------ MODULE Program -------------------------------
(***************************************************************************)
(* The goroutines of the process and how they come to an end (main.go,     *)
(* Engine.Run, Handler.Run, Connection.Deliveries): who waits for whom     *)
(* over which channel, context or wait group.                              *)
(*                                                                         *)
(* What the goroutines compute is in the other modules.  Here a call to    *)
(* the database or the broker takes any time, perhaps for ever, unless the *)
(* context it was given ends.                                              *)
(***************************************************************************)
EXTENDS Integers

CONSTANT Prefetch   \* most unacknowledged deliveries

ASSUME ProgramAssumption == Prefetch \in Nat \ {0}

VARIABLES
  main,      \* the main goroutine, which runs the engine
  panicked,  \* it is unwinding after a failed append
  done,      \* runCtx has ended: a signal, or cancel()
  closed,    \* how many of the WALs, the broker and the database are closed, in this order
  lost,      \* the broker closed the connection
  inbox,     \* deliveries the client library holds
  deliver,   \* the goroutine of Deliveries
  pending,   \* the channel snapshots, of capacity one, is full
  saver,     \* runSnapshotSaver
  fan,       \* fanOutSignals
  consumer,  \* DBProjector.Run and EventPublisher.Run
  handler    \* Handler.Run

pub == <<fan, consumer, handler>>
programVars == <<main, panicked, done, closed, lost, inbox, deliver, pending, saver, pub>>

Consumers == {"db", "mq"}

ProgramInit ==
  /\ main = "boot" /\ panicked = FALSE /\ done = FALSE /\ closed = 0
  /\ lost = FALSE /\ inbox = 0 /\ deliver = "off"
  /\ pending = FALSE /\ saver = "off"
  /\ fan = "select"
  /\ consumer = [w \in Consumers |-> "load"] /\ handler = "wait"

\* When main returns, every goroutine is gone.
Alive == main # "exited"

-----------------------------------------------------------------------------
(* The environment.                                                         *)

\* SIGINT or SIGTERM.
Signal ==
  /\ Alive /\ ~done
  /\ done' = TRUE
  /\ UNCHANGED <<main, panicked, closed, lost, inbox, deliver, pending, saver, pub>>

\* The broker sends, as Qos allows: what the engine has not acknowledged waits in the
\* library, is offered, or is being handled.  The mutant has no limit.
Unlimited == TRUE
Unacked == inbox + (IF deliver = "offer" THEN 1 ELSE 0) + (IF main = "handle" THEN 1 ELSE 0)
WithinPrefetch == Unacked < Prefetch

Send ==
  /\ Alive /\ ~lost /\ deliver # "off" /\ WithinPrefetch
  /\ inbox' = inbox + 1
  /\ UNCHANGED <<main, panicked, done, closed, lost, deliver, pending, saver, pub>>

Lose ==
  /\ Alive /\ ~lost
  /\ lost' = TRUE
  /\ UNCHANGED <<main, panicked, done, closed, inbox, deliver, pending, saver, pub>>

-----------------------------------------------------------------------------
(* The main goroutine: Engine.Run.                                          *)

\* Recovery and Consume, which succeed or fail; replay panics if it
\* cannot append to the Output WAL.  The snapshot saver is there before Consume.
Boot ==
  /\ main = "boot"
  /\ \/ main' = "ended" /\ panicked' \in BOOLEAN /\ UNCHANGED <<saver, deliver>>
     \/ /\ saver' = "select" /\ UNCHANGED panicked
        /\ \/ lost /\ main' = "ended" /\ UNCHANGED deliver
           \/ ~lost /\ main' = "select" /\ deliver' = "receive"
  /\ UNCHANGED <<done, closed, lost, inbox, pending, pub>>

\* Only the context ends a call that hangs.
BootCanceled ==
  /\ main = "boot" /\ done
  /\ main' = "ended"
  /\ UNCHANGED <<panicked, done, closed, lost, inbox, deliver, pending, saver, pub>>

\* The cases of the select: the context, a delivery, a closed channel, the ticker.
Stop ==
  /\ main = "select" /\ done
  /\ main' = "ended"
  /\ UNCHANGED <<panicked, done, closed, lost, inbox, deliver, pending, saver, pub>>

Take ==
  /\ main = "select" /\ deliver = "offer"
  /\ main' = "handle" /\ deliver' = "receive"
  /\ UNCHANGED <<panicked, done, closed, lost, inbox, pending, saver, pub>>

\* The channel is closed when the goroutine has ended.  The mutant leaves it open.
NeverClosed == FALSE
OutClosed == deliver = "ended"

Closed ==
  /\ main = "select" /\ OutClosed
  /\ main' = "ended"
  /\ UNCHANGED <<panicked, done, closed, lost, inbox, deliver, pending, saver, pub>>

Tick ==
  /\ main = "select"
  /\ main' = "snapshot"
  /\ UNCHANGED <<panicked, done, closed, lost, inbox, deliver, pending, saver, pub>>

\* handle: an acknowledgement that fails ends the engine, an append that fails panics.
\* notifyPublisher waits for nobody.
Handle ==
  /\ main = "handle"
  /\ \/ main' \in {"select", "ended"} /\ UNCHANGED panicked
     \/ main' = "ended" /\ panicked' = TRUE
  /\ UNCHANGED <<done, closed, lost, inbox, deliver, pending, saver, pub>>

\* snapshot: a full channel swallows the snapshot.  The mutant waits for room.
Room == ~pending
Default == TRUE

Snapshot ==
  /\ main = "snapshot" /\ Default
  /\ main' = "select" /\ pending' = TRUE
  /\ UNCHANGED <<panicked, done, closed, lost, inbox, deliver, saver, pub>>

-----------------------------------------------------------------------------
(* The main goroutine: the end of main.                                     *)

\* cancel(), after Run or by defer; a panic goes past wg.Wait.
Cancel ==
  /\ main = "ended"
  /\ done' = TRUE
  /\ main' = IF panicked THEN "close" ELSE "join"
  /\ UNCHANGED <<panicked, closed, lost, inbox, deliver, pending, saver, pub>>

\* wg.Wait of main.
Join ==
  /\ main = "join" /\ handler = "ended"
  /\ main' = "close"
  /\ UNCHANGED <<panicked, done, closed, lost, inbox, deliver, pending, saver, pub>>

\* The deferred calls, last first: engine.Close, mq.Close, db.Close.
Close ==
  /\ main = "close"
  /\ IF closed < 3 THEN closed' = closed + 1 /\ UNCHANGED main
                   ELSE main' = "exited" /\ UNCHANGED closed
  /\ UNCHANGED <<panicked, done, lost, inbox, deliver, pending, saver, pub>>

-----------------------------------------------------------------------------
(* The goroutine of Deliveries.                                             *)

\* A closed channel is empty before it reports that it is closed.
Receive ==
  /\ Alive /\ deliver = "receive"
  /\ \/ inbox > 0 /\ inbox' = inbox - 1 /\ deliver' = "offer"
     \/ inbox = 0 /\ lost /\ deliver' = "ended" /\ UNCHANGED inbox
  /\ UNCHANGED <<main, panicked, done, closed, lost, pending, saver, pub>>

DeliverStops ==
  /\ Alive /\ deliver \in {"receive", "offer"} /\ done
  /\ deliver' = "ended"
  /\ UNCHANGED <<main, panicked, done, closed, lost, inbox, pending, saver, pub>>

-----------------------------------------------------------------------------
(* runSnapshotSaver, for which nothing waits.                               *)

SaverTakes ==
  /\ Alive /\ saver = "select" /\ pending
  /\ pending' = FALSE /\ saver' = "save"
  /\ UNCHANGED <<main, panicked, done, closed, lost, inbox, deliver, pub>>

\* SaveSnapshotAndPrune and the two truncations; the loop goes on after any failure.
SaverSaves ==
  /\ Alive /\ saver = "save"
  /\ saver' = "select"
  /\ UNCHANGED <<main, panicked, done, closed, lost, inbox, deliver, pending, pub>>

SaverStops ==
  /\ Alive /\ saver = "select" /\ done
  /\ saver' = "ended"
  /\ UNCHANGED <<main, panicked, done, closed, lost, inbox, deliver, pending, pub>>

-----------------------------------------------------------------------------
(* The publisher.                                                           *)

Quiet == UNCHANGED <<main, panicked, done, closed, lost, inbox, deliver, pending, saver>>

\* The signals it passes on block nobody, and wake a consumer no sooner than its ticker may.
FanStops ==
  /\ Alive /\ fan = "select" /\ done
  /\ fan' = "ended"
  /\ UNCHANGED <<consumer, handler>> /\ Quiet

\* Run of a consumer: the cursor is loaded, or the consumer ends.
Load(w) ==
  /\ Alive /\ consumer[w] = "load"
  /\ consumer' \in {[consumer EXCEPT ![w] = pc] : pc \in {"drain", "ended"}}
  /\ UNCHANGED <<fan, handler>> /\ Quiet

\* drain: the next batch, or none.  Begin refuses a context that has ended; a message
\* is sent even then.
Drain(w) ==
  /\ Alive /\ consumer[w] = "drain"
  /\ \/ consumer' = [consumer EXCEPT ![w] = "select"]
     \/ (w = "db" => ~done) /\ consumer' = [consumer EXCEPT ![w] = "call"]
  /\ UNCHANGED <<fan, handler>> /\ Quiet

\* The transaction, or the confirmations, have come or failed.
Answer(w) ==
  /\ Alive /\ consumer[w] = "call"
  /\ \/ consumer' = [consumer EXCEPT ![w] = "select"]
     \/ w = "db" /\ consumer' = [consumer EXCEPT ![w] = "drain"]
     \/ w = "mq" /\ consumer' = [consumer EXCEPT ![w] = IF done THEN "select" ELSE "save"]
  /\ UNCHANGED <<fan, handler>> /\ Quiet

\* SaveMQPublishedCursor has succeeded or failed.
Saved ==
  /\ Alive /\ consumer["mq"] = "save"
  /\ consumer' \in {[consumer EXCEPT !["mq"] = pc] : pc \in {"drain", "select"}}
  /\ UNCHANGED <<fan, handler>> /\ Quiet

Interruptible(w) == {"load", "call", "save"}

Canceled(w) ==
  /\ Alive /\ done /\ consumer[w] \in Interruptible(w)
  /\ consumer' = [consumer EXCEPT ![w] = IF @ = "load" THEN "ended" ELSE "select"]
  /\ UNCHANGED <<fan, handler>> /\ Quiet

\* The cases of a consumer's select: a signal or the ticker, and the context.
Woken(w) ==
  /\ Alive /\ consumer[w] = "select"
  /\ consumer' = [consumer EXCEPT ![w] = "drain"]
  /\ UNCHANGED <<fan, handler>> /\ Quiet

ConsumerStops(w) ==
  /\ Alive /\ consumer[w] = "select" /\ done
  /\ consumer' = [consumer EXCEPT ![w] = "ended"]
  /\ UNCHANGED <<fan, handler>> /\ Quiet

\* Handler.Run: it waits for the context, then (wg.Wait) for its three goroutines.  The
\* mutant does not.
NoWait == done
AllEnded == done /\ fan = "ended" /\ \A w \in Consumers : consumer[w] = "ended"

HandlerEnds ==
  /\ Alive /\ handler = "wait" /\ AllEnded
  /\ handler' = "ended"
  /\ UNCHANGED <<fan, consumer>> /\ Quiet

Exited == ~Alive /\ UNCHANGED programVars

ProgramNext ==
  \/ Signal \/ Send \/ Lose
  \/ Boot \/ BootCanceled \/ Stop \/ Take \/ Closed \/ Tick \/ Handle \/ Snapshot
  \/ Cancel \/ Join \/ Close
  \/ Receive \/ DeliverStops
  \/ SaverTakes \/ SaverSaves \/ SaverStops
  \/ FanStops
  \/ \E w \in Consumers : Load(w) \/ Drain(w) \/ Answer(w) \/ Canceled(w)
                         \/ Woken(w) \/ ConsumerStops(w)
  \/ Saved \/ HandlerEnds
  \/ Exited

\* Goroutines run.  A select that comes round again and again does not pass over a case
\* that is ready for ever (Go chooses at random): strong fairness of those cases.
\* Nothing is assumed of the calls: Boot, Answer, Saved, SaverSaves, Load may never come.
MainRuns == BootCanceled \/ Handle \/ Snapshot \/ Cancel \/ Join \/ Close
PublisherEnds == FanStops \/ HandlerEnds

ProgramFairness ==
  /\ WF_programVars(MainRuns) /\ SF_programVars(Stop \/ Closed) /\ SF_programVars(Take)
  /\ WF_programVars(Receive) /\ WF_programVars(PublisherEnds)
  /\ \A w \in Consumers : /\ WF_programVars(Drain(w) \/ Canceled(w))
                         /\ SF_programVars(ConsumerStops(w))

ProgramSpec == ProgramInit /\ [][ProgramNext]_programVars /\ ProgramFairness

-----------------------------------------------------------------------------
(* Properties                                                               *)

\* The shape of the state; no more deliveries are held than Qos allows.
ProgramTypeOK ==
  /\ main \in {"boot", "select", "handle", "snapshot", "ended", "join", "close", "exited"}
  /\ {panicked, done, lost, pending} \subseteq BOOLEAN
  /\ closed \in 0..3 /\ inbox \in 0..Prefetch
  /\ deliver \in {"off", "receive", "offer", "ended"}
  /\ saver \in {"off", "select", "save", "ended"}
  /\ fan \in {"select", "ended"}
  /\ consumer \in [Consumers -> {"load", "drain", "call", "save", "select", "ended"}]
  /\ handler \in {"wait", "ended"}

\* main, Handler.Run: the WALs and the connections are closed only when nobody of the
\* publisher uses them any more, unless the engine panicked.
ClosedAfterUse ==
  closed > 0 /\ ~panicked => fan = "ended" /\ \A w \in Consumers : consumer[w] = "ended"


\* Engine.Run: neither the snapshot saver nor the publisher, hanging in a call for ever,
\* keeps the engine from taking the next delivery.
Serves == deliver = "offer" ~> (deliver # "offer" \/ ~Alive)
=============================================================================
