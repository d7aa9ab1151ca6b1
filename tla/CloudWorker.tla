---------------------------- MODULE CloudWorker -----------------------------
(***************************************************************************)
(* The cloud side of one meter: the worker's ingest thread, its fit thread *)
(* and the fit_once script, over the shared Postgres tables and the broker.*)
(*                                                                         *)
(* Every SQL statement commits on its own, so the threads interleave       *)
(* between statements.  Of the fingerprints only the latest row can still  *)
(* change; everything else that names a fingerprint (a local variable, a   *)
(* message, the retained message) is "latest", "older" or "none".          *)
(***************************************************************************)
EXTENDS Integers, Sequences

CONSTANTS
  Writers,      \* who fits: "worker" and, if an operator runs it, "once"
  MinSamples,   \* FIT_MIN_SAMPLES
  MaxInbox,     \* bound: messages waiting for the worker
  MaxTroubles   \* bound: link drops, database restarts, crashes, failed fits

ASSUME CloudAssumption ==
  /\ "worker" \in Writers /\ Writers \subseteq {"worker", "once"}
  /\ MinSamples \in Nat \ {0} /\ MaxInbox \in Nat /\ MaxTroubles \in Nat

VARIABLES
  ingest,    \* where _on_message is
  cur,       \* the message it handles
  verdictFp, \* the fingerprint handle_payload looked up
  rowSince,  \* a fingerprint row was inserted since cur was taken
  fitPc,     \* where each writer's pass is
  own,       \* the row that pass inserted
  conn,      \* each writer's database connection; the worker's threads share one
  link,      \* the worker's MQTT session and its subscriptions
  inbox,     \* messages the broker holds for the worker
  out,       \* a fingerprint message handed to the writer's MQTT client
  retained,  \* what the broker retains on .../fp
  meterFp,   \* the meter has a fingerprint
  samples,   \* readings in the fit's window, up to MinSamples
  row,       \* the latest fingerprints row: "none", "saved" or "published"
  handed,    \* the message of the latest row was handed to a connected client
  fpValid,   \* meters.fp_valid
  troubles   \* for the bound

ingestVars == <<ingest, cur, verdictFp, rowSince>>
fitVars    == <<fitPc, own, row, handed>>
brokerVars == <<link, inbox, out, retained>>
vars == <<ingestVars, fitVars, brokerVars, fpValid, conn, meterFp, samples, troubles>>

Age == {"none", "older", "latest"}

\* What "latest" and "older" become when a new row is inserted.
Aged(a) == IF a = "latest" THEN "older" ELSE a

NoMessage == [kind |-> "none", fp |-> FALSE]

\* _on_message returns.
Return ==
  /\ ingest' = "idle"
  /\ cur' = NoMessage /\ verdictFp' = "none" /\ rowSince' = FALSE

\* A pass of w is over; fit_once exits, and its connection with it.
EndPass(w) ==
  /\ conn' = IF w = "once" THEN [conn EXCEPT ![w] = "closed"] ELSE conn
  /\ fitPc' = [fitPc EXCEPT ![w] = "sleep"]
  /\ own' = [own EXCEPT ![w] = "none"]

Init ==
  /\ ingest = "idle" /\ cur = NoMessage /\ verdictFp = "none" /\ rowSince = FALSE
  /\ fitPc = [w \in Writers |-> IF w = "once" THEN "never" ELSE "sleep"]
  /\ own = [w \in Writers |-> "none"]
  /\ conn = [w \in Writers |-> IF w = "once" THEN "closed" ELSE "open"]
  /\ link = FALSE /\ inbox = <<>> /\ out = [w \in Writers |-> "none"]
  /\ retained = "none" /\ meterFp = FALSE
  /\ samples = 0 /\ row = "none" /\ handed = FALSE
  /\ fpValid = FALSE
  /\ troubles = 0

Trouble == troubles < MaxTroubles /\ troubles' = troubles + 1

-----------------------------------------------------------------------------
(* Ingest                                                                  *)

\* Where handle_payload starts: data looks up the fingerprint first.
FirstStep(kind) == IF kind = "data" THEN "lookup" ELSE "upsert"

TakeMessage ==
  /\ ingest = "idle" /\ inbox # <<>>
  /\ cur' = Head(inbox) /\ inbox' = Tail(inbox)
  /\ ingest' = FirstStep(cur'.kind)
  /\ rowSince' = FALSE
  /\ UNCHANGED <<verdictFp, fitVars, fpValid, conn, link, out, retained, meterFp,
                 samples, troubles>>

\* Mutant: only published fingerprints count.
LatestPublished == IF row = "published" THEN "latest" ELSE "none"

\* latest_fingerprint
LatestFingerprint == IF row = "none" THEN "none" ELSE "latest"

Lookup ==
  /\ ingest = "lookup" /\ conn["worker"] = "open"
  /\ verdictFp' = LatestFingerprint
  /\ ingest' = "upsert"
  /\ UNCHANGED <<cur, rowSince, fitVars, brokerVars, fpValid, conn, meterFp, samples,
                 troubles>>

\* upsert_meter.  A data payload has no "fp", and the COALESCE in VALUES makes
\* that false before ON CONFLICT looks at it.
UpsertMeter ==
  /\ ingest = "upsert" /\ conn["worker"] = "open"
  /\ fpValid' = (cur.kind # "data" /\ cur.fp)
  /\ IF cur.kind = "info"
       THEN Return
       ELSE ingest' = "insert" /\ UNCHANGED <<cur, verdictFp, rowSince>>
  /\ UNCHANGED <<fitVars, brokerVars, conn, meterFp, samples, troubles>>

\* The readings or heartbeats row.
InsertRow ==
  /\ ingest = "insert" /\ conn["worker"] = "open"
  /\ samples' = IF cur.kind = "data" /\ samples < MinSamples THEN samples + 1 ELSE samples
  /\ Return
  /\ UNCHANGED <<fitVars, brokerVars, fpValid, conn, meterFp, troubles>>

\* A statement on a connection that the server closed raises; _on_message logs it
\* and goes on with the next message.  Nothing opens the connection again.
IngestFails ==
  /\ ingest \in {"lookup", "upsert", "insert"} /\ conn["worker"] = "closed"
  /\ Return
  /\ UNCHANGED <<fitVars, brokerVars, fpValid, conn, meterFp, samples, troubles>>

-----------------------------------------------------------------------------
(* A fit pass, of the worker's fit thread or of fit_once                   *)

\* Mutant: a meter that has a fingerprint is not fitted again.
StartPassUnfitted(w) ==
  /\ fitPc[w] \in {"never", "sleep"} /\ out[w] = "none" /\ row = "none"
  /\ fitPc' = [fitPc EXCEPT ![w] = "select"]
  /\ conn' = IF w = "once" THEN [conn EXCEPT ![w] = "open"] ELSE conn
  /\ UNCHANGED <<ingestVars, own, row, handed, brokerVars, fpValid, meterFp, samples,
                 troubles>>

\* An hour later, or an operator runs the script.  What the last pass handed
\* over has left by then.
StartPass(w) ==
  /\ fitPc[w] \in {"never", "sleep"} /\ out[w] = "none"
  /\ fitPc' = [fitPc EXCEPT ![w] = "select"]
  /\ conn' = IF w = "once" THEN [conn EXCEPT ![w] = "open"] ELSE conn
  /\ UNCHANGED <<ingestVars, own, row, handed, brokerVars, fpValid, meterFp, samples,
                 troubles>>

\* samples_for_fit and fit(): too few samples or a singular system skip the meter.
SelectSamples(w) ==
  /\ fitPc[w] = "select" /\ conn[w] = "open"
  /\ \/ /\ samples = MinSamples
        /\ fitPc' = [fitPc EXCEPT ![w] = "save"] /\ UNCHANGED <<own, conn, troubles>>
     \/ samples < MinSamples /\ EndPass(w) /\ UNCHANGED troubles
     \/ samples = MinSamples /\ EndPass(w) /\ Trouble
  /\ UNCHANGED <<ingestVars, row, handed, brokerVars, fpValid, meterFp, samples>>

\* save_fingerprint: the new row ..
InsertFingerprint(w) ==
  /\ fitPc[w] = "save" /\ conn[w] = "open"
  /\ fitPc' = [fitPc EXCEPT ![w] = "validate"]
  /\ row' = "saved" /\ handed' = FALSE
  /\ own' = [v \in Writers |-> IF v = w THEN "latest" ELSE Aged(own[v])]
  /\ out' = [v \in Writers |-> Aged(out[v])]
  /\ retained' = Aged(retained)
  /\ verdictFp' = Aged(verdictFp) /\ rowSince' = (ingest # "idle")
  /\ UNCHANGED <<ingest, cur, fpValid, conn, link, inbox, meterFp, samples, troubles>>

\* .. and meters.fp_valid.
UpdateMeter(w) ==
  /\ fitPc[w] = "validate" /\ conn[w] = "open"
  /\ fitPc' = [fitPc EXCEPT ![w] = "publish"]
  /\ fpValid' = TRUE
  /\ UNCHANGED <<ingestVars, own, row, handed, brokerVars, conn, meterFp, samples, troubles>>

\* client.publish on a connected client queues the message and reports success.
Publish(w) ==
  /\ fitPc[w] = "publish" /\ (w = "worker" => link)
  /\ fitPc' = [fitPc EXCEPT ![w] = "mark"]
  /\ out' = [out EXCEPT ![w] = own[w]]
  /\ handed' = (handed \/ own[w] = "latest")
  /\ UNCHANGED <<ingestVars, own, row, fpValid, conn, link, inbox, retained, meterFp,
                 samples, troubles>>

\* Mutant: the worker does not look at result.rc.
MarksAnyway(w) == TRUE

\* The worker looks at result.rc; fit_once does not.
MarksRefused(w) == w = "once"

\* publish() on a client without a connection.  Nobody runs fit_once's MQTT loop,
\* so its keepalive can end during a long pass.
PublishRefused(w) ==
  /\ fitPc[w] = "publish"
  /\ IF w = "worker" THEN ~link /\ UNCHANGED troubles ELSE Trouble
  /\ IF MarksRefused(w)
       THEN fitPc' = [fitPc EXCEPT ![w] = "mark"] /\ UNCHANGED <<own, conn>>
       ELSE EndPass(w)
  /\ UNCHANGED <<ingestVars, row, handed, brokerVars, fpValid, meterFp, samples>>

\* mark_published names the meter, not the row: it marks the latest one.
MarkPublished(w) ==
  /\ fitPc[w] = "mark" /\ conn[w] = "open"
  /\ row' = "published"
  /\ EndPass(w)
  /\ UNCHANGED <<ingestVars, handed, brokerVars, fpValid, meterFp, samples,
                 troubles>>

\* A statement raises: the worker's pass ends, fit_once exits.
PassFails(w) ==
  /\ fitPc[w] \in {"select", "save", "validate", "mark"} /\ conn[w] = "closed"
  /\ EndPass(w)
  /\ UNCHANGED <<ingestVars, row, handed, brokerVars, fpValid, meterFp, samples,
                 troubles>>

-----------------------------------------------------------------------------
(* The meter, the broker, Postgres and the container                       *)

\* A radio session: info, data and perhaps a heartbeat, then the listen window.
\* QoS 0: who is not subscribed now does not get it.
Session ==
  /\ Len(inbox) + 3 <= MaxInbox
  /\ \E heartbeat \in BOOLEAN :
       LET say(k) == [kind |-> k, fp |-> k # "data" /\ meterFp]
           said == <<say("info"), say("data")>> \o (IF heartbeat THEN <<say("hb")>> ELSE <<>>)
       IN  inbox' = IF link THEN inbox \o said ELSE inbox
  /\ meterFp' \in {meterFp, meterFp \/ retained # "none"}
  /\ UNCHANGED <<ingestVars, fitVars, fpValid, conn, link, out, retained, samples, troubles>>

\* The MQTT thread flushes the message to the broker.
Flush(w) ==
  /\ out[w] # "none"
  /\ retained' = out[w]
  /\ out' = [out EXCEPT ![w] = "none"]
  /\ UNCHANGED <<ingestVars, fitVars, fpValid, conn, link, inbox, meterFp, samples, troubles>>

\* .. or its connection breaks first.
LoseOnce ==
  /\ "once" \in Writers /\ out["once"] # "none" /\ Trouble
  /\ out' = [out EXCEPT !["once"] = "none"]
  /\ UNCHANGED <<ingestVars, fitVars, fpValid, conn, link, inbox, retained, meterFp, samples>>

\* The worker's session ends; clean_session leaves nothing behind.
LinkDrops ==
  /\ link /\ Trouble
  /\ link' = FALSE /\ inbox' = <<>>
  /\ out' = [out EXCEPT !["worker"] = "none"]
  /\ UNCHANGED <<ingestVars, fitVars, fpValid, conn, retained, meterFp, samples>>

\* loop_forever reconnects and _on_connect subscribes.
Connect ==
  /\ ~link /\ link' = TRUE
  /\ UNCHANGED <<ingestVars, fitVars, fpValid, conn, inbox, out, retained, meterFp,
                 samples, troubles>>

\* Postgres restarts and is back at once; the connections are gone.
PostgresRestarts ==
  /\ Trouble
  /\ conn' = [w \in Writers |-> "closed"]
  /\ UNCHANGED <<ingestVars, fitVars, brokerVars, fpValid, meterFp, samples>>

\* The worker dies and Compose starts it again: run() connects to Postgres first.
WorkerRestarts ==
  /\ Trouble
  /\ Return
  /\ fitPc' = [fitPc EXCEPT !["worker"] = "sleep"]
  /\ own' = [own EXCEPT !["worker"] = "none"]
  /\ conn' = [conn EXCEPT !["worker"] = "open"]
  /\ link' = FALSE /\ inbox' = <<>> /\ out' = [out EXCEPT !["worker"] = "none"]
  /\ UNCHANGED <<row, handed, fpValid, retained, meterFp, samples>>

\* Readings leave the lookback window.
SampleExpires ==
  /\ samples > 0 /\ samples' = samples - 1
  /\ UNCHANGED <<ingestVars, fitVars, brokerVars, fpValid, conn, meterFp, troubles>>

Ingest == TakeMessage \/ Lookup \/ UpsertMeter \/ InsertRow \/ IngestFails

Pass(w) == \/ StartPass(w) \/ SelectSamples(w) \/ InsertFingerprint(w) \/ UpdateMeter(w)
           \/ Publish(w) \/ PublishRefused(w) \/ MarkPublished(w) \/ PassFails(w)

Next ==
  \/ Ingest
  \/ \E w \in Writers : Pass(w) \/ Flush(w)
  \/ Session \/ LoseOnce \/ LinkDrops \/ Connect \/ PostgresRestarts \/ WorkerRestarts
  \/ SampleExpires

Spec == Init /\ [][Next]_vars

\* Both threads of the worker run on, paho reconnects, and meters keep their
\* radio schedule.  Nothing obliges an operator to run fit_once.
FairSpec ==
  /\ Spec
  /\ WF_vars(Ingest) /\ WF_vars(Pass("worker")) /\ WF_vars(Flush("worker"))
  /\ WF_vars(Connect) /\ WF_vars(Session)

-----------------------------------------------------------------------------
Messages == [kind : {"none", "info", "data", "hb"}, fp : BOOLEAN]

\* The shape of the state.
TypeOK ==
  /\ ingest \in {"idle", "lookup", "upsert", "insert"}
  /\ cur \in Messages /\ inbox \in Seq(Messages) /\ Len(inbox) <= MaxInbox
  /\ verdictFp \in Age /\ retained \in Age
  /\ own \in [Writers -> Age] /\ out \in [Writers -> Age]
  /\ fitPc \in [Writers -> {"never", "sleep", "select", "save", "validate", "publish", "mark"}]
  /\ conn \in [Writers -> {"open", "closed"}]
  /\ {rowSince, link, meterFp, handed, fpValid} \subseteq BOOLEAN
  /\ samples \in 0..MinSamples /\ troubles \in 0..MaxTroubles
  /\ row \in {"none", "saved", "published"}

\* A reading's wm_cloud comes from the fingerprint that was the latest when its
\* message was taken, or from a newer one (handle_payload, latest_fingerprint,
\* while the fit thread inserts).
VerdictIsFresh ==
  ingest = "insert" /\ cur.kind = "data" /\ ~rowSince =>
    verdictFp = IF row = "none" THEN "none" ELSE "latest"

\* As long as nobody ran fit_once, a row is marked as published only after its
\* own message was handed to a connected client ("After MQTT publish: published
\* = true"; _fit_all, mark_published).
MarkedWasHanded ==
  (\A w \in Writers : fitPc[w] = "never" \/ w = "worker") =>
    (row = "published" => handed)

\* No run of fit_once is under way.
OnceIsIdle == \A w \in Writers \ {"worker"} : fitPc[w] \in {"never", "sleep"}

\* Once there are enough samples, a database connection that stays and no more
\* runs of fit_once, a fingerprint gets to the broker and stays the latest again
\* and again, whatever was lost before (_fit_all, fit_loop).
FingerprintIsRetained ==
  <>[](samples = MinSamples /\ conn["worker"] = "open" /\ OnceIsIdle)
    => []<>(retained = "latest")

\* Data keeps being stored: a worker that was cut off from Postgres stores
\* messages again ("The Python worker stores rows").
IngestRecovers == conn["worker"] = "closed" ~> conn["worker"] = "open"
=============================================================================
