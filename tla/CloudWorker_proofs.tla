------------------------- MODULE CloudWorker_proofs -------------------------
(***************************************************************************)
(* Proofs about the worker, for any window of samples and any length of    *)
(* the inbox: which fingerprint a reading is judged by, and which rows are *)
(* marked as published.                                                    *)
(***************************************************************************)
EXTENDS CloudWorker, TLAPS

\* Where the passes are, and who has an own row.
PassTypes ==
  /\ fitPc \in [Writers -> {"never", "sleep", "select", "save", "validate", "publish", "mark"}]
  /\ own \in [Writers -> Age]

LEMMA TheWriters == "worker" \in Writers
  BY CloudAssumption

Inserted == {"validate", "publish", "mark"}

\* A pass that has inserted its row finds some row.
RowInv == \A w \in Writers : fitPc[w] \in Inserted => row # "none"

\* What handle_payload looked up stays the latest, or it is known that a row came since.
VerdictInv ==
  ingest \in {"upsert", "insert"} /\ cur.kind = "data" /\ ~rowSince =>
    verdictFp = LatestFingerprint

\* Nobody but the worker ever fitted.
Alone == \A w \in Writers : fitPc[w] = "never" \/ w = "worker"

\* The row that the worker marks is its own, and was handed over.
HandedInv ==
  Alone =>
    /\ row = "published" => handed
    /\ fitPc["worker"] \in Inserted => own["worker"] = "latest"
    /\ fitPc["worker"] = "mark" => handed

CloudInv == PassTypes /\ RowInv /\ VerdictInv /\ HandedInv

-----------------------------------------------------------------------------
\* At the start.
LEMMA InitCloudInv == Init => CloudInv
  BY TheWriters DEF Init, CloudInv, PassTypes, RowInv, VerdictInv, HandedInv, Alone, Age,
                    Inserted

\* The end of a pass keeps what does not concern the rows.
LEMMA EndPassKeeps ==
  ASSUME CloudInv, NEW w \in Writers, EndPass(w)
  PROVE  /\ PassTypes' /\ fitPc'[w] = "sleep"
         /\ \A v \in Writers \ {w} : fitPc'[v] = fitPc[v] /\ own'[v] = own[v]
  BY DEF CloudInv, PassTypes, EndPass, Age

\* The ingest thread.
LEMMA IngestKeeps == CloudInv /\ Ingest => CloudInv'
<1> SUFFICES ASSUME CloudInv, Ingest PROVE CloudInv'
  OBVIOUS
<1>1. UNCHANGED fitVars
  BY DEF Ingest, TakeMessage, Lookup, UpsertMeter, InsertRow, IngestFails
<1>2. PassTypes' /\ RowInv' /\ HandedInv'
  BY <1>1 DEF CloudInv, PassTypes, RowInv, HandedInv, Alone, fitVars
<1>3. VerdictInv'
  <2>1. CASE TakeMessage
    BY <2>1 DEF TakeMessage, FirstStep, VerdictInv
  <2>2. CASE Lookup
    BY <1>1, <2>2 DEF Lookup, VerdictInv, LatestFingerprint, fitVars
  <2>3. CASE UpsertMeter
    BY <1>1, <2>3 DEF UpsertMeter, Return, CloudInv, VerdictInv, LatestFingerprint, fitVars
  <2>4. CASE InsertRow \/ IngestFails
    BY <2>4 DEF InsertRow, IngestFails, Return, VerdictInv
  <2>. QED
    BY <2>1, <2>2, <2>3, <2>4 DEF Ingest
<1>. QED
  BY <1>2, <1>3 DEF CloudInv

\* A step that leaves the rows and the ingest thread alone keeps the verdict.
LEMMA VerdictStays ==
  ASSUME CloudInv, UNCHANGED <<ingestVars, row>>
  PROVE  VerdictInv'
  BY DEF CloudInv, VerdictInv, LatestFingerprint, ingestVars

\* A pass of the fit thread or of fit_once.
LEMMA PassKeeps == \A w \in Writers : CloudInv /\ Pass(w) => CloudInv'
<1> SUFFICES ASSUME NEW w \in Writers, CloudInv, Pass(w) PROVE CloudInv'
  OBVIOUS
<1>0. PassTypes /\ RowInv /\ VerdictInv /\ HandedInv
  BY DEF CloudInv
<1> SUFFICES PassTypes' /\ RowInv' /\ VerdictInv' /\ HandedInv'
  BY DEF CloudInv
<1> USE DEF PassTypes, RowInv, HandedInv, Alone, Inserted
<1>1. CASE StartPass(w)
  BY <1>0, <1>1, TheWriters, VerdictStays DEF StartPass
<1>2. CASE SelectSamples(w)
  <2>1. UNCHANGED <<ingestVars, row, handed>>
    BY <1>2 DEF SelectSamples
  <2>2. CASE EndPass(w)
    BY <1>0, <2>1, <2>2, TheWriters, EndPassKeeps, VerdictStays
  <2>3. CASE fitPc' = [fitPc EXCEPT ![w] = "save"] /\ UNCHANGED own
    BY <1>0, <2>1, <2>3, TheWriters, VerdictStays
  <2>. QED
    BY <1>2, <2>2, <2>3 DEF SelectSamples
<1>3. CASE InsertFingerprint(w)
  <2>1. own' = [v \in Writers |-> IF v = w THEN "latest" ELSE Aged(own[v])]
        /\ fitPc' = [fitPc EXCEPT ![w] = "validate"] /\ row' = "saved" /\ handed' = FALSE
    BY <1>3 DEF InsertFingerprint
  <2>2. PassTypes' /\ RowInv'
    BY <1>0, <2>1 DEF Aged, Age
  <2>3. VerdictInv'
    BY <1>3 DEF InsertFingerprint, VerdictInv
  <2>4. HandedInv'
    BY <1>0, <2>1, TheWriters
  <2>. QED
    BY <2>2, <2>3, <2>4
<1>4. CASE UpdateMeter(w)
  BY <1>0, <1>4, TheWriters, VerdictStays DEF UpdateMeter
<1>5. CASE Publish(w)
  BY <1>0, <1>5, TheWriters, VerdictStays DEF Publish
<1>6. CASE PublishRefused(w)
  <2>1. UNCHANGED <<ingestVars, row, handed>>
    BY <1>6 DEF PublishRefused
  <2>2. CASE w = "worker"
    <3>1. EndPass(w)
      BY <1>6, <2>2 DEF PublishRefused, MarksRefused
    <3>. QED
      BY <1>0, <2>1, <3>1, TheWriters, EndPassKeeps, VerdictStays
  <2>3. CASE w # "worker"
    <3>1. w = "once" /\ fitPc' = [fitPc EXCEPT ![w] = "mark"] /\ own' = own
          /\ fitPc[w] = "publish"
      BY <1>6, <2>3, CloudAssumption DEF PublishRefused, MarksRefused
    <3>. QED
      BY <1>0, <2>1, <2>3, <3>1, TheWriters, VerdictStays
  <2>. QED
    BY <2>2, <2>3
<1>7. CASE MarkPublished(w)
  <2>1. EndPass(w) /\ row' = "published" /\ UNCHANGED <<ingestVars, handed>>
        /\ fitPc[w] = "mark"
    BY <1>7 DEF MarkPublished
  <2>2. VerdictInv'
    BY <1>0, <2>1 DEF VerdictInv, LatestFingerprint, ingestVars
  <2>3. PassTypes' /\ RowInv'
    BY <2>1, EndPassKeeps
  <2>4. HandedInv'
    BY <1>0, <2>1, TheWriters, EndPassKeeps
  <2>. QED
    BY <2>2, <2>3, <2>4
<1>8. CASE PassFails(w)
  <2>1. EndPass(w) /\ UNCHANGED <<ingestVars, row, handed>>
    BY <1>8 DEF PassFails
  <2>. QED
    BY <1>0, <2>1, TheWriters, EndPassKeeps, VerdictStays
<1>. QED
  BY <1>1, <1>2, <1>3, <1>4, <1>5, <1>6, <1>7, <1>8 DEF Pass

\* The container, which takes the worker's threads with it.
LEMMA RestartKeeps == CloudInv /\ WorkerRestarts => CloudInv'
<1> SUFFICES ASSUME CloudInv, WorkerRestarts PROVE CloudInv'
  OBVIOUS
<1>1. VerdictInv'
  BY DEF WorkerRestarts, Return, VerdictInv
<1>2. PassTypes' /\ RowInv' /\ HandedInv'
  BY TheWriters DEF WorkerRestarts, CloudInv, PassTypes, RowInv, HandedInv, Alone,
                    Inserted, Age
<1>. QED
  BY <1>1, <1>2 DEF CloudInv

\* What concerns neither the rows nor the threads.
LEMMA OthersKeep == CloudInv /\ UNCHANGED <<ingestVars, fitVars>> => CloudInv'
  BY DEF CloudInv, PassTypes, RowInv, VerdictInv, HandedInv, Alone, LatestFingerprint,
         ingestVars, fitVars

LEMMA CloudInvHolds == Spec => []CloudInv
<1>1. CloudInv /\ [Next]_vars => CloudInv'
  <2>. SUFFICES ASSUME CloudInv, [Next]_vars PROVE CloudInv'
    OBVIOUS
  <2>1. CASE Ingest
    BY <2>1, IngestKeeps
  <2>2. CASE \E w \in Writers : Pass(w)
    BY <2>2, PassKeeps
  <2>3. CASE WorkerRestarts
    BY <2>3, RestartKeeps
  <2>4. CASE \E w \in Writers : Flush(w)
    BY <2>4, OthersKeep DEF Flush
  <2>5. CASE Session \/ LoseOnce \/ LinkDrops \/ Connect \/ PostgresRestarts \/ SampleExpires
    BY <2>5, OthersKeep
    DEF Session, LoseOnce, LinkDrops, Connect, PostgresRestarts, SampleExpires
  <2>6. CASE UNCHANGED vars
    BY <2>6, OthersKeep DEF vars
  <2>. QED
    BY <2>1, <2>2, <2>3, <2>4, <2>5, <2>6 DEF Next
<1>. QED
  BY <1>1, InitCloudInv, PTL DEF Spec

\* A reading is judged by the fingerprint that was the latest when its message was taken,
\* unless the fit thread or fit_once inserted one since (handle_payload).
THEOREM VerdictsAreFresh == Spec => []VerdictIsFresh
<1>1. CloudInv => VerdictIsFresh
  BY DEF CloudInv, VerdictInv, VerdictIsFresh, LatestFingerprint
<1>. QED
  BY <1>1, CloudInvHolds, PTL

\* As long as nobody runs fit_once, only rows whose own message was handed to a connected
\* client are marked as published, though mark_published names no row (_fit_all).
THEOREM MarksMeanHanded == Spec => []MarkedWasHanded
<1>1. CloudInv => MarkedWasHanded
  BY DEF CloudInv, HandedInv, Alone, MarkedWasHanded
<1>. QED
  BY <1>1, CloudInvHolds, PTL
=============================================================================
