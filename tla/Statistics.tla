----------------------------- MODULE Statistics -----------------------------
(***************************************************************************)
(* The business statistics of one node, from the sample to the Server.     *)
(* Samples gather in memory by five-minute bucket; one that finds the      *)
(* accumulator locked by another thread is dropped and counted as dropped. *)
(* A flush takes them, reads the stored points, adds the samples and       *)
(* commits the new points together with a signed report for each, which    *)
(* replaces the one already in the outbox.  A control session sends the    *)
(* first reports of the outbox and removes those the Server acknowledges   *)
(* by their digest; the Server keeps the highest revision of every point.  *)
(*                                                                         *)
(* A Travel and a Home run one control session at a time.  The Server may  *)
(* redial a Relay while the Relay still serves the session before, and     *)
(* then both flush and acknowledge.  A report and its answer may be lost   *)
(* with their session, and a report may arrive after a later session's.    *)
(*                                                                         *)
(* A point is its revision and its count: sum, extremes and histogram are  *)
(* merged with it.  A report's digest is the digest of its payload, which  *)
(* the bucket, the revision and the count stand for.                       *)
(***************************************************************************)
EXTENDS Naturals, Sequences, FiniteSets, FiniteSetsExt

CONSTANTS
    Buckets,     \* five-minute buckets of one metric: the order of the outbox
    Sessions,    \* control sessions
    Roles,       \* the nodes considered: "travel", "relay" or "home"
    NoReport,    \* nothing in the outbox
    ScanLimit,   \* reports read from the outbox at once (16 in the code)
    MaxSamples,  \* bound: samples
    MaxQueue,    \* bound: reports of a session not yet answered
    MaxFaults    \* bound: crashes, ended sessions, failed writes and refusals

VARIABLES
    role,        \* the node's role
    accumulator, \* samples in memory
    point,       \* Metric5m
    reports,     \* ReportOutbox
    session,     \* Sessions -> on, report_keys, known_pending, blocking step
    sent,        \* Sessions -> reports under way to the Server
    replies,     \* Sessions -> StatisticsReportAck under way to the node
    counted,     \* AcceptedReports at the Server
    dropped,     \* dropped_events: samples that found the accumulator locked
    recorded,    \* history: samples the accumulator took and no death has lost
    collided,    \* history: blocking steps of two sessions ran together
    faulted      \* faults so far

vars == <<role, accumulator, dropped, point, reports, session, sent, replies,
          counted, recorded, collided, faulted>>

None == [b \in Buckets |-> 0]
NoPoint == [revision |-> 0, count |-> 0]
Idle == [at |-> "idle"]
Off == [on |-> FALSE, keys |-> {}, pending |-> FALSE, step |-> Idle]

Init ==
    /\ role \in Roles
    /\ accumulator = None
    /\ dropped = 0
    /\ point = [b \in Buckets |-> NoPoint]
    /\ reports = [b \in Buckets |-> NoReport]
    /\ session = [s \in Sessions |-> Off]
    /\ sent = [s \in Sessions |-> <<>>]
    /\ replies = [s \in Sessions |-> <<>>]
    /\ counted = [b \in Buckets |-> NoPoint]
    /\ recorded = None
    /\ collided = FALSE
    /\ faulted = 0

store == <<point, reports>>
wire == <<sent, replies>>

Report(b, p) == [bucket |-> b, revision |-> p.revision, count |-> p.count]

At(s, at) == session[s].on /\ session[s].step.at = at
Go(s, step) == session' = [session EXCEPT ![s].step = step]

\* Another session's flush or acknowledgement is between its read and its write.
Collides(s) ==
    collided \/ \E t \in Sessions \ {s} :
                   session[t].step.at \in {"build", "commit", "delete"}

Fault == faulted < MaxFaults /\ faulted' = faulted + 1

(***************************************************************************)
(* Samples and sessions.                                                   *)
(***************************************************************************)
\* Samples so far: those taken and those dropped.
Seen == MapThenSumSet(LAMBDA c : recorded[c], Buckets) + dropped

\* LocalStatistics.record that gets the accumulator's lock, and MetricBatch.flush
\* for a batch of samples, which waits for it.
Sample(b) ==
    /\ Seen < MaxSamples
    /\ accumulator' = [accumulator EXCEPT ![b] = @ + 1]
    /\ recorded' = [recorded EXCEPT ![b] = @ + 1]
    /\ UNCHANGED <<role, dropped, store, session, wire, counted, collided, faulted>>

\* LocalStatistics.record finds the accumulator locked: by another sample, a
\* flush that takes the samples or gives them back, or a query.
SampleDropped ==
    /\ Seen < MaxSamples
    /\ dropped' = dropped + 1
    /\ UNCHANGED <<role, accumulator, store, session, wire, counted, recorded, collided,
                   faulted>>

Connect(s) ==
    /\ ~session[s].on
    /\ sent[s] = <<>>
    /\ role = "relay" \/ \A t \in Sessions : ~session[t].on
    /\ session' = [session EXCEPT ![s] = [Off EXCEPT !.on = TRUE, !.pending = TRUE]]
    /\ UNCHANGED <<role, accumulator, dropped, store, wire, counted, recorded, collided, faulted>>

\* The session ends between two of its events: the answers are lost, and what it
\* had sent may still arrive.
Disconnect(s) ==
    /\ At(s, "idle")
    /\ Fault
    /\ session' = [session EXCEPT ![s] = Off]
    /\ replies' = [replies EXCEPT ![s] = <<>>]
    /\ UNCHANGED <<role, accumulator, dropped, store, sent, counted, recorded, collided>>

\* The process dies: the samples in memory are gone, and a flush that has not
\* committed with them.
Crash ==
    /\ Fault
    /\ accumulator' = None
    /\ dropped' = 0
    /\ recorded' = [b \in Buckets |-> point[b].count]
    /\ session' = [s \in Sessions |-> Off]
    /\ replies' = [s \in Sessions |-> <<>>]
    /\ UNCHANGED <<role, store, sent, counted, collided>>

(***************************************************************************)
(* flush_and_stage.                                                        *)
(***************************************************************************)
Scanning(staged) == [at |-> "scan", staged |-> staged]

\* The accumulator is taken under its lock.
Flush(s) ==
    /\ At(s, "idle")
    /\ accumulator' = None
    /\ Go(s, IF accumulator = None THEN Scanning(FALSE)
             ELSE [at |-> "build", deltas |-> accumulator])
    /\ collided' = (collided \/ (accumulator # None /\ Collides(s)))
    /\ UNCHANGED <<role, dropped, store, wire, counted, recorded, faulted>>

Merged(b, delta) ==
    [revision |-> point[b].revision + 1, count |-> point[b].count + delta]

\* build_flush_batch: the stored points are read and the reports signed.
Build(s) ==
    /\ At(s, "build")
    /\ LET deltas == session[s].step.deltas
           touched == {b \in Buckets : deltas[b] > 0}
       IN Go(s, [at |-> "commit", deltas |-> deltas,
                 batch |-> [b \in touched |-> Merged(b, deltas[b])]])
    /\ collided' = Collides(s)
    /\ UNCHANGED <<role, accumulator, dropped, store, wire, counted, recorded, faulted>>

\* Mutant: the points are committed, and a report only where none is waiting.
CommitFirst(s) ==
    /\ At(s, "commit")
    /\ LET batch == session[s].step.batch
       IN /\ point' = [b \in Buckets |-> IF b \in DOMAIN batch THEN batch[b] ELSE point[b]]
          /\ reports' = [b \in Buckets |->
                IF b \in DOMAIN batch /\ reports[b] = NoReport
                THEN Report(b, batch[b]) ELSE reports[b]]
    /\ Go(s, Scanning(TRUE))
    /\ collided' = Collides(s)
    /\ UNCHANGED <<role, accumulator, dropped, wire, counted, recorded, faulted>>

\* The batch is one transaction.
Commit(s) ==
    /\ At(s, "commit")
    /\ LET batch == session[s].step.batch
       IN /\ point' = [b \in Buckets |-> IF b \in DOMAIN batch THEN batch[b] ELSE point[b]]
          /\ reports' = [b \in Buckets |->
                IF b \in DOMAIN batch THEN Report(b, batch[b]) ELSE reports[b]]
    /\ Go(s, Scanning(TRUE))
    /\ collided' = Collides(s)
    /\ UNCHANGED <<role, accumulator, dropped, wire, counted, recorded, faulted>>

\* Mutant: the samples of a failed flush replace those gathered meanwhile.
RestoreOver(deltas) == deltas

\* restore_deltas
Restored(deltas) == [b \in Buckets |-> accumulator[b] + deltas[b]]

\* The transaction fails: the samples go back.  A Home goes on to its outbox; the
\* others end the session.
CommitFails(s) ==
    /\ At(s, "commit")
    /\ Fault
    /\ accumulator' = Restored(session[s].step.deltas)
    /\ IF role = "home"
       THEN Go(s, Scanning(FALSE)) /\ UNCHANGED replies
       ELSE /\ session' = [session EXCEPT ![s] = Off]
            /\ replies' = [replies EXCEPT ![s] = <<>>]
    /\ collided' = Collides(s)
    /\ UNCHANGED <<role, dropped, store, sent, counted, recorded>>

(***************************************************************************)
(* The outbox.                                                             *)
(***************************************************************************)
\* pending_reports: the oldest of the outbox.
Pending ==
    LET waiting == {b \in Buckets : reports[b] # NoReport}
    IN {b \in waiting : Cardinality({c \in waiting : c < b}) < ScanLimit}

\* A Travel scans after it staged, or when the last scan found reports and all
\* of its own are answered (statistics_outbox_scan_needed).
ScanNeeded(s) ==
    \/ role # "travel"
    \/ session[s].step.staged
    \/ session[s].pending /\ session[s].keys = {}

InOrder(set) ==
    LET n == Cardinality(set)
    IN {[i \in 1..n |-> reports[order[i]]] :
            order \in {o \in [1..n -> set] : \A i, j \in 1..n : i < j => o[i] < o[j]}}

\* A Travel skips the reports that are under way; a Relay and a Home send what
\* they find again.
Send(s) ==
    /\ At(s, "scan")
    /\ LET toSend == {b \in Pending :
                        ~(role = "travel" /\ reports[b] \in session[s].keys)}
       IN /\ Len(sent[s]) + Len(replies[s]) + Cardinality(toSend) <= MaxQueue
          /\ IF ScanNeeded(s)
             THEN /\ \E new \in InOrder(toSend) : sent' = [sent EXCEPT ![s] = @ \o new]
                  /\ session' = [session EXCEPT ![s] =
                        [session[s] EXCEPT !.step = Idle, !.pending = Pending # {},
                                           !.keys = @ \union {reports[b] : b \in toSend}]]
             ELSE Go(s, Idle) /\ UNCHANGED sent
    /\ UNCHANGED <<role, accumulator, dropped, store, replies, counted, recorded, collided, faulted>>

\* Mutant: a report is added to what the Server has of the bucket.
CountAgain(b, report) ==
    [revision |-> Max({report.revision, counted[b].revision}),
     count |-> counted[b].count + report.count]

\* StateStore.accept_statistics_report: a higher revision replaces the point;
\* the same or a lower one changes nothing, and is acknowledged too.
Accept(b, report) ==
    IF report.revision > counted[b].revision
    THEN [revision |-> report.revision, count |-> report.count]
    ELSE counted[b]

\* The same revision with another digest is refused.
Conflicts(report) ==
    /\ report.revision = counted[report.bucket].revision
    /\ report.count # counted[report.bucket].count

Reply(s, report, ok) ==
    replies' = IF session[s].on
               THEN [replies EXCEPT ![s] = Append(@, [report |-> report, ok |-> ok])]
               ELSE replies

\* The Server takes the next report of a session.
Ingest(s) ==
    /\ sent[s] # <<>>
    /\ LET report == Head(sent[s])
       IN /\ counted' = IF Conflicts(report) THEN counted
                        ELSE [counted EXCEPT ![report.bucket] = Accept(report.bucket, report)]
          /\ Reply(s, report, ~Conflicts(report))
    /\ sent' = [sent EXCEPT ![s] = Tail(@)]
    /\ UNCHANGED <<role, accumulator, dropped, store, session, recorded, collided, faulted>>

\* It is refused (outside the time window, no active credential), lost with its
\* session, or counted although the Relay that forwards a Travel's report gave
\* up waiting.
Refuse(s) ==
    /\ sent[s] # <<>>
    /\ Fault
    /\ LET report == Head(sent[s])
       IN /\ \/ UNCHANGED counted
             \/ /\ role = "travel"
                /\ ~Conflicts(report)
                /\ counted' = [counted EXCEPT ![report.bucket] = Accept(report.bucket, report)]
          /\ Reply(s, report, FALSE)
    /\ sent' = [sent EXCEPT ![s] = Tail(@)]
    /\ UNCHANGED <<role, accumulator, dropped, store, session, recorded, collided>>

\* StatisticsReportAck: an accepted report this session sent is looked up in the
\* outbox; a Travel forgets a refused one, so that it is sent again.
ReceiveAck(s) ==
    /\ At(s, "idle")
    /\ replies[s] # <<>>
    /\ LET reply == Head(replies[s])
           known == reply.report \in session[s].keys
       IN session' = [session EXCEPT ![s] =
            [session[s] EXCEPT
                      !.keys = IF reply.ok \/ role = "travel" THEN @ \ {reply.report} ELSE @,
                      !.step = IF reply.ok /\ known
                               THEN [at |-> "lookup", report |-> reply.report] ELSE Idle]]
    /\ replies' = [replies EXCEPT ![s] = Tail(@)]
    /\ UNCHANGED <<role, accumulator, dropped, store, sent, counted, recorded, collided, faulted>>

\* Mutant: whatever the outbox holds for the key is taken for acknowledged.
LookupKey(s) ==
    /\ At(s, "lookup")
    /\ LET b == session[s].step.report.bucket
       IN Go(s, IF reports[b] # NoReport THEN [at |-> "delete", bucket |-> b] ELSE Idle)
    /\ collided' = Collides(s)
    /\ UNCHANGED <<role, accumulator, dropped, store, wire, counted, recorded, faulted>>

\* acknowledge_report reads the report and compares the digest...
Lookup(s) ==
    /\ At(s, "lookup")
    /\ LET b == session[s].step.report.bucket
       IN Go(s, IF reports[b] = session[s].step.report
                THEN [at |-> "delete", bucket |-> b] ELSE Idle)
    /\ collided' = Collides(s)
    /\ UNCHANGED <<role, accumulator, dropped, store, wire, counted, recorded, faulted>>

\* ...and deletes the key in a transaction of its own.
Delete(s) ==
    /\ At(s, "delete")
    /\ reports' = [reports EXCEPT ![session[s].step.bucket] = NoReport]
    /\ Go(s, Idle)
    /\ collided' = Collides(s)
    /\ UNCHANGED <<role, accumulator, dropped, point, wire, counted, recorded, faulted>>

Next ==
    \/ Crash
    \/ SampleDropped
    \/ \E b \in Buckets : Sample(b)
    \/ \E s \in Sessions :
          \/ Connect(s) \/ Disconnect(s) \/ Flush(s) \/ Build(s) \/ Commit(s)
          \/ CommitFails(s) \/ Send(s) \/ Ingest(s) \/ Refuse(s)
          \/ ReceiveAck(s) \/ Lookup(s) \/ Delete(s)

Spec == Init /\ [][Next]_vars

(***************************************************************************)
(* Properties.                                                             *)
(***************************************************************************)
Points == [revision : Nat, count : Nat]
Reports == [bucket : Buckets, revision : Nat \ {0}, count : Nat]

TypeOK ==
    /\ role \in Roles
    /\ accumulator \in [Buckets -> Nat]
    /\ dropped \in Nat
    /\ point \in [Buckets -> Points]
    /\ \A b \in Buckets : reports[b] = NoReport \/ reports[b] \in Reports
    /\ \A s \in Sessions :
          /\ session[s].on \in BOOLEAN
          /\ session[s].pending \in BOOLEAN
          /\ session[s].keys \subseteq Reports
          /\ session[s].step.at \in
                {"idle", "build", "commit", "scan", "lookup", "delete"}
          /\ \A i \in DOMAIN sent[s] : sent[s][i] \in Reports
          /\ \A i \in DOMAIN replies[s] : replies[s][i].report \in Reports
    /\ counted \in [Buckets -> Points]

Flushing(s) == session[s].step.at \in {"build", "commit"}

\* A sample is in memory, in the stored point or in the hands of the one flush.
Survives(b) ==
    LET held == accumulator[b] + point[b].count
    IN /\ (\A s \in Sessions : ~Flushing(s)) => held = recorded[b]
       /\ \A s \in Sessions :
             Flushing(s) => held + session[s].step.deltas[b] = recorded[b]

\* No sample that the accumulator took is lost before the process dies, or counted
\* twice: failed flushes give back what they took.  A sample dropped on the way to
\* the accumulator is counted in dropped instead and is not promised anything.
\* Two sessions' flushes that run together are excepted: both read the point
\* before either commits.
NoSampleLost == ~collided => \A b \in Buckets : Survives(b)

\* The newest point of a bucket waits in the outbox until the Server has it: an
\* answer to an older report, a lost answer, a late or repeated report never
\* removes it.  Excepted as above: the digest is compared in one transaction and
\* the key deleted in another.
NewestIsReported ==
    ~collided => \A b \in Buckets :
        point[b].revision > counted[b].revision => reports[b] = Report(b, point[b])

\* The Server never counts more than the node stored, however often and in
\* whatever order the reports of a bucket arrive.
CountedOnce ==
    ~collided => \A b \in Buckets :
        /\ counted[b].count <= point[b].count
        /\ counted[b].revision = point[b].revision => counted[b] = point[b]

=============================================================================
