---------------------------- MODULE MCWatermark ----------------------------
(***************************************************************************)
(* Instances of Watermark for TLC.  The audit log only grows; so that runs *)
(* can be retried for ever in a finite model, LiveSpec lets a full log     *)
(* lose its oldest dead record while no run is under way.  Nothing reads   *)
(* such a record again: the one query on the log returns the latest        *)
(* unfinished record with a HIGH, and that one is kept.                    *)
(***************************************************************************)
EXTENDS Watermark, SequencesExt, TLC

\* Workers are interchangeable; used in runs of safety properties only.
WorkerSymmetry == Permutations(Workers)

Last21 == <<2, 1>>
Last22 == <<2, 2>>

Dead == {n \in DOMAIN audit : n \notin Candidates}

Retire ==
  /\ Len(audit) = MaxRuns
  /\ \A w \in Workers : At(w, "idle")
  /\ Dead # {}
  /\ audit' = RemoveAt(audit, CHOOSE n \in Dead : \A m \in Dead : n <= m)
  /\ UNCHANGED <<source, top, state, landing, worker>>

LiveNext == Next \/ Retire

(* A started run goes on, and the scheduler starts the next one. *)
LiveSpec ==
  /\ Init /\ [][LiveNext]_vars
  /\ WF_vars(Retire)
  /\ \A w \in Workers : WF_vars(Progress(w)) /\ WF_vars(StartAudit(w))

FaultsCease ==
  <>[][SourceStep \/ Retire \/ \E w \in Workers : StartAudit(w) \/ Progress(w)]_vars

(* Newer records wait for a following run, and that run comes: once faults *)
(* cease and the source rests, the watermark passes every row.             *)
EverythingLanded == FaultsCease => <>[]CaughtUp

(* The only thing that can stand in the way is a starved window.           *)
LandedUnlessStarved == FaultsCease => <>[](CaughtUp \/ Starved)
=============================================================================
