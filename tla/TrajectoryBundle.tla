-------------------------- MODULE TrajectoryBundle --------------------------
(***************************************************************************)
(* The trajectory bundles of M06: builders in memory that grow by one       *)
(* validated record at a time, are written to a directory that appears      *)
(* whole or not at all, and may be resumed from one.  Several processes     *)
(* build at the same time and may aim at the same directory; whoever calls  *)
(* a builder may go on after any exception.                                 *)
(*                                                                         *)
(* Worker and episode are one number, in their order.  A blob is the        *)
(* observation it encodes, so that bytes are counted in blobs.              *)
(***************************************************************************)
EXTENDS Naturals, Sequences, FiniteSets

CONSTANTS Builders, Directories, Observations, Episodes, Ordinals,
          MaxTransitions,  \* 128
          MaxBlobs,        \* 129, MAX_OBSERVATION_BYTES in blobs
          Spare            \* blobs that fit into what a manifest leaves of MAX_METADATA_BYTES

VARIABLES phase,    \* of each builder: "none", "open" or "writing"
          target,   \* the directory it is writing
          records, blobs,
          refused,  \* history: whether an add of it has exceeded the observation bytes
          there,    \* the directories that exist
          kept, stored,  \* their records and blobs
          whole     \* history: those of a builder that was never refused

building == <<phase, target, records, blobs, refused>>
published == <<there, kept, stored, whole>>
bundles == <<building, published>>

Records == [episode : Episodes, ordinal : Ordinals, before : Observations, after : Observations]

BundleInit ==
  /\ phase = [b \in Builders |-> "none"]
  /\ target \in [Builders -> Directories]
  /\ records = [b \in Builders |-> <<>>]
  /\ blobs = [b \in Builders |-> {}]
  /\ refused = [b \in Builders |-> FALSE]
  /\ there = {}
  /\ kept = [d \in Directories |-> <<>>]
  /\ stored = [d \in Directories |-> {}]
  /\ whole = [d \in Directories |-> FALSE]

(* The key of a record, compared with the one before it.                    *)
Precedes(r, s) ==
  \/ r.episode < s.episode
  \/ r.episode = s.episode /\ r.ordinal < s.ordinal
Follows(r, s) == Precedes(r, s) /\ (r.episode = s.episode => s.before = r.after)

Chained(its) == \A i \in 1 .. Len(its) - 1 : Follows(its[i], its[i + 1])
Referenced(its) == UNION {{its[i].before, its[i].after} : i \in DOMAIN its}

(* load_bundle, for a directory nobody has damaged.                         *)
Loads(its, files) ==
  /\ Len(its) <= MaxTransitions
  /\ \A i \in 1 .. Len(its) - 1 : Precedes(its[i], its[i + 1])
  /\ files = Referenced(its)
  /\ Cardinality(files) <= MaxBlobs

Open(b) ==
  /\ phase[b] # "writing"
  /\ phase' = [phase EXCEPT ![b] = "open"]
  /\ records' = [records EXCEPT ![b] = <<>>]
  /\ blobs' = [blobs EXCEPT ![b] = {}]
  /\ refused' = [refused EXCEPT ![b] = FALSE]
  /\ UNCHANGED <<target, published>>

Resume(b, d) ==
  /\ phase[b] # "writing"
  /\ d \in there /\ Loads(kept[d], stored[d])
  /\ phase' = [phase EXCEPT ![b] = "open"]
  /\ records' = [records EXCEPT ![b] = kept[d]]
  /\ blobs' = [blobs EXCEPT ![b] = stored[d]]
  /\ refused' = [refused EXCEPT ![b] = FALSE]
  /\ UNCHANGED <<target, published>>

(* add, when it gets as far as the appending.  The bytes are compared after *)
(* that, and the exception takes nothing back.                              *)
Add(b, r) ==
  LET its == records[b] IN
  /\ phase[b] = "open"
  /\ Len(its) < MaxTransitions
  /\ its # <<>> => Follows(its[Len(its)], r)
  /\ records' = [records EXCEPT ![b] = Append(@, r)]
  /\ blobs' = [blobs EXCEPT ![b] = @ \cup {r.before, r.after}]
  /\ refused' = [refused EXCEPT ![b] = @ \/ Cardinality(blobs'[b]) > MaxBlobs]
  /\ UNCHANGED <<phase, target, published>>

WriteBegins(b, d) ==
  /\ phase[b] = "open"
  /\ d \notin there
  /\ phase' = [phase EXCEPT ![b] = "writing"]
  /\ target' = [target EXCEPT ![b] = d]
  /\ UNCHANGED <<records, blobs, refused, published>>

(* manifest compares the sum of all bytes only.  rename replaces no         *)
(* directory that has files.                                                *)
Rename(b) ==
  LET d == target[b] IN
  /\ phase[b] = "writing"
  /\ Cardinality(blobs[b]) <= MaxBlobs + Spare
  /\ d \notin there
  /\ there' = there \cup {d}
  /\ kept' = [kept EXCEPT ![d] = records[b]]
  /\ stored' = [stored EXCEPT ![d] = blobs[b]]
  /\ whole' = [whole EXCEPT ![d] = ~refused[b]]
  /\ phase' = [phase EXCEPT ![b] = "open"]
  /\ UNCHANGED <<target, records, blobs, refused>>

(* The temporary directory is removed, and the builder is as it was.        *)
WriteFails(b) ==
  /\ phase[b] = "writing"
  /\ phase' = [phase EXCEPT ![b] = "open"]
  /\ UNCHANGED <<target, records, blobs, refused, published>>

(* The process ends, at any point: what it had in memory is gone.           *)
Killed(b) ==
  /\ phase[b] # "none"
  /\ phase' = [phase EXCEPT ![b] = "none"]
  /\ UNCHANGED <<target, records, blobs, refused, published>>

Step(b) ==
  \/ Open(b) \/ Rename(b) \/ WriteFails(b) \/ Killed(b)
  \/ \E d \in Directories : Resume(b, d) \/ WriteBegins(b, d)
  \/ \E r \in Records : Add(b, r)

BundleNext == \E b \in Builders : Step(b)

BundleSpec == BundleInit /\ [][BundleNext]_bundles

-----------------------------------------------------------------------------
(* A published segment has at most 128 transitions and 129 observation      *)
(* blobs, as the contract of the environment bounds it: what write has      *)
(* published, load_bundle takes.                                            *)
SegmentBounded ==
  \A d \in there : Len(kept[d]) <= MaxTransitions /\ Cardinality(stored[d]) <= MaxBlobs

(* What does hold: every directory has records that follow one another,     *)
(* each with its two observations and no others, and is bounded if no add   *)
(* of its builder was refused for the bytes.                                *)
PublishedWhole ==
  \A d \in there :
    /\ Len(kept[d]) <= MaxTransitions
    /\ Chained(kept[d])
    /\ stored[d] = Referenced(kept[d])
    /\ whole[d] => Cardinality(stored[d]) <= MaxBlobs

(* A segment of one episode needs no bound of its own: its records share    *)
(* their observations, and MaxTransitions of them have one more blob.       *)
OneEpisode(its) == \A i, j \in DOMAIN its : its[i].episode = its[j].episode
EpisodesAreBounded ==
  \A d \in there : OneEpisode(kept[d]) => Cardinality(stored[d]) <= MaxTransitions + 1

(* A directory that exists is never written again.                          *)
NeverOverwritten ==
  [][\A d \in there : d \in there' /\ kept'[d] = kept[d] /\ stored'[d] = stored[d]]_bundles
=============================================================================
