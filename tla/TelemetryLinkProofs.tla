------------------------ MODULE TelemetryLinkProofs -------------------------
(***************************************************************************)
(* How far a sequence number of limited width identifies a cycle: while    *)
(* the bus never swallows as many cycles in a row as there are sequence    *)
(* numbers, each restart of the controller can tear a snapshot once more,  *)
(* and nothing else can, and the counters of the assembler are exact until *)
(* the first restart or repeated frame.                                    *)
(***************************************************************************)
EXTENDS TelemetryLink, FiniteSetTheorems, TLAPS

NumbersTell == MaxLag < TelemetrySeqMod

LEMMA SeqMagnitudes ==
  /\ TelemetrySeqMod \in Nat /\ TelemetrySeqMod > 0
  /\ MaxLag \in Nat /\ MaxLag > 0
  /\ Len(Order) \in Nat /\ Len(Order) > 0
  /\ \A k \in 1 .. Len(Order) : Order[k] \in TelemIds
  /\ None \notin Nat
<1>1. Order \in Seq(TelemIds) /\ Order # <<>>
  BY LinkAssumption
<1>2. /\ Len(Order) \in Nat /\ Len(Order) > 0
      /\ \A k \in 1 .. Len(Order) : Order[k] \in TelemIds
  BY <1>1
<1>. QED
  BY <1>2, LinkAssumption

(***************************************************************************)
(* Types                                                                   *)
(***************************************************************************)

(* A frame that arrives is added to the collection.                        *)
LEMMA FeedTypes ==
  ASSUME TypeOK, NEW id \in TelemIds, Feed(id, telemetry_seq_, cycle)
  PROVE  /\ DOMAIN partial' \subseteq TelemIds
         /\ \A i \in DOMAIN partial' : partial'[i] \in Nat
         /\ partial_seq' \in 0 .. TelemetrySeqMod - 1 \cup {None}
         /\ snapshot' = None \/ snapshot' \in [TelemIds -> Nat]
         /\ snapshot_seq' \in 0 .. TelemetrySeqMod - 1 \cup {None}
         /\ complete_count' \in Nat
         /\ torn_count' \in Nat
<1> DEFINE kept == IF Fresh(telemetry_seq_) THEN Empty ELSE partial
           p == [i \in DOMAIN kept \cup {id} |->
                   IF i = id THEN cycle ELSE kept[i]]
<1>1. /\ partial' = p /\ partial_seq' = telemetry_seq_
      /\ snapshot' = IF IsFull(p) THEN p ELSE snapshot
      /\ snapshot_seq' = IF IsFull(p) THEN telemetry_seq_ ELSE snapshot_seq
      /\ complete_count' = IF IsFull(p) THEN complete_count + 1
                                        ELSE complete_count
      /\ torn_count' = IF Torn(telemetry_seq_) THEN torn_count + 1
                                               ELSE torn_count
  BY DEF Feed
<1>2. DOMAIN kept \subseteq TelemIds /\ \A i \in DOMAIN kept : kept[i] \in Nat
  BY DEF Empty, TypeOK
<1> HIDE DEF kept
<1>3. /\ DOMAIN p \subseteq TelemIds /\ \A i \in DOMAIN p : p[i] \in Nat
      /\ IsFull(p) => p \in [TelemIds -> Nat]
  BY <1>2 DEF TypeOK, IsFull
<1> HIDE DEF p
<1>. QED
  BY <1>1, <1>3 DEF TypeOK

(* The state is well typed, whatever the constants.                        *)
THEOREM TelemetryTypeCorrect == Spec => []TypeOK
<1>1. Init => TypeOK
  BY SeqMagnitudes DEF Init, BootAssembler, Empty, TypeOK
<1>2. TypeOK /\ [Next]_vars => TypeOK'
  <2> SUFFICES ASSUME TypeOK, [Next]_vars PROVE TypeOK'
    OBVIOUS
  <2>1. CASE StartCycle
    BY <2>1, SeqMagnitudes DEF StartCycle, CloseCycle, assemblerVars, TypeOK
  <2>2. CASE Deliver
    <3>1. stage' = stage + 1 /\ stage' \in 1 .. Len(Order)
      BY <2>2, SeqMagnitudes DEF Deliver, AtRest, TypeOK
    <3>2. PICK id \in TelemIds : id = Order[stage']
      BY <3>1, SeqMagnitudes
    <3>3. Feed(id, telemetry_seq_, cycle) /\ got' = got \cup {id} /\ lag' = 0
          /\ UNCHANGED <<telemetry_seq_, cycle, complete, broken, repeats, restarts>>
      BY <2>2, <3>2 DEF Deliver
    <3>. QED
      BY <3>1, <3>3, FeedTypes DEF TypeOK
  <2>3. CASE Lose
    BY <2>3, SeqMagnitudes
       DEF Lose, FeedRefused, AtRest, assemblerVars, arrivalVars, TypeOK
  <2>4. CASE Repeat
    <3>1. stage \in 1 .. Len(Order)
      BY <2>4, SeqMagnitudes DEF Repeat, TypeOK
    <3>2. PICK id \in TelemIds : id = Order[stage]
      BY <3>1, SeqMagnitudes
    <3>3. Feed(id, telemetry_seq_, cycle) /\ repeats' = repeats + 1
          /\ UNCHANGED <<senderVars, arrivalVars, lag>>
      BY <2>4, <3>2 DEF Repeat
    <3>. QED
      BY <3>3, FeedTypes DEF senderVars, arrivalVars, TypeOK
  <2>5. CASE Restart
    BY <2>5, SeqMagnitudes DEF Restart, CloseCycle, assemblerVars, TypeOK
  <2>6. CASE UNCHANGED vars
    BY <2>6 DEF vars, assemblerVars, senderVars, arrivalVars, TypeOK
  <2>. QED
    BY <2>1, <2>2, <2>3, <2>4, <2>5, <2>6 DEF Next, Ended
<1>. QED
  BY <1>1, <1>2, PTL DEF Spec

(***************************************************************************)
(* Coherence                                                               *)
(***************************************************************************)

(* The sequence number k cycles after s.                                   *)
Ahead(s, k) ==
  IF s + k < TelemetrySeqMod THEN s + k ELSE s + k - TelemetrySeqMod

(* The cycles the collected frames were measured in.                       *)
Cycles == {partial[i] : i \in DOMAIN partial}

(* Some were collected since the last restart: all of these are of the     *)
(* cycle lag cycles ago, and the number tells, or ...                      *)
FromThisUptime ==
  /\ partial_seq # None
  /\ telemetry_seq_ = Ahead(partial_seq, lag)
  /\ lag <= MaxLag /\ (AtRest => lag < MaxLag)
  /\ Cardinality(Cycles \ {cycle - lag}) <= restarts

(* ... all are from earlier uptimes.                                       *)
FromEarlier == Cardinality(Cycles) <= restarts

(* The cycles the snapshot was measured in.                                *)
Published == {snapshot[i] : i \in TelemIds}

TornInv ==
  /\ restarts <= MaxRestarts
  /\ IsFiniteSet(Cycles)
  /\ FromThisUptime \/ FromEarlier
  /\ got # {} => FromThisUptime /\ lag = 0
  /\ snapshot # None =>
       /\ IsFiniteSet(Published)
       /\ Cardinality(Published) <= restarts + 1

LEMMA CountOfMore ==
  ASSUME NEW S, IsFiniteSet(S), NEW c, NEW n \in Nat,
         Cardinality(S \ {c}) <= n, NEW T, T \subseteq S \cup {c}
  PROVE  /\ IsFiniteSet(T)
         /\ Cardinality(T \ {c}) <= n
         /\ Cardinality(T) <= n + 1
<1> DEFINE R == S \ {c}
<1>1. IsFiniteSet(R) /\ Cardinality(R) \in Nat
  BY FS_RemoveElement, FS_CardinalityType
<1>2. T \ {c} \in SUBSET R /\ T \in SUBSET (R \cup {c})
  OBVIOUS
<1>3. Cardinality(R) <= n
  OBVIOUS
<1> HIDE DEF R
<1>4. IsFiniteSet(T \ {c}) /\ Cardinality(T \ {c}) <= Cardinality(R)
  BY <1>1, <1>2, FS_Subset
<1>5. /\ IsFiniteSet(R \cup {c}) /\ Cardinality(R \cup {c}) \in Nat
      /\ Cardinality(R \cup {c}) <= Cardinality(R) + 1
  <2>1. /\ IsFiniteSet(R \cup {c})
        /\ Cardinality(R \cup {c})
             = IF c \in R THEN Cardinality(R) ELSE Cardinality(R) + 1
    BY <1>1, FS_AddElement, Zenon
  <2>. QED
    BY <1>1, <2>1
<1>6. IsFiniteSet(T) /\ Cardinality(T) <= Cardinality(R \cup {c})
  BY <1>2, <1>5, FS_Subset
<1>7. Cardinality(T) \in Nat /\ Cardinality(T \ {c}) \in Nat
  BY <1>4, <1>6, FS_CardinalityType
<1>. QED
  BY <1>1, <1>3, <1>4, <1>5, <1>6, <1>7

LEMMA TornStarts == ASSUME Init PROVE TornInv
<1>1. partial = Empty /\ restarts = 0 /\ got = {} /\ snapshot = None
  BY DEF Init, BootAssembler
<1>2. Cycles = {}
  BY <1>1 DEF Cycles, Empty
<1>3. 0 <= MaxRestarts
  BY LinkAssumption
<1>. QED
  BY <1>1, <1>2, <1>3, FS_EmptySet DEF TornInv, FromEarlier, Published

(* Of the frames collected under the number of the current cycle those of  *)
(* this uptime are of the current cycle.                                   *)
LEMMA SameNumberSameCycle ==
  ASSUME NumbersTell, TypeOK, TornInv, ~Fresh(telemetry_seq_)
  PROVE  Cardinality(Cycles \ {cycle}) <= restarts
<1>1. partial_seq # None /\ telemetry_seq_ = partial_seq
  BY DEF Fresh
<1>2. /\ partial_seq \in 0 .. TelemetrySeqMod - 1 /\ lag \in Nat /\ cycle \in Nat
      /\ restarts \in Nat /\ IsFiniteSet(Cycles)
  BY <1>1, SeqMagnitudes DEF TypeOK, TornInv
<1>3. CASE FromThisUptime
  <2>1. partial_seq = Ahead(partial_seq, lag)
    BY <1>1, <1>3, Zenon DEF FromThisUptime
  <2>2. lag < TelemetrySeqMod
    BY <1>2, <1>3, SeqMagnitudes DEF FromThisUptime, NumbersTell
  <2>3. cycle - lag = cycle
    BY <1>2, <2>1, <2>2, SeqMagnitudes DEF Ahead
  <2>. QED
    BY <1>3, <2>3 DEF FromThisUptime
<1>4. CASE FromEarlier
  <2>1. Cardinality(Cycles) \in Nat /\ Cardinality(Cycles \ {cycle}) \in Nat
        /\ Cardinality(Cycles \ {cycle}) <= Cardinality(Cycles)
    <3>1. Cycles \ {cycle} \in SUBSET Cycles
      OBVIOUS
    <3>. QED
      BY <1>2, <3>1, FS_Subset, FS_CardinalityType
  <2>. QED
    BY <1>2, <1>4, <2>1 DEF FromEarlier
<1>. QED
  BY <1>3, <1>4 DEF TornInv

(* A frame that arrives adds its cycle and no other.                       *)
LEMMA TornFeed ==
  ASSUME NumbersTell, TypeOK, TornInv, NEW id \in TelemIds,
         Feed(id, telemetry_seq_, cycle), lag' = 0,
         UNCHANGED <<telemetry_seq_, cycle, restarts>>
  PROVE  TornInv'
<1> DEFINE kept == IF Fresh(telemetry_seq_) THEN Empty ELSE partial
           before == IF Fresh(telemetry_seq_) THEN {} ELSE Cycles
           p == [i \in DOMAIN kept \cup {id} |->
                   IF i = id THEN cycle ELSE kept[i]]
<1>1. /\ partial' = p /\ partial_seq' = telemetry_seq_
      /\ snapshot' = IF IsFull(p) THEN p ELSE snapshot
  BY DEF Feed
<1>2. /\ telemetry_seq_ \in 0 .. TelemetrySeqMod - 1 /\ cycle \in Nat
      /\ restarts \in Nat /\ MaxLag \in Nat /\ MaxLag > 0
      /\ TelemetrySeqMod \in Nat /\ telemetry_seq_ # None
  BY SeqMagnitudes DEF TypeOK
<1>3. IsFiniteSet(before) /\ Cardinality(before \ {cycle}) <= restarts
  <2>1. CASE Fresh(telemetry_seq_)
    <3>1. before = {} /\ before \ {cycle} = {}
      BY <2>1
    <3>. QED
      BY <1>2, <3>1, FS_EmptySet
  <2>2. CASE ~Fresh(telemetry_seq_)
    BY <2>2, SameNumberSameCycle DEF TornInv
  <2>. QED
    BY <2>1, <2>2
<1>4. Cycles' \subseteq before \cup {cycle}
  <2>1. \A i \in DOMAIN kept : kept[i] \in before
    BY DEF Empty, Cycles
  <2> HIDE DEF kept, before
  <2>2. Cycles' = {p[i] : i \in DOMAIN p}
    BY <1>1 DEF Cycles
  <2>. QED
    BY <2>1, <2>2
<1> HIDE DEF before
<1>5. /\ IsFiniteSet(Cycles') /\ Cardinality(Cycles' \ {cycle}) <= restarts
      /\ Cardinality(Cycles') <= restarts + 1
  BY <1>2, <1>3, <1>4, CountOfMore
<1>6. FromThisUptime'
  <2>1. telemetry_seq_' = Ahead(partial_seq', 0) /\ partial_seq' # None
    BY <1>1, <1>2 DEF Ahead
  <2>2. cycle' - lag' = cycle
    BY <1>2
  <2>3. Cardinality(Cycles' \ {cycle' - lag'}) <= restarts'
    BY <1>5, <2>2
  <2>. QED
    BY <1>2, <2>1, <2>3 DEF FromThisUptime, Ahead
<1>7. snapshot' # None =>
        IsFiniteSet(Published') /\ Cardinality(Published') <= restarts' + 1
  <2>1. CASE IsFull(p)
    <3>1. snapshot' = partial' /\ DOMAIN partial' = TelemIds
      BY <1>1, <2>1 DEF IsFull
    <3>2. Published' = Cycles'
      BY <3>1 DEF Cycles, Published
    <3>. QED
      BY <1>5, <3>2
  <2>2. CASE ~IsFull(p)
    BY <1>1, <2>2 DEF TornInv, Published
  <2>. QED
    BY <2>1, <2>2
<1>. QED
  BY <1>5, <1>6, <1>7 DEF TornInv

(* A new cycle moves the numbers and the lag on together.                  *)
LEMMA TornStartCycle ==
  ASSUME NumbersTell, TypeOK, TornInv, StartCycle PROVE TornInv'
<1>1. /\ AtRest /\ stage' = 0 /\ cycle' = cycle + 1 /\ got' = {}
      /\ telemetry_seq_' = IF telemetry_seq_ = TelemetrySeqMod - 1
                             THEN 0 ELSE telemetry_seq_ + 1
      /\ lag' = IF partial_seq = None THEN 0 ELSE lag + 1
      /\ UNCHANGED <<partial, partial_seq, snapshot, restarts>>
  BY DEF StartCycle, CloseCycle, assemblerVars
<1>2. /\ telemetry_seq_ \in 0 .. TelemetrySeqMod - 1
      /\ partial_seq \in 0 .. TelemetrySeqMod - 1 \cup {None}
      /\ cycle \in Nat /\ lag \in Nat /\ MaxLag \in Nat
      /\ TelemetrySeqMod \in Nat
  BY SeqMagnitudes DEF TypeOK
<1>3. Cycles' = Cycles
  BY <1>1 DEF Cycles
<1>4. ASSUME FromThisUptime PROVE FromThisUptime'
  <2>1. /\ partial_seq # None /\ lag' = lag + 1 /\ lag < MaxLag
        /\ telemetry_seq_ = Ahead(partial_seq, lag)
    BY <1>1, <1>4 DEF FromThisUptime
  <2>2. telemetry_seq_' = Ahead(partial_seq, lag + 1)
    BY <1>1, <1>2, <2>1 DEF Ahead, NumbersTell
  <2>3. cycle' - lag' = cycle - lag
    BY <1>1, <1>2, <2>1
  <2>4. lag' <= MaxLag /\ ~AtRest'
    BY <1>1, <1>2, <2>1, SeqMagnitudes DEF AtRest
  <2>5. telemetry_seq_' = Ahead(partial_seq', lag')
    BY <1>1, <2>1, <2>2
  <2>6. Cardinality(Cycles' \ {cycle' - lag'}) <= restarts'
    BY <1>1, <1>3, <1>4, <2>3 DEF FromThisUptime
  <2>7. partial_seq' # None
    BY <1>1, <2>1
  <2>. QED
    BY <2>4, <2>5, <2>6, <2>7 DEF FromThisUptime, Ahead
<1>5. FromEarlier => FromEarlier'
  BY <1>1, <1>3 DEF FromEarlier
<1>. QED
  BY <1>1, <1>3, <1>4, <1>5 DEF TornInv, Published

(* A lost frame changes nothing the assembler knows.                       *)
LEMMA TornLose == ASSUME TypeOK, TornInv, Lose PROVE TornInv'
<1>1. /\ ~AtRest
      /\ lag < MaxLag \/ stage + 1 < Len(Order)
      /\ stage' = stage + 1
      /\ UNCHANGED <<partial, partial_seq, snapshot, telemetry_seq_, cycle, got,
                     lag, restarts>>
  BY DEF Lose, FeedRefused, assemblerVars, arrivalVars
<1>2. Cycles' = Cycles
  BY <1>1 DEF Cycles
<1>3. AtRest' => lag < MaxLag
  BY <1>1, SeqMagnitudes DEF AtRest, TypeOK
<1>4. FromThisUptime => FromThisUptime'
  BY <1>1, <1>2, <1>3 DEF FromThisUptime, Ahead
<1>. QED
  BY <1>1, <1>2, <1>4 DEF TornInv, FromEarlier, Published

(* With a restart what was collected is of an earlier uptime.              *)
LEMMA TornRestart == ASSUME TypeOK, TornInv, Restart PROVE TornInv'
<1>1. /\ restarts' = restarts + 1 /\ restarts < MaxRestarts /\ got' = {}
      /\ UNCHANGED <<partial, snapshot>>
  BY DEF Restart, CloseCycle, assemblerVars
<1>2. Cycles' = Cycles /\ restarts \in Nat /\ MaxRestarts \in Nat
      /\ IsFiniteSet(Cycles)
  BY <1>1, LinkAssumption DEF Cycles, TypeOK, TornInv
<1>3. Cardinality(Cycles) <= restarts + 1
  <2>1. CASE FromThisUptime
    <3>1. Cycles \subseteq Cycles \cup {cycle - lag}
      OBVIOUS
    <3>. QED
      BY <1>2, <2>1, <3>1, CountOfMore DEF FromThisUptime
  <2>2. CASE FromEarlier
    BY <1>2, <2>2, FS_CardinalityType DEF FromEarlier
  <2>. QED
    BY <2>1, <2>2 DEF TornInv
<1>4. snapshot # None =>
        IsFiniteSet(Published) /\ Cardinality(Published) <= (restarts + 1) + 1
  <2> SUFFICES ASSUME snapshot # None
               PROVE  /\ IsFiniteSet(Published)
                      /\ Cardinality(Published) <= (restarts + 1) + 1
    OBVIOUS
  <2>1. IsFiniteSet(Published) /\ Cardinality(Published) <= restarts + 1
    BY DEF TornInv
  <2>2. Cardinality(Published) \in Nat
    BY <2>1, FS_CardinalityType
  <2>. QED
    BY <1>2, <2>1, <2>2
<1>5. FromEarlier'
  BY <1>1, <1>2, <1>3 DEF FromEarlier
<1>. QED
  BY <1>1, <1>2, <1>4, <1>5 DEF TornInv, Published

(* A frame comes twice only after it came once in this cycle.              *)
LEMMA TornRepeat == ASSUME NumbersTell, TypeOK, TornInv, Repeat PROVE TornInv'
<1>1. /\ stage \in 1 .. Len(Order) /\ got # {}
      /\ Feed(Order[stage], telemetry_seq_, cycle)
      /\ UNCHANGED <<telemetry_seq_, cycle, restarts, lag>>
  BY SeqMagnitudes DEF Repeat, senderVars, TypeOK
<1>2. lag' = 0 /\ Order[stage] \in TelemIds
  BY <1>1, SeqMagnitudes DEF TornInv
<1>. QED
  BY <1>1, <1>2, TornFeed

LEMMA TornDeliver == ASSUME NumbersTell, TypeOK, TornInv, Deliver PROVE TornInv'
<1>1. /\ stage' = stage + 1 /\ stage' \in 1 .. Len(Order)
      /\ Feed(Order[stage'], telemetry_seq_, cycle) /\ lag' = 0
      /\ UNCHANGED <<telemetry_seq_, cycle, restarts>>
  BY SeqMagnitudes DEF Deliver, AtRest, TypeOK
<1>2. Order[stage'] \in TelemIds
  BY <1>1, SeqMagnitudes
<1>. QED
  BY <1>1, <1>2, TornFeed

LEMMA TornInvariant == ASSUME NumbersTell PROVE Spec => []TornInv
<1>1. TypeOK /\ TornInv /\ [Next]_vars => TornInv'
  <2> SUFFICES ASSUME TypeOK, TornInv, [Next]_vars PROVE TornInv'
    OBVIOUS
  <2>1. CASE UNCHANGED vars
    BY <2>1 DEF vars, assemblerVars, senderVars, arrivalVars, TornInv, Cycles,
       FromThisUptime, FromEarlier, Published, AtRest, Ahead
  <2>2. Ended => UNCHANGED vars
    BY DEF Ended
  <2>. QED
    BY <2>1, <2>2, TornStartCycle, TornDeliver, TornLose, TornRepeat,
       TornRestart DEF Next
<1>. QED
  BY <1>1, TornStarts, TelemetryTypeCorrect, PTL DEF Spec

(* A snapshot mixes at most one cycle more than the controller restarted,  *)
(* for every width of the sequence number, every order and number of       *)
(* frames and however many cycles, repeats and restarts, while fewer       *)
(* cycles in a row are lost whole than there are sequence numbers.         *)
THEOREM RestartsTearOnceEach ==
  ASSUME NumbersTell PROVE Spec => []TornOncePerRestart
<1>1. TornInv => TornOncePerRestart
  BY DEF TornInv, Published, TornOncePerRestart
<1>. QED
  BY <1>1, TornInvariant, PTL

(* So while the controller stays up every snapshot is of one cycle.        *)
THEOREM SnapshotsAreOfOneCycle ==
  ASSUME NumbersTell, MaxRestarts = 0 PROVE Spec => []SnapshotsAreCoherent
<1>1. TypeOK /\ TornInv => SnapshotsAreCoherent
  <2> SUFFICES ASSUME TypeOK, TornInv, snapshot # None,
                      NEW i \in TelemIds, NEW j \in TelemIds
               PROVE  snapshot[i] = snapshot[j]
    BY DEF SnapshotsAreCoherent
  <2>1. restarts = 0 /\ IsFiniteSet(Published) /\ Cardinality(Published) <= 1
    <3>1. restarts = 0
      BY DEF TypeOK, TornInv
    <3>. QED
      BY <3>1 DEF TornInv
  <2>2. snapshot[i] \in Published /\ snapshot[j] \in Published
    BY DEF Published
  <2>3. Cardinality(Published) = 1
    <3>1. Cardinality(Published) \in Nat /\ Cardinality(Published) # 0
      BY <2>1, <2>2, FS_CardinalityType, FS_EmptySet
    <3>. QED
      BY <2>1, <3>1
  <2>4. PICK c : Published = {c}
    BY <2>1, <2>3, FS_Singleton
  <2>. QED
    BY <2>2, <2>4
<1>. QED
  BY <1>1, TelemetryTypeCorrect, TornInvariant, PTL

(***************************************************************************)
(* Counters                                                                *)
(***************************************************************************)

(* Until the first restart or repeated frame the collection holds what has *)
(* arrived of the current cycle, or of the last one of which anything has. *)
NothingLeftOut ==
  /\ got = {} /\ partial_seq # None => lag > 0
  /\ got # {} => DOMAIN partial = got
Undisturbed == repeats = 0 /\ restarts = 0

CountInv ==
  /\ partial_seq # None => DOMAIN partial # {}
  /\ partial_seq = None => partial = Empty
  /\ got \subseteq {Order[k] : k \in 1 .. stage}
  /\ Undisturbed => NothingLeftOut
  /\ CountsAreExact

LEMMA CountStarts == ASSUME Init PROVE CountInv
<1>1. /\ partial = Empty /\ partial_seq = None /\ got = {}
      /\ complete = 0 /\ broken = 0 /\ complete_count = 0 /\ torn_count = 0
  BY DEF Init, BootAssembler
<1>2. TelemIds # {}
  BY AssemblerAssumption
<1>3. NothingLeftOut /\ CountsAreExact
  BY <1>1, <1>2 DEF NothingLeftOut, CountsAreExact
<1>. QED
  BY <1>1, <1>3 DEF CountInv

(* Before the first frame of a cycle the collection is of an older one.    *)
LEMMA FirstIsFresh ==
  ASSUME NumbersTell, TypeOK, TornInv, CountInv, Undisturbed
  PROVE  Fresh(telemetry_seq_) <=> got = {}
<1>1. /\ TelemetrySeqMod \in Nat /\ MaxLag \in Nat /\ lag \in Nat
      /\ telemetry_seq_ \in 0 .. TelemetrySeqMod - 1 /\ restarts = 0
  BY SeqMagnitudes DEF TypeOK, Undisturbed
<1>2. ASSUME got = {}, partial_seq # None PROVE telemetry_seq_ # partial_seq
  <2>1. lag > 0
    BY <1>2 DEF CountInv, NothingLeftOut
  <2>2. ~FromEarlier
    <3>1. Cycles # {} /\ IsFiniteSet(Cycles)
      BY <1>2 DEF CountInv, TornInv, Cycles
    <3>2. Cardinality(Cycles) # 0 /\ Cardinality(Cycles) \in Nat
      BY <3>1, FS_EmptySet, FS_CardinalityType
    <3>. QED
      BY <1>1, <3>2 DEF FromEarlier
  <2>3. /\ telemetry_seq_ = Ahead(partial_seq, lag) /\ lag < TelemetrySeqMod
        /\ partial_seq \in 0 .. TelemetrySeqMod - 1
    BY <1>1, <1>2, <2>2 DEF TornInv, FromThisUptime, NumbersTell, TypeOK
  <2>. QED
    BY <1>1, <2>1, <2>3 DEF Ahead
<1>3. ASSUME got # {} PROVE partial_seq # None /\ telemetry_seq_ = partial_seq
  <2>1. /\ partial_seq # None /\ lag = 0 /\ telemetry_seq_ = Ahead(partial_seq, lag)
        /\ partial_seq \in 0 .. TelemetrySeqMod - 1
    BY <1>3 DEF TornInv, FromThisUptime, TypeOK
  <2>. QED
    BY <1>1, <2>1 DEF Ahead
<1>. QED
  BY <1>2, <1>3 DEF Fresh

(* A cycle that ends incomplete is one the next frame will count torn.     *)
LEMMA CountStartCycle ==
  ASSUME TypeOK, TornInv, CountInv, StartCycle PROVE CountInv'
<1>1. /\ lag' = IF partial_seq = None THEN 0 ELSE lag + 1
      /\ complete' = IF got = TelemIds THEN complete + 1 ELSE complete
      /\ broken' = IF got \notin {{}, TelemIds} THEN broken + 1 ELSE broken
      /\ got' = {}
      /\ UNCHANGED <<partial, partial_seq, complete_count, torn_count, repeats,
                     restarts>>
  BY DEF StartCycle, CloseCycle, assemblerVars
<1>2. lag \in Nat /\ complete \in Nat /\ broken \in Nat
      /\ complete_count \in Nat /\ torn_count \in Nat
  BY DEF TypeOK
<1>3. TelemIds # {}
  BY AssemblerAssumption
<1>4. ASSUME Undisturbed PROVE NothingLeftOut' /\ CountsAreExact'
  <2>1. NothingLeftOut'
    BY <1>1, <1>2 DEF NothingLeftOut
  <2>2. /\ complete_count = complete + (IF got = TelemIds THEN 1 ELSE 0)
        /\ torn_count + (IF partial # Empty /\ ~IsFull(partial) /\ got = {}
                           THEN 1 ELSE 0) = broken
    BY <1>4 DEF CountInv, CountsAreExact, Undisturbed
  <2>3. complete_count' = complete' + (IF got' = TelemIds THEN 1 ELSE 0)
    BY <1>1, <1>2, <1>3, <2>2
  <2>4. CASE got = {}
    BY <1>1, <1>2, <2>2, <2>3, <2>1, <2>4 DEF CountsAreExact, IsFull
  <2>5. CASE got # {}
    <3>1. DOMAIN partial = got
      BY <1>4, <2>5 DEF CountInv, NothingLeftOut
    <3>2. partial # Empty /\ (IsFull(partial) <=> got = TelemIds)
      BY <2>5, <3>1 DEF IsFull, Empty
    <3>3. torn_count = broken
      BY <1>2, <2>2, <2>5
    <3>. QED
      BY <1>1, <1>2, <2>1, <2>3, <2>5, <3>2, <3>3 DEF CountsAreExact, IsFull, Empty
  <2>. QED
    BY <2>4, <2>5
<1>5. Undisturbed' => Undisturbed
  BY <1>1 DEF Undisturbed
<1>. QED
  BY <1>1, <1>4, <1>5 DEF CountInv, CountsAreExact, Undisturbed

(* The first frame of a cycle settles the cycle before, the last its own.  *)
LEMMA CountDeliver ==
  ASSUME NumbersTell, TypeOK, TornInv, CountInv, Deliver PROVE CountInv'
<1> DEFINE id == Order[stage + 1]
           kept == IF Fresh(telemetry_seq_) THEN Empty ELSE partial
           p == [i \in DOMAIN kept \cup {id} |->
                   IF i = id THEN cycle ELSE kept[i]]
<1>1. /\ stage' = stage + 1 /\ stage \in Nat /\ stage + 1 \in 1 .. Len(Order)
      /\ Feed(id, telemetry_seq_, cycle)
      /\ got' = got \cup {id}
      /\ UNCHANGED <<telemetry_seq_, complete, broken, repeats, restarts>>
  BY SeqMagnitudes DEF Deliver, AtRest, TypeOK
<1>2. /\ partial' = p /\ partial_seq' = telemetry_seq_
      /\ complete_count' = IF IsFull(p) THEN complete_count + 1
                                        ELSE complete_count
      /\ torn_count' = IF Torn(telemetry_seq_) THEN torn_count + 1
                                               ELSE torn_count
  BY <1>1 DEF Feed
<1>3. id \in TelemIds /\ telemetry_seq_ # None
  BY <1>1, SeqMagnitudes DEF TypeOK
<1>4. got' \subseteq {Order[k] : k \in 1 .. stage'}
  <2>1. \A k \in 1 .. stage : k \in 1 .. stage'
    BY <1>1
  <2>2. stage + 1 \in 1 .. stage'
    BY <1>1
  <2>. QED
    BY <1>1, <2>1, <2>2 DEF CountInv
<1>5. id \notin got
  <2>1. \A k \in 1 .. stage : Order[k] # id
    <3>1. DOMAIN Order = 1 .. Len(Order)
      BY LinkAssumption
    <3>2. \A k \in 1 .. stage : k \in 1 .. Len(Order) /\ k # stage + 1
      BY <1>1, SeqMagnitudes
    <3>. QED
      BY <1>1, <3>1, <3>2, LinkAssumption
  <2>. QED
    BY <2>1 DEF CountInv
<1> HIDE DEF id
<1>6. DOMAIN p = DOMAIN kept \cup {id} /\ DOMAIN p # {}
  OBVIOUS
<1>7. ASSUME Undisturbed PROVE NothingLeftOut' /\ CountsAreExact'
  <2>1. DOMAIN kept = got
    <3>1. CASE got = {}
      BY <1>7, <3>1, FirstIsFresh DEF Empty
    <3>2. CASE got # {}
      BY <1>7, <3>2, FirstIsFresh DEF CountInv, NothingLeftOut
    <3>. QED
      BY <3>1, <3>2
  <2>2. DOMAIN p = got' /\ got' # {}
    BY <1>1, <1>6, <2>1
  <2>3. /\ complete_count = complete + (IF got = TelemIds THEN 1 ELSE 0)
        /\ torn_count + (IF partial # Empty /\ ~IsFull(partial) /\ got = {}
                           THEN 1 ELSE 0) = broken
    BY <1>7 DEF CountInv, CountsAreExact, Undisturbed
  <2>4. got # TelemIds /\ (IsFull(p) <=> got' = TelemIds)
    BY <1>3, <1>5, <2>2 DEF IsFull
  <2>5. Torn(telemetry_seq_) <=> partial # Empty /\ ~IsFull(partial) /\ got = {}
    <3>1. partial # Empty <=> partial_seq # None
      BY DEF CountInv, Empty
    <3>. QED
      BY <1>7, <3>1, FirstIsFresh DEF Torn
  <2> HIDE DEF p
  <2>6. complete \in Nat /\ broken \in Nat
        /\ complete_count \in Nat /\ torn_count \in Nat
    BY DEF TypeOK
  <2>7. complete_count' = complete' + (IF got' = TelemIds THEN 1 ELSE 0)
    BY <1>1, <1>2, <2>3, <2>4, <2>6
  <2>8. torn_count' = broken'
    BY <1>1, <1>2, <2>3, <2>5, <2>6
  <2>9. NothingLeftOut'
    BY <1>2, <2>2 DEF NothingLeftOut
  <2>. QED
    BY <1>1, <2>2, <2>6, <2>7, <2>8, <2>9 DEF CountsAreExact
<1> HIDE DEF p
<1>8. Undisturbed' => Undisturbed
  BY <1>1 DEF Undisturbed
<1>. QED
  BY <1>2, <1>3, <1>4, <1>6, <1>7, <1>8 DEF CountInv, CountsAreExact, Undisturbed

LEMMA CountLose == ASSUME TypeOK, CountInv, Lose PROVE CountInv'
<1>1. /\ stage' = stage + 1 /\ stage \in Nat
      /\ UNCHANGED <<partial, partial_seq, complete_count, torn_count, got,
                     complete, broken, lag, repeats, restarts>>
  BY SeqMagnitudes DEF Lose, FeedRefused, assemblerVars, arrivalVars, TypeOK
<1>2. \A k \in 1 .. stage : k \in 1 .. stage'
  BY <1>1
<1>3. got' \subseteq {Order[k] : k \in 1 .. stage'}
  BY <1>1, <1>2 DEF CountInv
<1>4. NothingLeftOut' = NothingLeftOut /\ CountsAreExact' = CountsAreExact
      /\ Undisturbed' = Undisturbed
  BY <1>1 DEF NothingLeftOut, CountsAreExact, Undisturbed, IsFull, Empty
<1>. QED
  BY <1>1, <1>3, <1>4 DEF CountInv

(* A repeat or a restart puts an end to exact counting.                    *)
LEMMA CountDisturbed ==
  ASSUME TypeOK, CountInv, Repeat \/ Restart PROVE CountInv'
<1>1. ~Undisturbed'
  BY DEF Repeat, Restart, Undisturbed, TypeOK
<1>2. CASE Repeat
  <2>1. /\ UNCHANGED <<stage, got>> /\ partial_seq' = telemetry_seq_
        /\ DOMAIN partial' # {}
    BY <1>2 DEF Repeat, senderVars, arrivalVars, Feed
  <2>2. telemetry_seq_ # None
    BY SeqMagnitudes DEF TypeOK
  <2>. QED
    BY <1>1, <2>1, <2>2 DEF CountInv, CountsAreExact, Undisturbed
<1>3. CASE Restart
  <2>1. got' = {} /\ UNCHANGED <<partial, partial_seq>>
    BY <1>3 DEF Restart, CloseCycle, assemblerVars
  <2>. QED
    BY <1>1, <2>1 DEF CountInv, CountsAreExact, Undisturbed, Empty
<1>. QED
  BY <1>2, <1>3

(* complete_count and torn_count are what happened on the bus, until the   *)
(* first restart or repeated frame, while fewer cycles in a row are lost   *)
(* whole than there are sequence numbers.                                  *)
THEOREM CountersTellTheTruth == ASSUME NumbersTell PROVE Spec => []CountsAreExact
<1>1. TypeOK /\ TornInv /\ CountInv /\ [Next]_vars => CountInv'
  <2> SUFFICES ASSUME TypeOK, TornInv, CountInv, [Next]_vars PROVE CountInv'
    OBVIOUS
  <2>1. CASE UNCHANGED vars
    BY <2>1 DEF vars, assemblerVars, senderVars, arrivalVars, CountInv,
       NothingLeftOut, Undisturbed, CountsAreExact, IsFull, Empty
  <2>2. Ended => UNCHANGED vars
    BY DEF Ended
  <2>. QED
    BY <2>1, <2>2, CountStartCycle, CountDeliver, CountLose, CountDisturbed
       DEF Next
<1>2. CountInv => CountsAreExact
  BY DEF CountInv
<1>. QED
  BY <1>1, <1>2, CountStarts, TelemetryTypeCorrect, TornInvariant, PTL DEF Spec
=============================================================================
