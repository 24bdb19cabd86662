---------------------------- MODULE RenameProofs -----------------------------
(***************************************************************************)
(* Register renaming is right: the create vectors, with their speculative   *)
(* copy, name the youngest writer of each register as long as its result is *)
(* awaited, the consumer lists hold every operand that waits, and so an     *)
(* operand waits exactly for the youngest older writer of its register.     *)
(* With it no panic() of the core is reached, an in-order machine dispatches *)
(* nothing behind an instruction that waits, and no RS_link is lost.        *)
(***************************************************************************)
EXTENDS FlowProofs

-----------------------------------------------------------------------------
(* The youngest of a set of instructions.                                  *)

Newest(e, W, w) == w \in W /\ \A v \in W : e[v].seq <= e[w].seq

\* c names the youngest of the writers W, unless that one is done.
Tracks(e, W, D, c) ==
  /\ c # None => Newest(e, W, c) /\ c \notin D
  /\ \A w \in W : Newest(e, W, w) /\ w \notin D => c = w

LEMMA TracksDone ==
  ASSUME NEW e, NEW W, NEW D, NEW c, NEW s, s # None, Tracks(e, W, D, c)
  PROVE  Tracks(e, W, D \cup {s}, IF c = s THEN None ELSE c)
BY DEF Tracks

\* The oldest writers leave, all done.
LEMMA TracksOldestLeave ==
  ASSUME NEW e, NEW W, NEW D, NEW c, NEW V, V \subseteq W, Tracks(e, W, D, c),
         \A w \in W \ V : w \in D /\ \A v \in V : e[w].seq < e[v].seq,
         \A w \in W : e[w].seq \in Nat
  PROVE  Tracks(e, V, D, c)
<1>1. ASSUME c # None PROVE Newest(e, V, c) /\ c \notin D
  BY <1>1 DEF Tracks, Newest
<1>2. ASSUME NEW w \in V, Newest(e, V, w), w \notin D PROVE c = w
  <2>1. ASSUME NEW v \in W PROVE e[v].seq <= e[w].seq
    <3>1. CASE v \in V
      BY <1>2, <3>1 DEF Newest
    <3>2. CASE v \notin V
      <4>1. e[v].seq < e[w].seq /\ e[v].seq \in Nat /\ e[w].seq \in Nat
        BY <3>2
      <4> QED BY <4>1
    <3> QED BY <3>1, <3>2
  <2>2. Newest(e, W, w)
    BY <2>1 DEF Newest
  <2> QED BY <1>2, <2>2 DEF Tracks
<1> QED BY <1>1, <1>2 DEF Tracks

LEMMA TracksSame ==
  ASSUME NEW e, NEW f, NEW W, NEW D, NEW E, NEW c, Tracks(e, W, D, c),
         \A w \in W : f[w] = e[w] /\ (w \in E <=> w \in D)
  PROVE  Tracks(f, W, E, c)
BY DEF Tracks, Newest

\* A younger writer joins.
LEMMA TracksNew ==
  ASSUME NEW f, NEW W, NEW D, NEW n, n \notin D,
         \A w \in W : f[w].seq <= f[n].seq /\ ~(f[n].seq <= f[w].seq),
         f[n].seq \in Nat
  PROVE  Tracks(f, W \cup {n}, D, n)
<1>1. Newest(f, W \cup {n}, n)
  BY DEF Newest
<1>2. ASSUME NEW w \in W \cup {n}, Newest(f, W \cup {n}, w) PROVE w = n
  BY <1>2 DEF Newest
<1> QED BY <1>1, <1>2 DEF Tracks

-----------------------------------------------------------------------------
(* The invariant.                                                          *)

\* The writers of a register in the window, on the right and on the wrong path.
RightWriters(r) == {w \in Live : ent[w].out = r /\ ~ent[w].spec}
WrongWriters(r) == {w \in Live : ent[w].out = r /\ ent[w].spec}

\* The operations whose completion the create vectors know of: a branch that
\* is being recovered is cleared from them only when the recovery ends.
Done == completed \ (IF stage = "recover" THEN {wb} ELSE {})

\* What is written back is in the window, and completed.
MidInv == MidWriteback => wb \in Live /\ wb \in completed

\* Only what still has a result to deliver has consumers.
ListInv ==
  \A s \in Station : odep_list[s] # <<>> =>
    /\ s \in Live /\ ent[s].out # NA
    /\ s \notin completed \/ (MidWriteback /\ s = wb)

\* The create vector names the youngest writer on the right path.
CvInv == \A r \in Reg : Tracks(ent, RightWriters(r), Done, create_vector[r])

\* The speculative create vector is in use for the registers that the wrong
\* path writes, and names its youngest writer.
SpecCvInv ==
  /\ use_spec_cv # {} => spec_mode
  /\ stage # "recover" => \A r \in Reg :
       /\ r \in use_spec_cv <=> WrongWriters(r) # {}
       /\ r \in use_spec_cv =>
            Tracks(ent, WrongWriters(r), Done, spec_create_vector[r])

\* A live link for operand k of s on the consumer list of p.
OnList(p, s, k) ==
  \E i \in ValidAt(tag, odep_list[p]) :
    odep_list[p][i].rs = s /\ odep_list[p][i].opnum = k

\* Who is on a list waits for the youngest older writer; who waits is on a
\* list; the youngest older writer of an operand that is ready has completed.
DepInv ==
  /\ \A p \in Station, s \in Live, k \in Operand :
       OnList(p, s, k) => Newest(ent, Writers(s, k), p)
  /\ \A s \in Live, k \in Operand :
       k \notin idep_ready[s] => \E p \in Station : OnList(p, s, k)
  /\ \A s \in Live, k \in Operand, p \in Live :
       k \in idep_ready[s] /\ Newest(ent, Writers(s, k), p) => p \in completed

RenameInv == MidInv /\ ListInv /\ CvInv /\ SpecCvInv /\ DepInv

LEMMA InitRename == Init => RenameInv
<1> SUFFICES ASSUME Init PROVE RenameInv
  OBVIOUS
<1>1. /\ stage = "commit" /\ use_spec_cv = {} /\ \A s \in Station : odep_list[s] = <<>>
      /\ \A r \in Reg : create_vector[r] = None
  BY DEF Init
<1>2. Live = {}
  BY DEF Init, Live, LiveRUU, LiveLSQ
<1>3. \A r \in Reg : RightWriters(r) = {} /\ WrongWriters(r) = {}
  BY <1>2 DEF RightWriters, WrongWriters
<1>4. CvInv
  BY <1>1, <1>3 DEF CvInv, Tracks
<1>5. MidInv /\ ListInv /\ SpecCvInv
  BY <1>1, <1>3 DEF MidInv, MidWriteback, ListInv, SpecCvInv
<1>6. DepInv
  BY <1>2 DEF DepInv
<1> QED BY <1>4, <1>5, <1>6 DEF RenameInv

-----------------------------------------------------------------------------
(* Program order across a misprediction.                                   *)

\* The wrong path is younger than the right one.
LEMMA WrongIsYounger ==
  ASSUME CoreInv, SpeculationInv, NEW w \in Live, NEW v \in Live,
         ~ent[w].spec, ent[v].spec
  PROVE  ent[w].seq < ent[v].seq
<1>1. PICK b \in LiveRUU : Open(b) /\ ent[b].seq < ent[v].seq
  BY DEF SpeculationInv, SpecInv
<1>2. ~(ent[b].seq < ent[w].seq)
  BY <1>1 DEF SpeculationInv, SpecInv
<1>3. ent[b].seq \in Nat /\ ent[v].seq \in Nat /\ ent[w].seq \in Nat
  BY LiveStations, EntryFields DEF CoreInv, FixInv, Live
<1> QED BY <1>1, <1>2, <1>3

\* What retires is on the right path and completed, what recovery squashes on
\* the wrong one.
LEMMA RetiredIsRight ==
  ASSUME CoreInv, SpeculationInv, Commit
  PROVE  \A s \in Retired : s \in Live /\ s \in completed /\ ~ent[s].spec
<1>1. stage = "commit" /\ RUU_num > 0 /\ Retired \subseteq completed
  BY DEF Commit, CanRetire, MemCanRetire, Retired
<1>2. Retired \subseteq Live
  BY <1>1, HeadIsOldest DEF CoreInv, SpeculationInv
<1>3. ASSUME NEW s \in Retired, ent[s].spec PROVE FALSE
  <2>1. PICK b \in LiveRUU : Open(b) /\ ent[b].seq < ent[s].seq
    BY <1>2, <1>3 DEF SpeculationInv, SpecInv
  <2>2. b \notin Retired /\ b \in Live
    BY <1>1, <2>1 DEF Open, Live
  <2>3. ent[s].seq < ent[b].seq
    BY <1>1, <2>2, HeadIsOldest DEF CoreInv, SpeculationInv
  <2>4. ent[b].seq \in Nat /\ ent[s].seq \in Nat
    BY <1>2, <2>2, LiveStations, EntryFields DEF CoreInv, FixInv
  <2> QED BY <2>1, <2>3, <2>4
<1> QED BY <1>1, <1>2, <1>3

LEMMA SquashedIsWrong ==
  ASSUME CoreInv, SpeculationInv, Squash
  PROVE  \A s \in Squashed : s \in Live /\ ent[s].spec
<1>1. stage = "recover" /\ LastRUU # wb /\ wb \in LiveRUU
  BY DEF Squash, LastRUU, CoreInv, WbInv
<1>2. RUU_num > 0
  <2>1. RUU_num \in Int
    BY DEF CoreInv, FixInv, WinType
  <2> QED BY <1>1, <2>1 DEF LiveRUU
<1>3. wb \in Live \ Squashed
  BY <1>1, Stations DEF Squashed, LastLSQ, LiveRUU, RUU_slot, Live
<1>4. Squashed \subseteq Live /\ \A s \in Squashed : ent[wb].seq < ent[s].seq
  BY <1>2, <1>3, LastIsYoungest DEF CoreInv, SpeculationInv
<1>5. Open(wb)
  BY <1>1 DEF SpeculationInv, SpecInv, Open
<1> QED BY <1>1, <1>4, <1>5 DEF SpeculationInv, SpecInv

-----------------------------------------------------------------------------
(* The create vectors over a step.                                         *)

VectorInv == MidInv /\ ListInv /\ CvInv /\ SpecCvInv

LEMMA SameWriters ==
  ASSUME Live' = Live, ent' = ent
  PROVE  \A r : RightWriters(r)' = RightWriters(r) /\ WrongWriters(r)' = WrongWriters(r)
BY DEF RightWriters, WrongWriters

LEMMA RegIsNotNA == NA \notin Reg
BY InstAssumption

\* Steps that leave the vectors alone and complete nothing that writes.
LEMMA CvFrame ==
  ASSUME CvInv, SpecCvInv, Live' = Live, ent' = ent, UNCHANGED cvVars,
         spec_mode' = spec_mode, stage' # "recover" => stage # "recover",
         \A w \in Live : ent[w].out # NA => (w \in Done' <=> w \in Done)
  PROVE  CvInv' /\ SpecCvInv'
<1>1. /\ create_vector' = create_vector /\ spec_create_vector' = spec_create_vector
      /\ use_spec_cv' = use_spec_cv
  BY DEF cvVars
<1>2. \A r : RightWriters(r)' = RightWriters(r) /\ WrongWriters(r)' = WrongWriters(r)
  BY SameWriters
<1>3. \A r \in Reg : /\ \A w \in RightWriters(r) : w \in Done' <=> w \in Done
                     /\ \A w \in WrongWriters(r) : w \in Done' <=> w \in Done
  BY RegIsNotNA DEF RightWriters, WrongWriters
<1>4. ASSUME NEW r \in Reg
      PROVE  Tracks(ent', RightWriters(r)', Done', create_vector'[r])
  <2>1. Tracks(ent, RightWriters(r), Done, create_vector[r])
    BY DEF CvInv
  <2>2. Tracks(ent', RightWriters(r), Done', create_vector[r])
    BY <1>3, <2>1, TracksSame
  <2> QED BY <1>1, <1>2, <2>2
<1>5. ASSUME NEW r \in Reg, r \in use_spec_cv, stage # "recover"
      PROVE  Tracks(ent', WrongWriters(r)', Done', spec_create_vector'[r])
  <2>1. Tracks(ent, WrongWriters(r), Done, spec_create_vector[r])
    BY <1>5 DEF SpecCvInv
  <2>2. Tracks(ent', WrongWriters(r), Done', spec_create_vector[r])
    BY <1>3, <2>1, TracksSame
  <2> QED BY <1>1, <1>2, <2>2
<1>6. CvInv'
  BY <1>4 DEF CvInv
<1>7. SpecCvInv'
  BY <1>1, <1>2, <1>5 DEF SpecCvInv
<1> QED BY <1>6, <1>7

\* The result of s is in the register file: it leaves its create vector.
LEMMA ClearTracks ==
  ASSUME CoreInv, CvInv, SpecCvInv, Live' = Live, ent' = ent, NEW s \in Station,
         ClearCreator(s), Done' = Done \cup {s}
  PROVE  /\ CvInv'
         /\ stage # "recover" => \A r \in Reg : r \in use_spec_cv =>
              Tracks(ent', WrongWriters(r)', Done', spec_create_vector'[r])
<1>1. \A r : RightWriters(r)' = RightWriters(r) /\ WrongWriters(r)' = WrongWriters(r)
  BY SameWriters
<1>2. s # None
  BY NoneAssumption
<1>3. ASSUME NEW r \in Reg
      PROVE  /\ ent[s].spec => create_vector'[r] = create_vector[r]
             /\ ~ent[s].spec => spec_create_vector'[r] = spec_create_vector[r]
             /\ ~ent[s].spec /\ create_vector[r] # s => create_vector'[r] = create_vector[r]
             /\ ~ent[s].spec /\ create_vector[r] = s /\ ent[s].out = r =>
                  create_vector'[r] = None
             /\ ent[s].spec /\ spec_create_vector[r] # s =>
                  spec_create_vector'[r] = spec_create_vector[r]
             /\ ent[s].spec /\ spec_create_vector[r] = s /\ ent[s].out = r =>
                  spec_create_vector'[r] = None
  BY RegIsNotNA DEF ClearCreator, CoreInv, CvType
<1>4. ASSUME NEW r \in Reg
      PROVE  Tracks(ent', RightWriters(r)', Done', create_vector'[r])
  <2>1. Tracks(ent, RightWriters(r), Done, create_vector[r])
    BY DEF CvInv
  <2>2. CASE ~ent[s].spec
    <3>1. create_vector[r] = s => ent[s].out = r
      BY <1>2, <2>1 DEF Tracks, Newest, RightWriters
    <3>2. create_vector'[r] = IF create_vector[r] = s THEN None ELSE create_vector[r]
      BY <1>3, <2>2, <3>1
    <3> QED BY <1>1, <1>2, <2>1, <3>2, TracksDone
  <2>3. CASE ent[s].spec
    <3>1. \A w \in RightWriters(r) : w \in Done' <=> w \in Done
      BY <2>3 DEF RightWriters
    <3>2. Tracks(ent', RightWriters(r), Done', create_vector[r])
      BY <2>1, <3>1, TracksSame
    <3> QED BY <1>1, <1>3, <2>3, <3>2
  <2> QED BY <2>2, <2>3
<1>5. ASSUME NEW r \in Reg, r \in use_spec_cv, stage # "recover"
      PROVE  Tracks(ent', WrongWriters(r)', Done', spec_create_vector'[r])
  <2>1. Tracks(ent, WrongWriters(r), Done, spec_create_vector[r])
    BY <1>5 DEF SpecCvInv
  <2>2. CASE ent[s].spec
    <3>1. spec_create_vector[r] = s => ent[s].out = r
      BY <1>2, <2>1 DEF Tracks, Newest, WrongWriters
    <3>2. spec_create_vector'[r]
            = IF spec_create_vector[r] = s THEN None ELSE spec_create_vector[r]
      BY <1>3, <2>2, <3>1
    <3> QED BY <1>1, <1>2, <2>1, <3>2, TracksDone
  <2>3. CASE ~ent[s].spec
    <3>1. \A w \in WrongWriters(r) : w \in Done' <=> w \in Done
      BY <2>3 DEF WrongWriters
    <3>2. Tracks(ent', WrongWriters(r), Done', spec_create_vector[r])
      BY <2>1, <3>1, TracksSame
    <3> QED BY <1>1, <1>3, <2>3, <3>2
  <2> QED BY <2>2, <2>3
<1>6. CvInv'
  BY <1>4 DEF CvInv
<1> QED BY <1>5, <1>6

LEMMA CommitVectors ==
  ASSUME CoreInv, SpeculationInv, VectorInv, Commit
  PROVE  VectorInv'
<1>1. Live' = Live \ Retired
  BY CommitWindow
<1>2. /\ stage = "commit" /\ RUU_num > 0
      /\ UNCHANGED <<stage, wb, ent, completed, odep_list, cvVars, spec_mode>>
  BY DEF Commit, CanRetire, statusVars
<1>3. \A s \in Retired : s \in Live /\ s \in completed /\ ~ent[s].spec
  BY RetiredIsRight
<1>4. MidInv'
  BY <1>2 DEF MidInv, MidWriteback
<1>5. ListInv'
  BY <1>1, <1>2, <1>3 DEF VectorInv, ListInv, MidWriteback
<1>6. /\ \A r : /\ RightWriters(r)' = RightWriters(r) \ Retired
                /\ WrongWriters(r)' = WrongWriters(r)
      /\ Done' = completed /\ Done = completed
  BY <1>1, <1>2, <1>3 DEF RightWriters, WrongWriters, Done
<1>7. ASSUME NEW r \in Reg
      PROVE  Tracks(ent, RightWriters(r) \ Retired, completed, create_vector[r])
  <2> DEFINE W == RightWriters(r)
             V == RightWriters(r) \ Retired
  <2>1. Tracks(ent, W, completed, create_vector[r])
    BY <1>6 DEF VectorInv, CvInv
  <2>2. \A w \in W \ V : w \in completed /\ \A v \in V : ent[w].seq < ent[v].seq
    BY <1>2, <1>3, HeadIsOldest DEF RightWriters, CoreInv, SpeculationInv
  <2>3. \A w \in W : ent[w].seq \in Nat
    BY LiveStations, EntryFields DEF RightWriters, CoreInv, FixInv
  <2>4. V \subseteq W
    OBVIOUS
  <2> HIDE DEF V, W
  <2>5. Tracks(ent, V, completed, create_vector[r])
    BY <2>1, <2>2, <2>3, <2>4, TracksOldestLeave
  <2> QED BY <2>5 DEF V
<1>8. CvInv'
  BY <1>2, <1>6, <1>7 DEF CvInv, cvVars
<1>9. SpecCvInv'
  BY <1>2, <1>6 DEF VectorInv, SpecCvInv, cvVars
<1> QED BY <1>4, <1>5, <1>8, <1>9 DEF VectorInv

LEMMA SquashVectors ==
  ASSUME CoreInv, SpeculationInv, VectorInv, Squash
  PROVE  VectorInv'
<1>1. /\ Live' = Live \ Squashed
      /\ odep_list' = [s \in Station |-> IF s \in Squashed THEN <<>> ELSE odep_list[s]]
  BY SquashWindow
<1>2. /\ stage = "recover" /\ LastRUU # wb
      /\ UNCHANGED <<stage, wb, ent, completed, cvVars, spec_mode>>
  BY DEF Squash, statusVars, LastRUU
<1>3. \A s \in Squashed : s \in Live /\ ent[s].spec
  BY SquashedIsWrong
<1>4. MidInv'
  <2>1. wb \in LiveRUU
    BY <1>2 DEF CoreInv, WbInv
  <2>2. wb \notin Squashed /\ wb \in Live
    BY <1>2, <2>1, Stations DEF Squashed, LastLSQ, LiveRUU, RUU_slot, Live
  <2> QED BY <1>1, <1>2, <2>2 DEF VectorInv, MidInv, MidWriteback
<1>5. ListInv'
  BY <1>1, <1>2 DEF VectorInv, ListInv, MidWriteback
<1>6. (\A r : RightWriters(r)' = RightWriters(r)) /\ Done' = Done
  BY <1>1, <1>2, <1>3 DEF RightWriters, Done
<1>7. CvInv'
  BY <1>2, <1>6 DEF VectorInv, CvInv, cvVars
<1>8. SpecCvInv'
  BY <1>2 DEF VectorInv, SpecCvInv, cvVars
<1> QED BY <1>4, <1>5, <1>7, <1>8 DEF VectorInv

LEMMA CompleteVectors ==
  ASSUME CoreInv, FlowInv, VectorInv, Complete
  PROVE  VectorInv'
<1> DEFINE s == Head(event_queue).rs
<1>1. /\ stage = "writeback" /\ stage' = "broadcast" /\ wb' = s
      /\ completed' = completed \cup {s} /\ ClearCreator(s)
      /\ event_queue # <<>> /\ Valid(Head(event_queue)) /\ Still
      /\ UNCHANGED <<odep_list, use_spec_cv, spec_mode>>
  BY DEF Complete, Due, Still, countVars
<1>2. s \in Live /\ s \in Station
  BY <1>1, FirstEvent, LiveStations DEF CoreInv
<1> HIDE DEF s
<1>3. Live' = Live /\ ent' = ent
  BY <1>1, StillWindow DEF Still, CoreInv
<1>4. MidInv'
  BY <1>1, <1>2, <1>3 DEF MidInv, MidWriteback
<1>5. ListInv'
  BY <1>1, <1>3 DEF VectorInv, ListInv, MidWriteback
<1>6. Done' = Done \cup {s}
  BY <1>1 DEF Done
<1>7. /\ CvInv'
      /\ \A r \in Reg : r \in use_spec_cv =>
           Tracks(ent', WrongWriters(r)', Done', spec_create_vector'[r])
  BY <1>1, <1>2, <1>3, <1>6, ClearTracks DEF VectorInv
<1>8. SpecCvInv'
  BY <1>1, <1>3, <1>7, SameWriters DEF VectorInv, SpecCvInv
<1> QED BY <1>4, <1>5, <1>7, <1>8 DEF VectorInv

LEMMA CompleteMispredictedVectors ==
  ASSUME CoreInv, FlowInv, VectorInv, CompleteMispredicted
  PROVE  VectorInv'
<1> DEFINE s == Head(event_queue).rs
<1>1. /\ stage = "writeback" /\ stage' = "recover" /\ wb' = s
      /\ completed' = completed \cup {s}
      /\ event_queue # <<>> /\ Valid(Head(event_queue)) /\ Still
      /\ UNCHANGED <<odep_list, cvVars, spec_mode>>
  BY DEF CompleteMispredicted, Due, Still, countVars
<1>2. s \in Live /\ s \notin completed
  BY <1>1, FirstEvent
<1> HIDE DEF s
<1>3. Live' = Live /\ ent' = ent
  BY <1>1, StillWindow DEF Still, CoreInv
<1>4. MidInv'
  BY <1>1, <1>2, <1>3 DEF MidInv, MidWriteback
<1>5. ListInv'
  BY <1>1, <1>3 DEF VectorInv, ListInv, MidWriteback
<1>6. Done' = Done
  BY <1>1, <1>2 DEF Done
<1>7. CvInv' /\ SpecCvInv'
  BY <1>1, <1>3, <1>6, CvFrame DEF VectorInv
<1> QED BY <1>4, <1>5, <1>7 DEF VectorInv

LEMMA RecoverEndVectors ==
  ASSUME CoreInv, FlowInv, SpeculationInv, VectorInv, RecoverEnd
  PROVE  VectorInv'
<1>1. /\ stage = "recover" /\ stage' = "broadcast" /\ use_spec_cv' = {}
      /\ spec_mode' = FALSE /\ ClearCreator(wb) /\ Still
      /\ UNCHANGED <<wb, completed, odep_list>>
  BY DEF RecoverEnd, Still, countVars, statusVars
<1>2. /\ Live' = Live /\ ent' = ent /\ wb \in Station /\ wb \in completed
      /\ \A s \in Live : ~ent[s].spec
  BY <1>1, StillWindow, RecoverEndSpeculation
     DEF Still, CoreInv, WbInv, VectorInv, MidInv, MidWriteback
<1>3. MidInv'
  BY <1>1, <1>2 DEF VectorInv, MidInv, MidWriteback
<1>4. ListInv'
  BY <1>1, <1>2 DEF VectorInv, ListInv, MidWriteback
<1>5. Done' = Done \cup {wb}
  BY <1>1, <1>2 DEF Done
<1>6. CvInv'
  BY <1>1, <1>2, <1>5, ClearTracks DEF VectorInv
<1>7. SpecCvInv'
  <2>1. \A r : WrongWriters(r)' = {}
    BY <1>2 DEF WrongWriters
  <2> QED BY <1>1, <2>1 DEF SpecCvInv
<1> QED BY <1>3, <1>4, <1>6, <1>7 DEF VectorInv

LEMMA BroadcastVectors ==
  ASSUME CoreInv, VectorInv, Broadcast
  PROVE  VectorInv'
<1>1. /\ stage = "broadcast" /\ stage' = stage /\ wb' = wb /\ odep_list[wb] # <<>>
      /\ odep_list' = [odep_list EXCEPT ![wb] = Tail(odep_list[wb])]
      /\ UNCHANGED <<completed, cvVars, spec_mode>> /\ Still
  BY DEF Broadcast, Still, countVars
<1>2. Live' = Live /\ ent' = ent
  BY <1>1, StillWindow DEF Still, CoreInv
<1>3. MidInv'
  BY <1>1, <1>2 DEF VectorInv, MidInv, MidWriteback
<1>4. \A s \in Station : odep_list'[s] # <<>> => odep_list[s] # <<>>
  BY <1>1 DEF CoreInv, LinksInv
<1>5. ListInv'
  BY <1>1, <1>2, <1>4 DEF VectorInv, ListInv, MidWriteback
<1>6. Done' = Done
  BY <1>1 DEF Done
<1>7. CvInv' /\ SpecCvInv'
  BY <1>1, <1>2, <1>6, CvFrame DEF VectorInv
<1> QED BY <1>3, <1>5, <1>7 DEF VectorInv

LEMMA BroadcastEndVectors ==
  ASSUME CoreInv, VectorInv, BroadcastEnd
  PROVE  VectorInv'
<1>1. /\ stage = "broadcast" /\ stage' = "writeback" /\ odep_list[wb] = <<>>
      /\ UNCHANGED <<completed, odep_list, cvVars, spec_mode>> /\ Still
  BY DEF BroadcastEnd, Still, countVars, statusVars
<1>2. Live' = Live /\ ent' = ent
  BY <1>1, StillWindow DEF Still, CoreInv
<1>3. MidInv'
  BY <1>1 DEF MidInv, MidWriteback
<1>4. ListInv'
  BY <1>1, <1>2 DEF VectorInv, ListInv, MidWriteback
<1>5. Done' = Done
  BY <1>1 DEF Done
<1>6. CvInv' /\ SpecCvInv'
  BY <1>1, <1>2, <1>5, CvFrame DEF VectorInv
<1> QED BY <1>3, <1>4, <1>6 DEF VectorInv

\* A store delivers no result.
LEMMA IssueStoreVectors ==
  ASSUME CoreInv, FlowInv, VectorInv, NEW s \in Station, IssueStore(s)
  PROVE  VectorInv'
<1>1. /\ stage = "issue" /\ stage' = "issue" /\ completed' = completed \cup {s}
      /\ UNCHANGED <<odep_list, cvVars, spec_mode>> /\ Still
      /\ node # <<>> /\ Valid(Head(node)) /\ s = Head(node).rs /\ StoreInLSQ(s)
  BY DEF IssueStore, IssueNext, Still, countVars
<1>2. Live' = Live /\ ent' = ent
  BY <1>1, StillWindow DEF Still, CoreInv
<1>3. s \in Live /\ ent[s].out = NA
  <2>1. s \in Live
    BY <1>1, FirstNode
  <2>2. ent[s].op = "store"
    BY <1>1 DEF StoreInLSQ, IsStore, IsAtomic
  <2> QED BY <2>1, <2>2 DEF FlowInv, KindInv
<1>4. MidInv'
  BY <1>1 DEF MidInv, MidWriteback
<1>5. ListInv'
  BY <1>1, <1>2, <1>3 DEF VectorInv, ListInv, MidWriteback
<1>6. \A w \in Live : ent[w].out # NA => (w \in Done' <=> w \in Done)
  BY <1>1, <1>3 DEF Done
<1>7. CvInv' /\ SpecCvInv'
  BY <1>1, <1>2, <1>6, CvFrame DEF VectorInv
<1> QED BY <1>4, <1>5, <1>7 DEF VectorInv

\* Steps that leave the window, the vectors and the lists alone.
LEMMA VectorFrame ==
  ASSUME CoreInv, VectorInv, Still, UNCHANGED <<completed, odep_list, cvVars, spec_mode>>,
         \/ ~MidWriteback /\ ~MidWriteback'
         \/ UNCHANGED <<stage, wb>>
  PROVE  VectorInv'
<1>1. Live' = Live /\ ent' = ent
  BY StillWindow DEF Still, CoreInv
<1>2. MidInv'
  BY <1>1 DEF VectorInv, MidInv, MidWriteback
<1>3. ListInv'
  BY <1>1 DEF VectorInv, ListInv, MidWriteback
<1>4. Done' = Done /\ (stage' # "recover" => stage # "recover")
  BY DEF Done, MidWriteback
<1>5. CvInv' /\ SpecCvInv'
  BY <1>1, <1>4, CvFrame DEF VectorInv
<1> QED BY <1>2, <1>3, <1>5 DEF VectorInv

-----------------------------------------------------------------------------
(* Dispatch renames: the new station is the youngest writer.               *)

\* The vector of the younger writers speaks for all of them.
LEMMA TracksYoungest ==
  ASSUME NEW e, NEW W, NEW D, NEW c, NEW V, V \subseteq W, V # {}, Tracks(e, V, D, c),
         \A w \in W \ V : \A v \in V : e[w].seq < e[v].seq,
         \A w \in W : e[w].seq \in Nat
  PROVE  Tracks(e, W, D, c)
<1>1. ASSUME NEW v \in V, NEW w \in W, Newest(e, V, v) PROVE e[w].seq <= e[v].seq
  <2>1. CASE w \in V
    BY <1>1, <2>1 DEF Newest
  <2>2. CASE w \notin V
    <3>1. e[w].seq < e[v].seq /\ e[w].seq \in Nat /\ e[v].seq \in Nat
      BY <2>2
    <3> QED BY <3>1
  <2> QED BY <2>1, <2>2
<1>2. ASSUME c # None PROVE Newest(e, W, c) /\ c \notin D
  BY <1>1, <1>2 DEF Tracks, Newest
<1>3. ASSUME NEW w \in W, Newest(e, W, w), w \notin D PROVE c = w
  <2>1. w \in V
    <3> SUFFICES ASSUME w \notin V PROVE FALSE
      OBVIOUS
    <3>1. PICK v \in V : TRUE
      OBVIOUS
    <3>2. /\ e[w].seq < e[v].seq /\ e[v].seq <= e[w].seq
          /\ e[w].seq \in Nat /\ e[v].seq \in Nat
      BY <1>3, <3>1 DEF Newest
    <3> QED BY <3>2
  <2>2. Newest(e, V, w)
    BY <1>3, <2>1 DEF Newest
  <2> QED BY <1>3, <2>1, <2>2 DEF Tracks
<1> QED BY <1>2, <1>3 DEF Tracks

\* Each new station is entered for the register it writes, and only there.
LEMMA CreatesForm ==
  ASSUME NEW i \in Inst, NewRUU # NewLSQ
  PROVE  /\ \A r \in DOMAIN Creates(i) : /\ r \in Reg /\ Creates(i)[r] \in New(i)
                                         /\ NewOut(i, Creates(i)[r]) = r
         /\ \A s \in New(i) : NewOut(i, s) # NA =>
              /\ NewOut(i, s) \in DOMAIN Creates(i)
              /\ Creates(i)[NewOut(i, s)] = s
<1>1. /\ i.out \in Reg \cup {NA} /\ DTMP \in Reg /\ NA \notin Reg /\ i.out # DTMP
  BY InstAssumption DEF InstType
<1> DEFINE C == Creates(i)
<1>2. /\ DOMAIN C = {NewOut(i, s) : s \in New(i)} \ {NA}
      /\ \A r \in DOMAIN C : C[r] = IF IsMem(i.kind) /\ r # DTMP THEN NewLSQ ELSE NewRUU
  BY DEF Creates
<1> HIDE DEF C
<1>3. CASE IsMem(i.kind)
  <2>1. /\ New(i) = {NewRUU, NewLSQ} /\ NewOut(i, NewRUU) = DTMP
        /\ NewOut(i, NewLSQ) = i.out
    BY <1>3 DEF New, NewOut
  <2>2. DOMAIN C = {DTMP, i.out} \ {NA}
    BY <1>2, <2>1
  <2> QED BY <1>1, <1>2, <1>3, <2>1, <2>2 DEF C
<1>4. CASE ~IsMem(i.kind)
  <2>1. New(i) = {NewRUU} /\ NewOut(i, NewRUU) = i.out
    BY <1>4 DEF New, NewOut
  <2>2. DOMAIN C = {i.out} \ {NA}
    BY <1>2, <2>1
  <2> QED BY <1>1, <1>2, <1>4, <2>1, <2>2 DEF C
<1> QED BY <1>3, <1>4

\* The new stations as the renaming sees them.
LEMMA DispatchEntries ==
  ASSUME CoreInv, NEW i \in Inst, NEW mp \in BOOLEAN, Dispatch(i, mp)
  PROVE  /\ \A s \in New(i) :
              /\ s = NewRUU \/ (s = NewLSQ /\ IsMem(i.kind))
              /\ ent'[s].out = NewOut(i, s) /\ ent'[s].ins = NewIns(i, s)
              /\ ent'[s].seq = NewSeq(s) /\ ent'[s].seq \in Nat
              /\ ent'[s].spec <=> spec_mode
         /\ \A w \in Live, s \in New(i) : /\ ent'[w].seq < ent'[s].seq
                                          /\ ent'[w].seq \in Nat
<1>1. /\ New(i) \cap Live = {} /\ \A s \in New(i) : ent'[s] = NewEntry(i, mp, s)
      /\ \A s \in Live : ent'[s] = ent[s]
  BY DispatchNew
<1>2. /\ inst_seq \in Nat /\ \A s \in Live : ent[s].seq \in Nat /\ ent[s].seq <= inst_seq
  BY LiveStations, EntryFields DEF CoreInv, FixInv, EntType, SeqBound
<1>3. ASSUME NEW s \in New(i)
      PROVE  /\ s = NewRUU \/ (s = NewLSQ /\ IsMem(i.kind))
             /\ ent'[s].out = NewOut(i, s) /\ ent'[s].ins = NewIns(i, s)
             /\ ent'[s].seq = NewSeq(s) /\ ent'[s].seq \in Nat
             /\ ent'[s].spec <=> spec_mode
             /\ inst_seq < ent'[s].seq
  <2>1. s = NewRUU \/ (s = NewLSQ /\ IsMem(i.kind))
    BY DEF New
  <2>2. ent'[s] = NewEntry(i, mp, s)
    BY <1>1
  <2>3. /\ NewEntry(i, mp, s).out = NewOut(i, s) /\ NewEntry(i, mp, s).ins = NewIns(i, s)
        /\ NewEntry(i, mp, s).seq = NewSeq(s) /\ (NewEntry(i, mp, s).spec <=> spec_mode)
    BY DEF NewEntry
  <2>4. NewSeq(s) \in Nat /\ inst_seq < NewSeq(s)
    BY <1>2 DEF NewSeq
  <2> QED BY <2>1, <2>2, <2>3, <2>4
<1>4. ASSUME NEW w \in Live, NEW s \in New(i)
      PROVE  ent'[w].seq < ent'[s].seq /\ ent'[w].seq \in Nat
  <2>1. ent'[w].seq \in Nat /\ ent'[w].seq <= inst_seq
    BY <1>1, <1>2
  <2>2. inst_seq < ent'[s].seq /\ ent'[s].seq \in Nat
    BY <1>3
  <2> QED BY <1>2, <2>1, <2>2
<1>5. \A s \in New(i) :
              /\ s = NewRUU \/ (s = NewLSQ /\ IsMem(i.kind))
              /\ ent'[s].out = NewOut(i, s) /\ ent'[s].ins = NewIns(i, s)
              /\ ent'[s].seq = NewSeq(s) /\ ent'[s].seq \in Nat
              /\ ent'[s].spec <=> spec_mode
  BY <1>3
<1> QED BY <1>4, <1>5

\* All writers of a register in the window.
RegWriters(r) == {w \in Live : ent[w].out = r}

\* What ruu_link_idep finds is the youngest writer, if that one is awaited.
LEMMA CreatorIs ==
  ASSUME CoreInv, SpeculationInv, VectorInv, stage = "dispatch", NEW r \in Reg
  PROVE  Tracks(ent, RegWriters(r), completed, CREATE_VECTOR(r))
<1>1. Done = completed
  BY DEF Done
<1>2. RegWriters(r) = RightWriters(r) \cup WrongWriters(r)
  BY DEF RegWriters, RightWriters, WrongWriters
<1>3. CASE r \in use_spec_cv
  <2>1. /\ WrongWriters(r) # {}
        /\ Tracks(ent, WrongWriters(r), completed, CREATE_VECTOR(r))
    BY <1>1, <1>3 DEF VectorInv, SpecCvInv, CREATE_VECTOR
  <2>2. \A w \in RegWriters(r) \ WrongWriters(r) : \A v \in WrongWriters(r) :
          ent[w].seq < ent[v].seq
    BY WrongIsYounger DEF RegWriters, WrongWriters
  <2>3. \A w \in RegWriters(r) : ent[w].seq \in Nat
    BY LiveStations, EntryFields DEF RegWriters, CoreInv, FixInv
  <2>4. WrongWriters(r) \subseteq RegWriters(r)
    BY <1>2
  <2> QED BY <2>1, <2>2, <2>3, <2>4, TracksYoungest
<1>4. CASE r \notin use_spec_cv
  <2>1. WrongWriters(r) = {} /\ CREATE_VECTOR(r) = create_vector[r]
    BY <1>4 DEF VectorInv, SpecCvInv, CREATE_VECTOR
  <2> QED BY <1>1, <1>2, <2>1 DEF VectorInv, CvInv
<1> QED BY <1>3, <1>4

\* A right path has no wrong-path writers, a wrong path gets the new ones.
LEMMA DispatchWriters ==
  ASSUME CoreInv, NEW i \in Inst, NEW mp \in BOOLEAN, Dispatch(i, mp), NEW r \in Reg
  PROVE  /\ RightWriters(r)' = RightWriters(r) \cup
              (IF r \in DOMAIN Creates(i) /\ ~spec_mode THEN {Creates(i)[r]} ELSE {})
         /\ WrongWriters(r)' = WrongWriters(r) \cup
              (IF r \in DOMAIN Creates(i) /\ spec_mode THEN {Creates(i)[r]} ELSE {})
<1>1. /\ New(i) \cap Live = {} /\ Live' = Live \cup New(i)
      /\ \A s \in Live : ent'[s] = ent[s]
  BY DispatchNew
<1>2. \A s \in New(i) : ent'[s].out = NewOut(i, s) /\ (ent'[s].spec <=> spec_mode)
  BY DispatchEntries
<1> DEFINE N == {s \in New(i) : NewOut(i, s) = r}
<1>3. N = IF r \in DOMAIN Creates(i) THEN {Creates(i)[r]} ELSE {}
  <2>1. NewRUU # NewLSQ /\ r # NA
    BY DispatchWindow, RegIsNotNA
  <2>2. \A s \in N : r \in DOMAIN Creates(i) /\ Creates(i)[r] = s
    BY <2>1, CreatesForm
  <2>3. r \in DOMAIN Creates(i) => Creates(i)[r] \in N
    BY <2>1, CreatesForm
  <2> HIDE DEF N
  <2> QED BY <2>2, <2>3
<1>4. RightWriters(r)' = RightWriters(r) \cup (IF ~spec_mode THEN N ELSE {})
  <2>1. RightWriters(r)' = {w \in Live' : ent'[w].out = r /\ ~ent'[w].spec}
    BY DEF RightWriters
  <2>2. \A w \in Live : w \in RightWriters(r)' <=> w \in RightWriters(r)
    BY <1>1, <2>1 DEF RightWriters
  <2>3. \A w \in New(i) : w \in RightWriters(r)' <=> w \in N /\ ~spec_mode
    BY <1>1, <1>2, <2>1
  <2>4. RightWriters(r) \subseteq Live /\ N \subseteq New(i) /\ RightWriters(r)' \subseteq Live'
    BY <2>1 DEF RightWriters
  <2> HIDE DEF N
  <2> QED BY <1>1, <2>2, <2>3, <2>4
<1>5. WrongWriters(r)' = WrongWriters(r) \cup (IF spec_mode THEN N ELSE {})
  <2>1. WrongWriters(r)' = {w \in Live' : ent'[w].out = r /\ ent'[w].spec}
    BY DEF WrongWriters
  <2>2. \A w \in Live : w \in WrongWriters(r)' <=> w \in WrongWriters(r)
    BY <1>1, <2>1 DEF WrongWriters
  <2>3. \A w \in New(i) : w \in WrongWriters(r)' <=> w \in N /\ spec_mode
    BY <1>1, <1>2, <2>1
  <2>4. WrongWriters(r) \subseteq Live /\ N \subseteq New(i) /\ WrongWriters(r)' \subseteq Live'
    BY <2>1 DEF WrongWriters
  <2> HIDE DEF N
  <2> QED BY <1>1, <2>2, <2>3, <2>4
<1> HIDE DEF N
<1> QED BY <1>3, <1>4, <1>5

\* Consumers are linked to stations of the window that still have to complete.
LEMMA NewLinksLive ==
  ASSUME CoreInv, SpeculationInv, VectorInv, NEW i \in Inst, NEW mp \in BOOLEAN,
         Dispatch(i, mp), NEW p \in Station, NewLinks(i, p) # <<>>
  PROVE  p \in Live /\ ent[p].out # NA /\ p \notin completed
<1>1. NewRUU # NewLSQ /\ stage = "dispatch"
  BY DispatchWindow, DispatchParts
<1>2. NewLinks(i, p) \in Seq(NewLinkSet(i))
  BY <1>1, NewLinksOnce
<1>3. 1 \in 1 .. Len(NewLinks(i, p))
  BY <1>2, EmptySeq, LenProperties
<1>4. PICK s \in New(i), k \in Operand : Creator(NewIns(i, s)[k]) = p
  BY <1>1, <1>3, NewLinksOnce
<1> DEFINE r == NewIns(i, s)[k]
<1>5. p # None
  BY NoneAssumption
<1>6. r \in Reg /\ CREATE_VECTOR(r) = p
  <2>1. /\ i.ins \in [Operand -> Reg \cup {NA}]
        /\ LsqIns(i) \in [Operand -> Reg \cup {NA}]
    BY InstAssumption DEF InstType, LsqIns
  <2>2. r \in Reg \cup {NA}
    BY <2>1 DEF NewIns
  <2> QED BY <1>4, <1>5, <2>2 DEF Creator
<1> HIDE DEF r
<1>7. Newest(ent, RegWriters(r), p) /\ p \notin completed
  BY <1>1, <1>5, <1>6, CreatorIs DEF Tracks
<1> QED BY <1>6, <1>7, RegIsNotNA DEF Newest, RegWriters

LEMMA DispatchVectors ==
  ASSUME CoreInv, SpeculationInv, VectorInv, NEW i \in Inst, NEW mp \in BOOLEAN,
         Dispatch(i, mp)
  PROVE  VectorInv'
<1>1. /\ stage = "dispatch" /\ stage' = stage /\ completed' = completed \ New(i)
      /\ spec_mode' = (spec_mode \/ mp) /\ InstallOdeps(Creates(i))
      /\ odep_list' = [s \in Station |->
              IF s \in New(i) /\ NewOut(i, s) # NA THEN <<>>
              ELSE NewLinks(i, s) \o odep_list[s]]
  BY DispatchParts
<1>2. /\ New(i) \cap Live = {} /\ Live' = Live \cup New(i)
      /\ \A s \in Live : ent'[s] = ent[s]
  BY DispatchNew
<1> DEFINE C == Creates(i)
<1>3. \A r \in Reg :
        /\ RightWriters(r)' = RightWriters(r) \cup
              (IF r \in DOMAIN C /\ ~spec_mode THEN {C[r]} ELSE {})
        /\ WrongWriters(r)' = WrongWriters(r) \cup
              (IF r \in DOMAIN C /\ spec_mode THEN {C[r]} ELSE {})
  BY DispatchWriters
<1>4. \A r \in DOMAIN C : r \in Reg /\ C[r] \in New(i)
  BY DispatchWindow, CreatesForm
<1>5. /\ spec_mode =>
           /\ use_spec_cv' = use_spec_cv \cup DOMAIN C
           /\ create_vector' = create_vector
           /\ \A r \in Reg : spec_create_vector'[r]
                               = IF r \in DOMAIN C THEN C[r] ELSE spec_create_vector[r]
      /\ ~spec_mode =>
           /\ use_spec_cv' = use_spec_cv /\ spec_create_vector' = spec_create_vector
           /\ \A r \in Reg : create_vector'[r]
                               = IF r \in DOMAIN C THEN C[r] ELSE create_vector[r]
  BY <1>1 DEF InstallOdeps
<1> HIDE DEF C
<1>6. Done = completed /\ Done' = completed' /\ stage # "recover" /\ stage' # "recover"
  BY <1>1 DEF Done
\* A vector after the new station, and one it leaves alone.
<1>7. ASSUME NEW W \in SUBSET Live, NEW n \in New(i)
      PROVE  Tracks(ent', W \cup {n}, completed', n)
  <2>1. /\ ent'[n].seq \in Nat
        /\ \A w \in W : ent'[w].seq < ent'[n].seq /\ ent'[w].seq \in Nat
    BY DispatchEntries
  <2>2. \A w \in W : ent'[w].seq <= ent'[n].seq /\ ~(ent'[n].seq <= ent'[w].seq)
    BY <2>1
  <2>3. n \notin completed'
    BY <1>1
  <2> QED BY <2>1, <2>2, <2>3, TracksNew
<1>8. ASSUME NEW W \in SUBSET Live, NEW c, Tracks(ent, W, completed, c)
      PROVE  Tracks(ent', W, completed', c)
  <2>1. \A w \in W : ent'[w] = ent[w] /\ (w \in completed' <=> w \in completed)
    BY <1>1, <1>2
  <2> QED BY <1>8, <2>1, TracksSame
<1>9. \A r : RightWriters(r) \in SUBSET Live /\ WrongWriters(r) \in SUBSET Live
  BY DEF RightWriters, WrongWriters
<1>10. CvInv'
  <2> SUFFICES ASSUME NEW r \in Reg
               PROVE  Tracks(ent', RightWriters(r)', completed', create_vector'[r])
    BY <1>6 DEF CvInv
  <2>1. Tracks(ent, RightWriters(r), completed, create_vector[r])
    BY <1>6 DEF VectorInv, CvInv
  <2>2. CASE r \in DOMAIN C /\ ~spec_mode
    <3>1. /\ RightWriters(r)' = RightWriters(r) \cup {C[r]}
          /\ create_vector'[r] = C[r] /\ C[r] \in New(i)
      BY <1>3, <1>4, <1>5, <2>2
    <3> QED BY <1>7, <1>9, <3>1
  <2>3. CASE ~(r \in DOMAIN C /\ ~spec_mode)
    <3>1. RightWriters(r)' = RightWriters(r) /\ create_vector'[r] = create_vector[r]
      BY <1>3, <1>5, <2>3
    <3> QED BY <1>8, <1>9, <2>1, <3>1
  <2> QED BY <2>2, <2>3
<1>11. SpecCvInv'
  <2>1. use_spec_cv' # {} => spec_mode'
    BY <1>1, <1>5 DEF VectorInv, SpecCvInv
  <2>2. ASSUME NEW r \in Reg
        PROVE  /\ r \in use_spec_cv' <=> WrongWriters(r)' # {}
               /\ r \in use_spec_cv' =>
                    Tracks(ent', WrongWriters(r)', completed', spec_create_vector'[r])
    <3>1. /\ r \in use_spec_cv <=> WrongWriters(r) # {}
          /\ r \in use_spec_cv =>
               Tracks(ent, WrongWriters(r), completed, spec_create_vector[r])
      BY <1>6 DEF VectorInv, SpecCvInv
    <3>2. CASE r \in DOMAIN C /\ spec_mode
      <4>1. /\ WrongWriters(r)' = WrongWriters(r) \cup {C[r]} /\ r \in use_spec_cv'
            /\ spec_create_vector'[r] = C[r] /\ C[r] \in New(i)
        BY <1>3, <1>4, <1>5, <3>2
      <4>2. Tracks(ent', WrongWriters(r)', completed', spec_create_vector'[r])
        BY <1>7, <1>9, <4>1
      <4> QED BY <4>1, <4>2
    <3>3. CASE ~(r \in DOMAIN C /\ spec_mode)
      <4>1. /\ WrongWriters(r)' = WrongWriters(r)
            /\ spec_create_vector'[r] = spec_create_vector[r]
            /\ r \in use_spec_cv' <=> r \in use_spec_cv
        BY <1>3, <1>5, <3>3
      <4> QED BY <1>8, <1>9, <3>1, <4>1
    <3> QED BY <3>2, <3>3
  <2> QED BY <1>6, <2>1, <2>2 DEF SpecCvInv
<1>12. MidInv'
  BY <1>1 DEF MidInv, MidWriteback
<1>13. ListInv'
  <2> SUFFICES ASSUME NEW s \in Station, odep_list'[s] # <<>>
               PROVE  s \in Live' /\ ent'[s].out # NA /\ s \notin completed'
    BY DEF ListInv
  <2>1. odep_list'[s] = NewLinks(i, s) \o odep_list[s]
    BY <1>1
  <2>2. NewLinks(i, s) # <<>> \/ odep_list[s] # <<>>
    BY <2>1
  <2>3. s \in Live /\ ent[s].out # NA /\ s \notin completed
    <3>1. CASE NewLinks(i, s) # <<>>
      BY <3>1, NewLinksLive
    <3>2. CASE odep_list[s] # <<>>
      BY <1>1, <3>2 DEF VectorInv, ListInv, MidWriteback
    <3> QED BY <2>2, <3>1, <3>2
  <2> QED BY <1>1, <1>2, <2>3
<1> QED BY <1>10, <1>11, <1>12, <1>13 DEF VectorInv

-----------------------------------------------------------------------------
(* The dependences over a step.                                            *)

\* Steps that leave the window, the lists and the operands alone.
LEMMA DependFrame ==
  ASSUME DepInv, UNCHANGED <<ent, tag, odep_list, idep_ready>>, Live' = Live,
         completed \subseteq completed'
  PROVE  DepInv'
<1>1. \A p, s, k : OnList(p, s, k)' <=> OnList(p, s, k)
  BY DEF OnList, ValidAt, HasTag
<1>2. \A s, k : Writers(s, k)' = Writers(s, k)
  BY DEF Writers
<1> QED BY <1>1, <1>2 DEF DepInv

\* The links that are valid after some stations left the window.
LEMMA BumpLinks ==
  ASSUME NEW g \in [Station -> Nat], NEW gone, NEW q,
         \A i \in 1 .. Len(q) : OldLink(g, q[i])
  PROVE  ValidAt(Bump(g, gone), q) = {i \in ValidAt(g, q) : q[i].rs \notin gone}
<1>1. ASSUME NEW i \in 1 .. Len(q)
      PROVE  HasTag(Bump(g, gone), q[i]) <=> HasTag(g, q[i]) /\ q[i].rs \notin gone
  <2>1. /\ q[i].tag \in Nat /\ g[q[i].rs] \in Nat /\ q[i].tag <= g[q[i].rs]
        /\ Bump(g, gone)[q[i].rs] = IF q[i].rs \in gone THEN g[q[i].rs] + 1
                                    ELSE g[q[i].rs]
    BY DEF OldLink, Bump
  <2> QED BY <2>1 DEF HasTag
<1> QED BY <1>1 DEF ValidAt

\* The producers of the consumer lists are in the window.
LEMMA ListedIsLive ==
  ASSUME ListInv, NEW p \in Station, NEW s, NEW k, OnList(p, s, k), CoreInv
  PROVE  odep_list[p] # <<>> /\ p \in Live
<1>1. PICK j \in ValidAt(tag, odep_list[p]) : TRUE
  BY DEF OnList
<1>2. j \in 1 .. Len(odep_list[p]) /\ odep_list[p] \in Seq(Good(OdepLink))
  BY <1>1 DEF ValidAt, CoreInv, LinksInv
<1>3. odep_list[p] # <<>>
  BY <1>2
<1> QED BY <1>3 DEF ListInv

LEMMA CommitDepend ==
  ASSUME CoreInv, SpeculationInv, VectorInv, DepInv, Commit
  PROVE  DepInv'
<1>1. Live' = Live \ Retired /\ tag' = Bump(tag, Retired)
  BY CommitWindow DEF Bump
<1>2. /\ stage = "commit" /\ RUU_num > 0
      /\ UNCHANGED <<ent, completed, odep_list, idep_ready>>
  BY DEF Commit, CanRetire, statusVars
<1>3. \A s \in Retired : s \in Live /\ s \in completed
  BY RetiredIsRight
<1>4. \A s \in Retired, t \in Live \ Retired : ent[s].seq < ent[t].seq
  BY <1>2, HeadIsOldest DEF CoreInv, SpeculationInv
<1>5. \A s \in Live : ent[s].seq \in Nat
  BY LiveStations, EntryFields DEF CoreInv, FixInv
<1>6. ASSUME NEW p \in Station, NEW s \in Live', NEW k \in Operand
      PROVE  OnList(p, s, k)' <=> OnList(p, s, k)
  <2>1. tag \in [Station -> Nat]
    BY DEF CoreInv, FixInv, EntType
  <2>2. \A i \in 1 .. Len(odep_list[p]) : OldLink(tag, odep_list[p][i])
    BY QueuesOld DEF CoreInv
  <2>3. ValidAt(tag', odep_list[p])
          = {i \in ValidAt(tag, odep_list[p]) : odep_list[p][i].rs \notin Retired}
    BY <1>1, <2>1, <2>2, BumpLinks
  <2>4. OnList(p, s, k)' <=> \E i \in ValidAt(tag', odep_list[p]) :
                               odep_list[p][i].rs = s /\ odep_list[p][i].opnum = k
    BY <1>2 DEF OnList, ValidAt, HasTag
  <2> QED BY <1>1, <2>3, <2>4 DEF OnList
<1>7. \A s, k : Writers(s, k)' = Writers(s, k) \ Retired
  BY <1>1, <1>2 DEF Writers
<1>8. ASSUME NEW p \in Station, NEW s \in Live', NEW k \in Operand, OnList(p, s, k)'
      PROVE  Newest(ent', Writers(s, k)', p)
  <2>1. OnList(p, s, k) /\ s \in Live
    BY <1>1, <1>6, <1>8
  <2>2. Newest(ent, Writers(s, k), p)
    BY <2>1 DEF DepInv
  <2>3. p \notin Retired
    BY <1>2, <1>3, <2>1, ListedIsLive DEF VectorInv, ListInv, MidWriteback
  <2> QED BY <1>2, <1>7, <2>2, <2>3 DEF Newest
<1>9. ASSUME NEW s \in Live', NEW k \in Operand, k \notin idep_ready'[s]
      PROVE  \E p \in Station : OnList(p, s, k)'
  <2>1. PICK p \in Station : OnList(p, s, k)
    BY <1>1, <1>2, <1>9 DEF DepInv
  <2> QED BY <1>6, <2>1
<1>10. ASSUME NEW s \in Live', NEW k \in Operand, NEW p \in Live',
              k \in idep_ready'[s], Newest(ent', Writers(s, k)', p)
       PROVE  p \in completed'
  <2>1. p \in Live \ Retired /\ p \in Writers(s, k)
    BY <1>1, <1>7, <1>10 DEF Newest
  <2>2. ASSUME NEW v \in Writers(s, k) PROVE ent[v].seq <= ent[p].seq
    <3>1. CASE v \notin Retired
      BY <1>2, <1>7, <1>10, <3>1 DEF Newest
    <3>2. CASE v \in Retired
      <4>1. ent[v].seq < ent[p].seq /\ ent[v].seq \in Nat /\ ent[p].seq \in Nat
        BY <1>3, <1>4, <1>5, <2>1, <3>2
      <4> QED BY <4>1
    <3> QED BY <3>1, <3>2
  <2>3. Newest(ent, Writers(s, k), p)
    BY <2>1, <2>2 DEF Newest
  <2> QED BY <1>1, <1>2, <1>10, <2>1, <2>3 DEF DepInv
<1> QED BY <1>8, <1>9, <1>10 DEF DepInv

LEMMA SquashDepend ==
  ASSUME CoreInv, SpeculationInv, VectorInv, DepInv, Squash
  PROVE  DepInv'
<1>1. /\ Live' = Live \ Squashed /\ tag' = Bump(tag, Squashed)
      /\ odep_list' = [s \in Station |-> IF s \in Squashed THEN <<>> ELSE odep_list[s]]
  BY SquashWindow DEF Bump
<1>2. UNCHANGED <<ent, completed, idep_ready>>
  BY DEF Squash, statusVars
<1>3. \A s \in Squashed : s \in Live /\ ent[s].spec
  BY SquashedIsWrong
<1>4. /\ \A s \in Live : ent[s].seq \in Nat
      /\ \A s \in Squashed, t \in Live \ Squashed : ent[t].seq < ent[s].seq
  <2>1. RUU_num > 0
    <3>1. wb \in LiveRUU /\ RUU_num \in Int
      BY DEF Squash, CoreInv, WbInv, FixInv, WinType
    <3> QED BY <3>1 DEF LiveRUU
  <2> QED BY <2>1, LastIsYoungest, LiveStations, EntryFields
          DEF CoreInv, FixInv, SpeculationInv
<1>5. ASSUME NEW s \in Live', NEW k \in Operand PROVE Writers(s, k)' = Writers(s, k)
  <2>1. Writers(s, k)' = Writers(s, k) \ Squashed
    BY <1>1, <1>2 DEF Writers
  <2>2. ASSUME NEW w \in Writers(s, k), w \in Squashed PROVE FALSE
    <3>1. s \in Live \ Squashed /\ w \in Live /\ ent[w].seq < ent[s].seq
      BY <1>1 DEF Writers
    <3>2. ent[s].seq < ent[w].seq /\ ent[w].seq \in Nat /\ ent[s].seq \in Nat
      BY <1>4, <2>2, <3>1
    <3> QED BY <3>1, <3>2
  <2> QED BY <2>1, <2>2
<1>6. ASSUME NEW p \in Station, NEW s \in Live', NEW k \in Operand
      PROVE  OnList(p, s, k)' <=> p \notin Squashed /\ OnList(p, s, k)
  <2>1. tag \in [Station -> Nat]
    BY DEF CoreInv, FixInv, EntType
  <2>2. \A i \in 1 .. Len(odep_list[p]) : OldLink(tag, odep_list[p][i])
    BY QueuesOld DEF CoreInv
  <2>3. ValidAt(tag', odep_list[p])
          = {i \in ValidAt(tag, odep_list[p]) : odep_list[p][i].rs \notin Squashed}
    <3>1. ValidAt(Bump(tag, Squashed), odep_list[p])
            = {i \in ValidAt(tag, odep_list[p]) : odep_list[p][i].rs \notin Squashed}
      BY <2>1, <2>2, BumpLinks
    <3> QED BY <1>1, <3>1
  <2>4. CASE p \in Squashed
    <3>1. odep_list'[p] = <<>>
      BY <1>1, <2>4
    <3>2. ~OnList(p, s, k)'
      BY <3>1 DEF OnList, ValidAt
    <3> QED BY <2>4, <3>2
  <2>5. CASE p \notin Squashed
    <3>1. odep_list'[p] = odep_list[p]
      BY <1>1, <2>5
    <3>2. OnList(p, s, k)' <=> \E i \in ValidAt(tag', odep_list[p]) :
                                 odep_list[p][i].rs = s /\ odep_list[p][i].opnum = k
      BY <3>1 DEF OnList, ValidAt, HasTag
    <3> QED BY <1>1, <2>3, <2>5, <3>2 DEF OnList
  <2> QED BY <2>4, <2>5
<1>7. ASSUME NEW p \in Station, NEW s \in Live', NEW k \in Operand, OnList(p, s, k)'
      PROVE  Newest(ent', Writers(s, k)', p)
  BY <1>1, <1>2, <1>5, <1>6, <1>7 DEF DepInv
<1>8. ASSUME NEW s \in Live', NEW k \in Operand, k \notin idep_ready'[s]
      PROVE  \E p \in Station : OnList(p, s, k)'
  <2>1. PICK p \in Station : OnList(p, s, k)
    BY <1>1, <1>2, <1>8 DEF DepInv
  <2>2. p \in Writers(s, k)
    BY <1>1, <2>1 DEF DepInv, Newest
  <2>3. p \notin Squashed
    BY <1>1, <1>5, <2>2 DEF Writers
  <2> QED BY <1>6, <2>1, <2>3
<1>9. ASSUME NEW s \in Live', NEW k \in Operand, NEW p \in Live',
             k \in idep_ready'[s], Newest(ent', Writers(s, k)', p)
      PROVE  p \in completed'
  BY <1>1, <1>2, <1>5, <1>9 DEF DepInv
<1> QED BY <1>7, <1>8, <1>9 DEF DepInv

\* The head of the list is taken off, and its operand is ready.
LEMMA BroadcastDepend ==
  ASSUME CoreInv, SpeculationInv, VectorInv, DepInv, Broadcast
  PROVE  DepInv'
<1> DEFINE l == Head(odep_list[wb])
<1>1. /\ stage = "broadcast" /\ wb \in Station /\ odep_list[wb] # <<>>
      /\ odep_list[wb] \in Seq(Good(OdepLink))
      /\ odep_list' = [odep_list EXCEPT ![wb] = Tail(odep_list[wb])]
      /\ idep_ready' = IF Valid(l)
                       THEN [idep_ready EXCEPT ![l.rs] = idep_ready[l.rs] \cup {l.opnum}]
                       ELSE idep_ready
      /\ UNCHANGED completed /\ Still
  BY DEF Broadcast, CoreInv, WbInv, LinksInv, Still, countVars
<1>2. Live' = Live /\ ent' = ent /\ tag' = tag
  BY <1>1, StillWindow DEF Still, CoreInv
<1>3. \A s, k : Writers(s, k)' = Writers(s, k)
  BY <1>2 DEF Writers
<1>4. /\ Live \subseteq Station
      /\ idep_ready \in [Station -> SUBSET Operand]
      /\ odep_list \in [Station -> Seq(Good(OdepLink))]
      /\ \A s \in Live : ent[s].seq \in Nat
  BY LiveStations, EntryFields DEF CoreInv, FixInv, StatType, LinksInv
\* The head of the list.
<1>5. /\ 1 \in 1 .. Len(odep_list[wb]) /\ l = odep_list[wb][1]
      /\ l.rs \in Station /\ l.opnum \in Operand
  <2>1. /\ Len(odep_list[wb]) \in Nat /\ Len(odep_list[wb]) > 0
        /\ l = odep_list[wb][1] /\ l \in Good(OdepLink)
    BY <1>1, HeadTailSeq, EmptySeq
  <2> HIDE DEF l
  <2>2. l \in OdepLink
    BY <2>1 DEF Good
  <2> QED BY <2>1, <2>2 DEF OdepLink
<1> HIDE DEF l
<1>6. Valid(l) => /\ l.rs \in Live /\ OnList(wb, l.rs, l.opnum)
  <2> SUFFICES ASSUME Valid(l) PROVE l.rs \in Live /\ OnList(wb, l.rs, l.opnum)
    OBVIOUS
  <2>1. 1 \in ValidAt(tag, odep_list[wb])
    BY <1>5 DEF ValidAt, HasTag, Valid
  <2> QED BY <1>1, <1>5, <2>1, QueuesOld DEF OnList, CoreInv
<1>7. ASSUME NEW p \in Station, NEW s \in Live', NEW k \in Operand, OnList(p, s, k)'
      PROVE  Newest(ent', Writers(s, k)', p)
  <2>1. PICK i \in ValidAt(tag, odep_list'[p]) :
          odep_list'[p][i].rs = s /\ odep_list'[p][i].opnum = k
    BY <1>2, <1>7 DEF OnList
  <2>2. PICK j \in ValidAt(tag, odep_list[p]) : odep_list'[p][i] = odep_list[p][j]
    BY <2>1, BroadcastLists
  <2>3. OnList(p, s, k)
    BY <2>1, <2>2 DEF OnList
  <2> QED BY <1>2, <1>3, <2>3 DEF DepInv
<1>8. ASSUME NEW s \in Live', NEW k \in Operand, k \notin idep_ready'[s]
      PROVE  \E p \in Station : OnList(p, s, k)'
  <2>1. s \in Live /\ s \in Station
    BY <1>2, <1>4
  <2>2. k \notin idep_ready[s] /\ ~(Valid(l) /\ l.rs = s /\ l.opnum = k)
    BY <1>1, <1>4, <1>5, <1>8, <2>1
  <2>3. PICK p \in Station : OnList(p, s, k)
    BY <2>1, <2>2 DEF DepInv
  <2>4. PICK j \in ValidAt(tag, odep_list[p]) :
          odep_list[p][j].rs = s /\ odep_list[p][j].opnum = k
    BY <2>3 DEF OnList
  <2>5. CASE p # wb
    <3>1. odep_list'[p] = odep_list[p]
      BY <1>1, <1>4, <2>5
    <3> QED BY <1>2, <2>4, <3>1 DEF OnList
  <2>6. CASE p = wb
    <3> DEFINE t == Tail(odep_list[wb])
               m == j - 1
    <3>1. odep_list'[p] = t
      BY <1>1, <1>4, <2>6
    <3>2. j # 1
      BY <1>5, <2>2, <2>4, <2>6 DEF ValidAt, HasTag, Valid
    <3>3. /\ Len(odep_list[wb]) \in Nat /\ Len(t) = Len(odep_list[wb]) - 1
          /\ \A h \in 1 .. Len(t) : t[h] = odep_list[wb][h + 1]
      BY <1>1, HeadTailProperties
    <3>4. j \in 1 .. Len(odep_list[wb])
      BY <2>4, <2>6 DEF ValidAt
    <3>5. m \in 1 .. Len(t) /\ m + 1 = j
      BY <3>2, <3>3, <3>4
    <3> HIDE DEF t, m
    <3>6. t[m] = odep_list[p][j]
      BY <2>6, <3>3, <3>5
    <3>7. m \in ValidAt(tag, t)
      BY <2>4, <3>5, <3>6 DEF ValidAt
    <3> QED BY <1>2, <2>4, <3>1, <3>6, <3>7 DEF OnList
  <2> QED BY <2>5, <2>6
<1>9. ASSUME NEW s \in Live', NEW k \in Operand, NEW p \in Live',
             k \in idep_ready'[s], Newest(ent', Writers(s, k)', p)
      PROVE  p \in completed'
  <2>1. s \in Live /\ p \in Live /\ Newest(ent, Writers(s, k), p)
    BY <1>2, <1>3, <1>9
  <2>2. CASE k \in idep_ready[s]
    BY <1>1, <2>1, <2>2 DEF DepInv
  <2>3. CASE k \notin idep_ready[s]
    <3>1. Valid(l) /\ l.rs = s /\ l.opnum = k
      BY <1>1, <1>4, <1>5, <1>9, <2>1, <2>3
    <3>2. Newest(ent, Writers(s, k), wb)
      BY <1>1, <1>6, <2>1, <3>1 DEF DepInv
    <3>3. wb \in Live /\ ent[p].seq <= ent[wb].seq /\ ent[wb].seq <= ent[p].seq
      BY <2>1, <3>2 DEF Newest, Writers
    <3>4. ent[p].seq = ent[wb].seq
      BY <1>4, <2>1, <3>3
    <3>5. p = wb
      BY <2>1, <3>3, <3>4 DEF SpeculationInv, SeqDistinct
    <3> QED BY <1>1, <3>5 DEF VectorInv, MidInv, MidWriteback
  <2> QED BY <2>2, <2>3
<1> QED BY <1>7, <1>8, <1>9 DEF DepInv

\* The older writers of a new station's operand are all in the window before.
LEMMA NewWriters ==
  ASSUME CoreInv, NEW i \in Inst, NEW mp \in BOOLEAN, Dispatch(i, mp),
         NEW s \in New(i), NEW k \in Operand
  PROVE  /\ NewIns(i, s)[k] = NA => Writers(s, k)' = {}
         /\ NewIns(i, s)[k] # NA =>
              /\ NewIns(i, s)[k] \in Reg
              /\ Writers(s, k)' = RegWriters(NewIns(i, s)[k])
<1> DEFINE r == NewIns(i, s)[k]
<1>1. /\ New(i) \cap Live = {} /\ Live' = Live \cup New(i)
      /\ \A w \in Live : ent'[w] = ent[w]
  BY DispatchNew
<1>2. ent'[s].ins[k] = r
  BY DispatchEntries
<1>3. r \in Reg \cup {NA} /\ r # DTMP
  <2>1. /\ i.ins \in [Operand -> Reg \cup {NA}] /\ DTMP # i.ins[1] /\ DTMP # i.ins[2]
        /\ DTMP # NA /\ k \in {1, 2}
    BY InstAssumption DEF InstType, Operand
  <2> QED BY <2>1 DEF NewIns, LsqIns
<1> HIDE DEF r
<1>4. Writers(s, k)' = {w \in Live' : /\ ent'[s].ins[k] # NA
                                      /\ ent'[w].out = ent'[s].ins[k]
                                      /\ ent'[w].seq < ent'[s].seq}
  BY DEF Writers
<1>5. \A w \in Live : ent'[w].seq < ent'[s].seq
  BY DispatchEntries
<1>6. ASSUME NEW w \in New(i), ent'[w].seq < ent'[s].seq PROVE ent'[w].out # r
  <2>1. /\ w = NewRUU \/ (w = NewLSQ /\ IsMem(i.kind))
        /\ s = NewRUU \/ (s = NewLSQ /\ IsMem(i.kind))
        /\ ent'[w].seq = NewSeq(w) /\ ent'[s].seq = NewSeq(s)
        /\ ent'[w].out = NewOut(i, w)
    BY DispatchEntries
  <2>2. NewRUU # NewLSQ /\ inst_seq \in Nat
    BY DispatchWindow DEF CoreInv, FixInv, EntType
  <2>3. NewSeq(NewRUU) = inst_seq + 1 /\ NewSeq(NewLSQ) = inst_seq + 2
    BY <2>2 DEF NewSeq
  <2>4. w = NewRUU /\ s = NewLSQ /\ IsMem(i.kind)
    BY <1>6, <2>1, <2>2, <2>3
  <2> QED BY <1>3, <2>1, <2>4 DEF NewOut
<1>7. r = NA => Writers(s, k)' = {}
  BY <1>2, <1>4
<1>8. r # NA => r \in Reg /\ Writers(s, k)' = RegWriters(r)
  BY <1>1, <1>2, <1>3, <1>4, <1>5, <1>6 DEF RegWriters
<1> QED BY <1>7, <1>8 DEF r

\* The producer that the creator table names.
LEMMA CreatorOf ==
  ASSUME CoreInv, SpeculationInv, VectorInv, NEW i \in Inst, NEW mp \in BOOLEAN,
         Dispatch(i, mp), NEW s \in New(i), NEW k \in Operand
  PROVE  Tracks(ent', Writers(s, k)', completed', Creator(NewIns(i, s)[k]))
<1> DEFINE r == NewIns(i, s)[k]
           W == RegWriters(r)
           c == CREATE_VECTOR(r)
<1>1. CASE r = NA
  <2>1. Writers(s, k)' = {} /\ Creator(r) = None
    BY <1>1, NewWriters DEF Creator
  <2> QED BY <2>1 DEF Tracks
<1>2. CASE r # NA
  <2>1. Writers(s, k)' = W /\ Creator(r) = c /\ r \in Reg
    BY <1>2, NewWriters DEF Creator
  <2>2. stage = "dispatch" /\ completed' = completed \ New(i)
    BY DispatchParts
  <2>3. Tracks(ent, W, completed, c)
    BY <2>1, <2>2, CreatorIs
  <2>4. \A w \in W : ent'[w] = ent[w] /\ (w \in completed' <=> w \in completed)
    BY <2>2, DispatchNew DEF RegWriters
  <2> HIDE DEF W, c, r
  <2>5. Tracks(ent', W, completed', c)
    BY <2>3, <2>4, TracksSame
  <2> QED BY <2>1, <2>5 DEF r
<1> QED BY <1>1, <1>2

\* What dispatch does to the lists: the links of the new stations' operands
\* join the lists of their creators, and what was listed stays.
LEMMA DispatchOnList ==
  ASSUME CoreInv, SpeculationInv, VectorInv, NEW i \in Inst, NEW mp \in BOOLEAN,
         Dispatch(i, mp), NEW p \in Station, NEW k \in Operand
  PROVE  /\ \A s \in Live : OnList(p, s, k)' <=> OnList(p, s, k)
         /\ \A s \in New(i) : OnList(p, s, k)' <=> Creator(NewIns(i, s)[k]) = p
<1>1. /\ New(i) \cap Live = {} /\ tag' = tag /\ NewRUU # NewLSQ
      /\ \A h \in ValidAt(tag, odep_list[p]) : odep_list[p][h].rs \in Live
  BY DispatchNew, DispatchWindow, QueuesOld DEF CoreInv
<1> DEFINE u == NewLinks(i, p)
           n == Len(u)
<1>2. /\ \A j \in 1 .. n : \E s \in New(i), m \in Operand :
           /\ u[j] = NewLink(s, m) /\ Creator(NewIns(i, s)[m]) = p
      /\ \A s \in New(i), m \in Operand : Creator(NewIns(i, s)[m]) = p =>
              \E j \in 1 .. n : u[j] = NewLink(s, m)
  BY <1>1, NewLinksOnce
<1>3. \A s, m : /\ NewLink(s, m).rs = s /\ NewLink(s, m).opnum = m
                /\ HasTag(tag, NewLink(s, m))
  BY DEF NewLink, HasTag
<1>4. ASSUME p \in New(i) PROVE n = 0 /\ odep_list[p] = <<>>
  <2>1. u = <<>>
    BY <1>1, <1>4, NewLinksLive
  <2>2. odep_list[p] = <<>>
    BY <1>1, <1>4 DEF VectorInv, ListInv
  <2> QED BY <2>1, <2>2
<1>5. ASSUME NEW s \in Live \cup New(i), OnList(p, s, k)'
      PROVE  \/ s \in New(i) /\ Creator(NewIns(i, s)[k]) = p
             \/ s \in Live /\ OnList(p, s, k)
  <2>1. PICK j \in ValidAt(tag, odep_list'[p]) :
          odep_list'[p][j].rs = s /\ odep_list'[p][j].opnum = k
    BY <1>1, <1>5 DEF OnList
  <2>2. \/ j \in 1 .. n /\ odep_list'[p][j] = u[j]
        \/ /\ j - n \in ValidAt(tag, odep_list[p])
           /\ odep_list'[p][j] = odep_list[p][j - n]
    BY DispatchLists
  <2>3. CASE j \in 1 .. n /\ odep_list'[p][j] = u[j]
    <3>1. PICK t \in New(i), m \in Operand :
            u[j] = NewLink(t, m) /\ Creator(NewIns(i, t)[m]) = p
      BY <1>2, <2>3
    <3>2. t = s /\ m = k
      BY <1>3, <2>1, <2>3, <3>1
    <3> QED BY <3>1, <3>2
  <2>4. CASE /\ j - n \in ValidAt(tag, odep_list[p])
             /\ odep_list'[p][j] = odep_list[p][j - n]
    BY <1>1, <2>1, <2>4 DEF OnList
  <2> HIDE DEF u, n
  <2> QED BY <2>2, <2>3, <2>4
<1>6. ASSUME NEW s \in Live, OnList(p, s, k) PROVE OnList(p, s, k)'
  <2>1. PICK j \in ValidAt(tag, odep_list[p]) :
          odep_list[p][j].rs = s /\ odep_list[p][j].opnum = k
    BY <1>6 DEF OnList
  <2>2. p \notin New(i)
    <3>1. p \in Live
      BY <1>6, ListedIsLive DEF VectorInv
    <3> QED BY <1>1, <3>1
  <2> DEFINE m == j + n
  <2>3. m \in 1 .. Len(odep_list'[p]) /\ odep_list'[p][m] = odep_list[p][j]
    BY <2>1, <2>2, DispatchKeepsLinks DEF ValidAt
  <2> HIDE DEF m, n, u
  <2>4. m \in ValidAt(tag, odep_list'[p])
    BY <2>1, <2>3 DEF ValidAt
  <2> QED BY <1>1, <2>1, <2>3, <2>4 DEF OnList
<1>7. ASSUME NEW s \in New(i), Creator(NewIns(i, s)[k]) = p PROVE OnList(p, s, k)'
  <2>1. PICK j \in 1 .. n : u[j] = NewLink(s, k)
    BY <1>2, <1>7
  <2>2. p \notin New(i)
    BY <1>4, <2>1
  <2>3. j \in 1 .. Len(odep_list'[p]) /\ odep_list'[p][j] = u[j]
    BY <2>2, DispatchKeepsLinks
  <2>4. j \in ValidAt(tag, odep_list'[p])
    BY <1>3, <2>1, <2>3 DEF ValidAt
  <2> QED BY <1>1, <1>3, <2>1, <2>3, <2>4 DEF OnList
<1> HIDE DEF n, u
<1> QED BY <1>1, <1>5, <1>6, <1>7

LEMMA DispatchDepend ==
  ASSUME CoreInv, SpeculationInv, VectorInv, DepInv, NEW i \in Inst,
         NEW mp \in BOOLEAN, Dispatch(i, mp)
  PROVE  DepInv'
<1>1. /\ New(i) \cap Live = {} /\ Live' = Live \cup New(i)
      /\ \A s \in New(i) : idep_ready'[s] = ReadyIdeps(NewIns(i, s))
      /\ \A s \in Live : ent'[s] = ent[s] /\ idep_ready'[s] = idep_ready[s]
  BY DispatchNew
<1>2. completed' = completed \ New(i)
  BY DispatchParts
<1>3. \A k \in Operand, p \in Station :
        /\ \A s \in Live : OnList(p, s, k)' <=> OnList(p, s, k)
        /\ \A s \in New(i) : OnList(p, s, k)' <=> Creator(NewIns(i, s)[k]) = p
  BY DispatchOnList
<1>4. \A s \in New(i), k \in Operand :
        Tracks(ent', Writers(s, k)', completed', Creator(NewIns(i, s)[k]))
  BY CreatorOf
<1>5. ASSUME NEW s \in Live, NEW k \in Operand
      PROVE  /\ Writers(s, k)' = Writers(s, k)
             /\ \A p : Newest(ent', Writers(s, k)', p) <=> Newest(ent, Writers(s, k), p)
  <2>1. \A w \in New(i) : ~(ent'[w].seq < ent'[s].seq)
    <3> SUFFICES ASSUME NEW w \in New(i) PROVE ~(ent'[w].seq < ent'[s].seq)
      OBVIOUS
    <3>1. ent'[s].seq < ent'[w].seq /\ ent'[s].seq \in Nat /\ ent'[w].seq \in Nat
      BY DispatchEntries
    <3> QED BY <3>1
  <2>2. Writers(s, k)' = {w \in Live' : /\ ent'[s].ins[k] # NA
                                        /\ ent'[w].out = ent'[s].ins[k]
                                        /\ ent'[w].seq < ent'[s].seq}
    BY DEF Writers
  <2>3. Writers(s, k)' = Writers(s, k)
    BY <1>1, <2>1, <2>2 DEF Writers
  <2>4. \A w \in Writers(s, k) : ent'[w] = ent[w]
    BY <1>1 DEF Writers
  <2> QED BY <2>3, <2>4 DEF Newest
<1>6. ASSUME NEW p \in Station, NEW s \in Live', NEW k \in Operand, OnList(p, s, k)'
      PROVE  Newest(ent', Writers(s, k)', p)
  <2>1. CASE s \in Live
    BY <1>3, <1>5, <1>6, <2>1 DEF DepInv
  <2>2. CASE s \in New(i)
    <3>1. Creator(NewIns(i, s)[k]) = p /\ p # None
      BY <1>3, <1>6, <2>2, NoneAssumption
    <3> QED BY <1>4, <2>2, <3>1 DEF Tracks
  <2> QED BY <1>1, <2>1, <2>2
<1>7. ASSUME NEW s \in Live', NEW k \in Operand, k \notin idep_ready'[s]
      PROVE  \E p \in Station : OnList(p, s, k)'
  <2>1. CASE s \in Live
    BY <1>1, <1>3, <1>7, <2>1 DEF DepInv
  <2>2. CASE s \in New(i)
    <3>1. Creator(NewIns(i, s)[k]) # None
      BY <1>1, <1>7, <2>2 DEF ReadyIdeps
    <3>2. Creator(NewIns(i, s)[k]) \in Station
      <4>1. NewIns(i, s)[k] # NA
        BY <3>1 DEF Creator
      <4>2. NewIns(i, s)[k] \in Reg
        BY <2>2, <4>1, NewWriters
      <4> QED BY <3>1, <4>1, <4>2 DEF Creator, CREATE_VECTOR, CoreInv, CvType
    <3> QED BY <1>3, <2>2, <3>2
  <2> QED BY <1>1, <2>1, <2>2
<1>8. ASSUME NEW s \in Live', NEW k \in Operand, NEW p \in Live',
             k \in idep_ready'[s], Newest(ent', Writers(s, k)', p)
      PROVE  p \in completed'
  <2>1. CASE s \in Live
    <3>1. Newest(ent, Writers(s, k), p) /\ p \in Live
      BY <1>5, <1>8, <2>1 DEF Newest, Writers
    <3>2. p \in completed
      BY <1>1, <1>8, <2>1, <3>1 DEF DepInv
    <3> QED BY <1>1, <1>2, <3>1, <3>2
  <2>2. CASE s \in New(i)
    <3>1. Creator(NewIns(i, s)[k]) = None
      BY <1>1, <1>8, <2>2 DEF ReadyIdeps
    <3>2. p \in Station
      <4>1. Live \subseteq Station /\ New(i) \subseteq Station
        BY LiveStations, DispatchNew DEF CoreInv
      <4> QED BY <1>1, <4>1
    <3>3. p \in Writers(s, k)'
      BY <1>8 DEF Newest
    <3> QED BY <1>4, <1>8, <2>2, <3>1, <3>2, <3>3, NoneAssumption DEF Tracks
  <2> QED BY <1>1, <2>1, <2>2
<1> QED BY <1>6, <1>7, <1>8 DEF DepInv

-----------------------------------------------------------------------------
(* Every step.                                                             *)

\* Steps that touch none of it.
Unrenamed == /\ Still
             /\ UNCHANGED <<completed, odep_list, idep_ready, cvVars, spec_mode>>
             /\ \/ ~MidWriteback /\ ~MidWriteback'
                \/ UNCHANGED <<stage, wb>>

LEMMA UnrenamedSteps ==
  ASSUME CoreInv,
         CommitEnd \/ SkipEvent \/ WritebackEnd \/ Refresh \/ RefreshEnd
           \/ IssueSkip \/ IssueEnd \/ DispatchEnd \/ UNCHANGED vars
           \/ \E s \in Station : IssueToUnit(s) \/ IssueUnitless(s) \/ Requeue(s)
  PROVE  Unrenamed
<1> USE DEF Unrenamed, Still, MidWriteback, statusVars, countVars
<1>1. CASE CommitEnd
  BY <1>1 DEF CommitEnd
<1>2. CASE SkipEvent
  BY <1>2 DEF SkipEvent
<1>3. CASE WritebackEnd
  BY <1>3 DEF WritebackEnd
<1>4. CASE Refresh
  BY <1>4 DEF Refresh
<1>5. CASE RefreshEnd
  BY <1>5 DEF RefreshEnd
<1>6. CASE IssueSkip
  BY <1>6 DEF IssueSkip
<1>7. CASE IssueEnd
  BY <1>7 DEF IssueEnd
<1>8. CASE DispatchEnd
  BY <1>8 DEF DispatchEnd
<1>9. CASE UNCHANGED vars
  BY <1>9 DEF vars
<1>10. ASSUME NEW s \in Station, IssueToUnit(s) \/ IssueUnitless(s) PROVE Unrenamed
  <2>1. PICK lat \in Nat \ {0} : Execute(s, lat)
    BY <1>10, Starts
  <2> QED BY <2>1 DEF Execute
<1>11. ASSUME NEW s \in Station, Requeue(s) PROVE Unrenamed
  BY <1>11 DEF Requeue
<1> QED BY <1>1, <1>2, <1>3, <1>4, <1>5, <1>6, <1>7, <1>8, <1>9, <1>10, <1>11

LEMMA UnrenamedFrame ==
  ASSUME CoreInv, VectorInv, DepInv, Unrenamed
  PROVE  VectorInv' /\ DepInv'
<1>1. VectorInv'
  BY VectorFrame DEF Unrenamed
<1>2. Live' = Live /\ ent' = ent /\ tag' = tag
  BY StillWindow DEF Unrenamed, Still, CoreInv
<1>3. DepInv'
  BY <1>2, DependFrame DEF Unrenamed
<1> QED BY <1>1, <1>3

\* Writing back and issuing touch no list but the one that is taken apart.
LEMMA WritebackDepend ==
  ASSUME CoreInv, DepInv,
         Complete \/ CompleteMispredicted \/ RecoverEnd \/ BroadcastEnd
           \/ \E s \in Station : IssueStore(s)
  PROVE  DepInv'
<1>1. /\ Still /\ UNCHANGED <<odep_list, idep_ready>> /\ completed \subseteq completed'
  <2> USE DEF Still, statusVars, countVars
  <2>1. CASE Complete
    BY <2>1 DEF Complete
  <2>2. CASE CompleteMispredicted
    BY <2>2 DEF CompleteMispredicted
  <2>3. CASE RecoverEnd
    BY <2>3 DEF RecoverEnd
  <2>4. CASE BroadcastEnd
    BY <2>4 DEF BroadcastEnd
  <2>5. ASSUME NEW s \in Station, IssueStore(s)
        PROVE  /\ Still /\ UNCHANGED <<odep_list, idep_ready>>
               /\ completed \subseteq completed'
    BY <2>5 DEF IssueStore
  <2> QED BY <2>1, <2>2, <2>3, <2>4, <2>5
<1>2. Live' = Live /\ ent' = ent /\ tag' = tag
  BY <1>1, StillWindow DEF Still, CoreInv
<1> QED BY <1>1, <1>2, DependFrame

LEMMA NextRename ==
  CoreInv /\ FlowInv /\ SpeculationInv /\ RenameInv /\ [Next]_vars => RenameInv'
<1> SUFFICES ASSUME CoreInv, FlowInv, SpeculationInv, VectorInv, DepInv, [Next]_vars
             PROVE  VectorInv' /\ DepInv'
  BY DEF RenameInv, VectorInv
<1>1. CASE Commit
  BY <1>1, CommitVectors, CommitDepend
<1>2. CASE Squash
  BY <1>2, SquashVectors, SquashDepend
<1>3. CASE Complete
  BY <1>3, CompleteVectors, WritebackDepend
<1>4. CASE CompleteMispredicted
  BY <1>4, CompleteMispredictedVectors, WritebackDepend
<1>5. CASE RecoverEnd
  BY <1>5, RecoverEndVectors, WritebackDepend
<1>6. CASE Broadcast
  BY <1>6, BroadcastVectors, BroadcastDepend
<1>7. CASE BroadcastEnd
  BY <1>7, BroadcastEndVectors, WritebackDepend
<1>8. ASSUME NEW s \in Station, IssueStore(s) PROVE VectorInv' /\ DepInv'
  BY <1>8, IssueStoreVectors, WritebackDepend
<1>9. CASE DispatchInst
  BY <1>9, DispatchVectors, DispatchDepend DEF DispatchInst
<1>10. CASE \/ CommitEnd \/ SkipEvent \/ WritebackEnd \/ Refresh \/ RefreshEnd
            \/ IssueSkip \/ IssueEnd \/ DispatchEnd \/ UNCHANGED vars
            \/ \E s \in Station : IssueToUnit(s) \/ IssueUnitless(s) \/ Requeue(s)
  BY <1>10, UnrenamedSteps, UnrenamedFrame
<1> QED BY <1>1, <1>2, <1>3, <1>4, <1>5, <1>6, <1>7, <1>8, <1>9, <1>10 DEF Next

\* In every state the create vectors name the youngest writers, and who is on
\* a consumer list waits for the right one (ruu_install_odep, ruu_link_idep,
\* ruu_recover's clearing of use_spec_cv, ruu_writeback's clearing of the
\* creator).
THEOREM RenameInvariant == Spec => [](CoreInv /\ FlowInv /\ SpeculationInv /\ RenameInv)
<1>1. Init => CoreInv /\ FlowInv /\ SpeculationInv /\ RenameInv
  BY InitCore, InitFlow, InitSpeculation, InitRename
<1>2. (CoreInv /\ FlowInv /\ SpeculationInv /\ RenameInv) /\ [Next]_vars
        => (CoreInv /\ FlowInv /\ SpeculationInv /\ RenameInv)'
  BY NextCore, NextFlow, NextSpeculation, NextRename
<1> QED BY <1>1, <1>2, PTL DEF Spec

-----------------------------------------------------------------------------
(* What follows.                                                           *)

\* The producer that the reference definition chooses.
LEMMA ProducerIsNewest ==
  ASSUME CoreInv, SeqDistinct, NEW s \in Live, NEW k \in Operand
  PROVE  /\ Writers(s, k) # {} => Newest(ent, Writers(s, k), Producer(s, k))
         /\ \A p : Newest(ent, Writers(s, k), p) => p = Producer(s, k)
<1> DEFINE W == Writers(s, k)
           c == Producer(s, k)
<1>1. /\ inst_seq \in Nat /\ W \subseteq Live
      /\ \A w \in W : ent[w].seq \in Nat /\ ent[w].seq <= inst_seq
  BY LiveStations, EntryFields DEF Writers, CoreInv, FixInv, EntType, SeqBound
<1>2. c = CHOOSE w \in W : \A v \in W : ent[v].seq <= ent[w].seq
  BY DEF Producer
<1> HIDE DEF W, c
<1>3. ASSUME NEW p, Newest(ent, W, p) PROVE Newest(ent, W, c)
  <2>1. \E w \in W : \A v \in W : ent[v].seq <= ent[w].seq
    BY <1>3 DEF Newest
  <2> QED BY <1>2, <2>1 DEF Newest
<1>4. ASSUME W # {} PROVE \E p : Newest(ent, W, p)
  <2> DEFINE T == {inst_seq - ent[w].seq : w \in W}
  <2>1. T \in SUBSET Nat /\ T # {}
    BY <1>1, <1>4
  <2> HIDE DEF T
  <2>2. PICK x \in T : \A y \in T : x <= y
    BY <2>1, LeastExists
  <2>3. PICK w \in W : x = inst_seq - ent[w].seq
    BY <2>2 DEF T
  <2>4. ASSUME NEW v \in W PROVE ent[v].seq <= ent[w].seq
    <3>1. x <= inst_seq - ent[v].seq
      BY <2>2 DEF T
    <3> QED BY <1>1, <2>3, <3>1
  <2> QED BY <2>3, <2>4 DEF Newest
<1>5. ASSUME NEW p, Newest(ent, W, p) PROVE p = c
  <2>1. /\ p \in W /\ c \in W /\ ent[p].seq <= ent[c].seq /\ ent[c].seq <= ent[p].seq
    BY <1>3, <1>5 DEF Newest
  <2>2. ent[p].seq = ent[c].seq
    BY <1>1, <2>1
  <2> QED BY <1>1, <2>1, <2>2 DEF SeqDistinct
<1> QED BY <1>3, <1>4, <1>5 DEF W, c

\* An operand that waits is on the list of its producer, and nowhere else.
LEMMA WaitsForProducer ==
  ASSUME CoreInv, FlowInv, SeqDistinct, DepInv, NEW s \in Live, NEW k \in Operand,
         NEW p \in Station
  PROVE  OnList(p, s, k) <=> /\ k \notin idep_ready[s]
                             /\ Writers(s, k) # {} /\ p = Producer(s, k)
<1>1. ASSUME NEW q \in Station, OnList(q, s, k)
      PROVE  /\ k \notin idep_ready[s]
             /\ Writers(s, k) # {} /\ q = Producer(s, k)
  <2>1. k \notin idep_ready[s]
    BY <1>1 DEF OnList, FlowInv, WakeInv
  <2>2. Newest(ent, Writers(s, k), q)
    BY <1>1 DEF DepInv
  <2>3. q = Producer(s, k)
    BY <2>2, ProducerIsNewest
  <2> QED BY <2>1, <2>2, <2>3 DEF Newest
<1>2. ASSUME k \notin idep_ready[s], p = Producer(s, k) PROVE OnList(p, s, k)
  <2>1. PICK q \in Station : OnList(q, s, k)
    BY <1>2 DEF DepInv
  <2> QED BY <1>1, <1>2, <2>1
<1> QED BY <1>1, <1>2

\* Renaming is right: an operand waits exactly as long as the youngest older
\* writer of its register in the window has not completed, whatever was
\* squashed, retired or reused in between.
THEOREM RenamingIsRight == Spec => []TrueDependences
<1>1. CoreInv /\ FlowInv /\ SpeculationInv /\ RenameInv => TrueDependences
  <2> SUFFICES ASSUME CoreInv, FlowInv, SpeculationInv, RenameInv, ~MidWriteback,
                      NEW s \in Live, NEW k \in Operand
               PROVE  k \notin idep_ready[s] <=>
                        /\ Writers(s, k) # {}
                        /\ Producer(s, k) \notin completed
    BY DEF TrueDependences
  <2>1. SeqDistinct /\ ListInv /\ DepInv
    BY DEF SpeculationInv, RenameInv
  <2>2. ASSUME k \notin idep_ready[s]
        PROVE  Writers(s, k) # {} /\ Producer(s, k) \notin completed
    <3>1. PICK p \in Station : OnList(p, s, k)
      BY <2>1, <2>2 DEF DepInv
    <3>2. Writers(s, k) # {} /\ p = Producer(s, k)
      BY <2>1, <3>1, WaitsForProducer
    <3>3. p \notin completed
      BY <2>1, <3>1, ListedIsLive DEF ListInv
    <3> QED BY <3>2, <3>3
  <2>3. ASSUME k \in idep_ready[s], Writers(s, k) # {}
        PROVE  Producer(s, k) \in completed
    <3> DEFINE p == Producer(s, k)
    <3>1. Newest(ent, Writers(s, k), p)
      BY <2>1, <2>3, ProducerIsNewest
    <3> HIDE DEF p
    <3>2. p \in Live
      BY <3>1 DEF Newest, Writers
    <3>3. p \in completed
      BY <2>1, <2>3, <3>1, <3>2 DEF DepInv
    <3> QED BY <3>3 DEF p
  <2> QED BY <2>2, <2>3
<1> QED BY <1>1, RenameInvariant, PTL

\* No wake-up is lost or delivered twice: an operand that waits is on its
\* producer's consumer list once and on no other live list, so ruu_writeback
\* finds it there when the producer completes.
THEOREM WakeupsAreOnTheirWay == Spec => []WakeupsPending
<1>1. CoreInv /\ FlowInv /\ SpeculationInv /\ RenameInv => WakeupsPending
  <2> SUFFICES ASSUME CoreInv, FlowInv, SpeculationInv, RenameInv,
                      NEW s \in Live, NEW k \in Operand, NEW p \in Live
               PROVE  LET onOperand(l) == l.opnum = k
                      IN  Hits(odep_list[p], s, onOperand) =
                            IF /\ k \notin idep_ready[s]
                               /\ Writers(s, k) # {} /\ p = Producer(s, k)
                            THEN 1 ELSE 0
    BY DEF WakeupsPending
  <2> DEFINE q == odep_list[p]
             H == {i \in 1 .. Len(q) : q[i].rs = s /\ Valid(q[i]) /\ q[i].opnum = k}
  <2>1. H = {i \in ValidAt(tag, q) : q[i].rs = s /\ q[i].opnum = k}
    BY DEF ValidAt, HasTag, Valid
  <2>2. p \in Station
    BY LiveStations DEF CoreInv
  <2>3. OnList(p, s, k) <=> /\ k \notin idep_ready[s]
                            /\ Writers(s, k) # {} /\ p = Producer(s, k)
    BY <2>2, WaitsForProducer DEF SpeculationInv, RenameInv
  <2>4. CASE OnList(p, s, k)
    <3>1. PICK i \in ValidAt(tag, q) : q[i].rs = s /\ q[i].opnum = k
      BY <2>4 DEF OnList
    <3>2. H = {i}
      BY <2>1, <2>2, <3>1 DEF FlowInv, WakeInv
    <3> HIDE DEF H
    <3>3. Cardinality(H) = 1
      BY <3>2, FS_Singleton
    <3> QED BY <2>3, <2>4, <3>3 DEF Hits, H
  <2>5. CASE ~OnList(p, s, k)
    <3>1. H = {}
      BY <2>1, <2>5 DEF OnList
    <3> HIDE DEF H
    <3>2. Cardinality(H) = 0
      BY <3>1, FS_EmptySet
    <3> QED BY <2>3, <2>5, <3>2 DEF Hits, H
  <2> QED BY <2>4, <2>5
<1> QED BY <1>1, RenameInvariant, PTL

\* Each entry of the LSQ has its own address computation in the RUU.
LEMMA LoadsFit ==
  ASSUME FixInv
  PROVE  LSQ_num <= RUU_num
<1> DEFINE S == 0 .. LSQ_num - 1
           T == 0 .. RUU_num - 1
           f == [j \in S |-> CHOOSE k \in T :
                   ent[LSQ_slot(j)].seq = ent[RUU_slot(k)].seq + 1]
<1>1. /\ RUU_num \in Nat /\ LSQ_num \in Nat
      /\ \A k \in T : ent[RUU_slot(k)].seq \in Nat
      /\ \A j \in S : ent[LSQ_slot(j)].seq \in Nat
      /\ \A j, k \in S : j < k => ent[LSQ_slot(j)].seq < ent[LSQ_slot(k)].seq
      /\ \A j \in S : \E k \in T : ent[LSQ_slot(j)].seq = ent[RUU_slot(k)].seq + 1
  BY WindowOrder
<1>2. \A j \in S : /\ f[j] \in T
                   /\ ent[LSQ_slot(j)].seq = ent[RUU_slot(f[j])].seq + 1
  BY <1>1
<1>3. f \in [S -> T]
  BY <1>2
<1> HIDE DEF f
<1>4. ASSUME NEW j \in S, NEW k \in S, f[j] = f[k] PROVE j = k
  <2>1. ent[LSQ_slot(j)].seq = ent[LSQ_slot(k)].seq /\ ent[LSQ_slot(j)].seq \in Nat
    BY <1>1, <1>2, <1>4
  <2>2. ~(j < k) /\ ~(k < j)
    BY <1>1, <2>1
  <2> QED BY <1>1, <2>2
<1>5. f \in Injection(S, T)
  BY <1>3, <1>4 DEF Injection, IsInjective
<1>6. /\ IsFiniteSet(T) /\ Cardinality(T) = RUU_num /\ Cardinality(S) = LSQ_num
  <2>1. \A n \in Nat : IsFiniteSet(0 .. n - 1) /\ Cardinality(0 .. n - 1) = n
    <3> SUFFICES ASSUME NEW n \in Nat
                 PROVE  IsFiniteSet(0 .. n - 1) /\ Cardinality(0 .. n - 1) = n
      OBVIOUS
    <3> DEFINE m == n - 1
    <3>1. 0 \in Int /\ m \in Int
      OBVIOUS
    <3>2. (IF 0 > m THEN 0 ELSE m - 0 + 1) = n
      OBVIOUS
    <3> HIDE DEF m
    <3>3. IsFiniteSet(0 .. m) /\ Cardinality(0 .. m) = n
      BY <3>1, <3>2, FS_Interval
    <3> QED BY <3>3 DEF m
  <2> QED BY <1>1, <2>1
<1> HIDE DEF S, T
<1>7. Cardinality(S) <= Cardinality(T)
  BY <1>5, <1>6, FS_Injection
<1> QED BY <1>6, <1>7

\* No sequence of dispatches, latencies and mispredictions reaches one of the
\* panic() calls of the core: sim_main's sanity checks, and those of ruu_commit,
\* ruu_writeback, ruu_recover, readyq_enqueue, ruu_issue and ruu_dispatch.
THEOREM NothingPanics == Spec => []NoPanic
<1>1. CoreInv => ~WedgedWindow
  <2> SUFFICES ASSUME CoreInv, WedgedWindow PROVE FALSE
    OBVIOUS
  <2>1. ~(RUU_num < LSQ_num)
    <3>1. LSQ_num <= RUU_num /\ RUU_num \in Int /\ LSQ_num \in Int
      BY LoadsFit DEF CoreInv, FixInv, WinType
    <3> QED BY <3>1
  <2>2. /\ RUU_tail = (RUU_head + RUU_num) % RUU_size
        /\ LSQ_tail = (LSQ_head + LSQ_num) % LSQ_size
    BY DEF CoreInv, FixInv, WindowInSync, RUUQueue, LSQQueue
  <2> QED BY <2>1, <2>2 DEF WedgedWindow
<1>2. CoreInv /\ RenameInv => ~CommitOutOfSync
  <2> SUFFICES ASSUME CoreInv, RenameInv, CommitOutOfSync PROVE FALSE
    OBVIOUS
  <2>1. /\ stage = "commit" /\ RUU_num > 0 /\ CommitHead \in completed
        /\ \/ ent[CommitHead].ea_comp /\ LSQ_num <= 0
           \/ odep_list[CommitHead] # <<>>
    BY DEF CommitOutOfSync
  <2>2. CommitHead \in Station
    BY Stations DEF CommitHead, CoreInv, FixInv, WinType
  <2>3. odep_list[CommitHead] = <<>>
    BY <2>1, <2>2 DEF RenameInv, ListInv, MidWriteback
  <2>4. ent[CommitHead].ea_comp => LSQ_num > 0 /\ LSQ_num \in Int
    BY <2>1, Ends DEF CoreInv, FixInv, WinType
  <2> QED BY <2>1, <2>3, <2>4
<1>3. CoreInv /\ RenameInv => ~(WedgedWindow \/ CommitOutOfSync)
  BY <1>1, <1>2
<1>4. /\ ~(WedgedWindow \/ CommitOutOfSync) /\ ~BadSquash /\ ~(BadWakeup \/ BadIssue)
      /\ ~(BadCompletion \/ DrainedSpeculative)
      => NoPanic
  BY DEF NoPanic
<1> QED BY <1>3, <1>4, RenameInvariant, SquashCorrect, WakeupsAreFresh,
           CompletionsAreRight, PTL

-----------------------------------------------------------------------------
(* The in-order machine.                                                   *)

\* What a station that younger ones may pass has: its operands, or, for an
\* address computation, its base register.
Sat(s) == OperandsReady(s) \/ (ent[s].ea_comp /\ 1 \in idep_ready[s])

\* The op o is the youngest instruction, in the RUU or in the LSQ.
Guards(o, s) ==
  /\ o # None /\ Valid(o)
  /\ \/ o.rs = s
     \/ ent[s].ea_comp /\ o.rs \in LiveLSQ /\ ent[o.rs].seq = ent[s].seq + 1

\* All but the youngest have what they need, and last_op watches that one.
OrderInv ==
  ruu_inorder_issue =>
    /\ \A s \in LiveRUU : s # LastRUU => Sat(s)
    /\ RUU_num > 0 => Sat(LastRUU) \/ Guards(last_op, LastRUU)

\* A load or store needs the base register of its address computation, which
\* writes the reserved name that no operand has.
PairInv ==
  /\ \A r \in LiveRUU, l \in LiveLSQ :
       ent[r].ea_comp /\ ent[l].seq = ent[r].seq + 1 =>
         ent[l].ins[1] = ent[r].ins[1] /\ ent[r].out = DTMP
  /\ \A s \in Live, k \in Operand : ent[s].ins[k] # DTMP

InorderInv == OrderInv /\ PairInv

LEMMA InitInorder == Init => InorderInv
<1> SUFFICES ASSUME Init PROVE InorderInv
  OBVIOUS
<1>1. LiveRUU = {} /\ LiveLSQ = {} /\ Live = {} /\ RUU_num = 0
  BY DEF Init, Live, LiveRUU, LiveLSQ
<1> QED BY <1>1 DEF InorderInv, OrderInv, PairInv

LEMMA SatGrows ==
  ASSUME CoreInv, idep_ready' \in [Station -> SUBSET Operand], NEW s \in Station,
         ent' = ent, idep_ready[s] \subseteq idep_ready'[s], Sat(s)
  PROVE  Sat(s)'
<1>1. idep_ready'[s] \subseteq Operand /\ (OperandsReady(s)' <=> idep_ready'[s] = Operand)
  BY DEF OperandsReady
<1>2. OperandsReady(s) => OperandsReady(s)'
  BY <1>1 DEF OperandsReady
<1> QED BY <1>2 DEF Sat

LEMMA InorderFrame ==
  ASSUME CoreInv, CoreInv', InorderInv, Still, last_op' = last_op,
         \A s \in Station : idep_ready[s] \subseteq idep_ready'[s]
  PROVE  InorderInv'
<1>1. /\ Live' = Live /\ LiveRUU' = LiveRUU /\ ent' = ent /\ tag' = tag
      /\ UNCHANGED windowVars
  BY StillWindow DEF Still, CoreInv
<1>2. LiveLSQ' = LiveLSQ /\ LastRUU' = LastRUU /\ RUU_num' = RUU_num
  BY <1>1 DEF windowVars, LiveLSQ, LSQ_slot, LastRUU
<1>3. LiveRUU \subseteq Station /\ (RUU_num > 0 => LastRUU \in Station)
  <2>1. LiveRUU \subseteq Station
    BY LiveStations DEF CoreInv
  <2>2. ASSUME RUU_num > 0 PROVE LastRUU \in Station
    <3>1. LastRUU = RUU_slot(RUU_num - 1) /\ RUU_num - 1 \in 0 .. RUU_size
      BY <2>2, Ends, Sizes DEF CoreInv
    <3> QED BY <3>1, Slots DEF CoreInv, FixInv
  <2> QED BY <2>1, <2>2
<1>4. \A s \in Station : Sat(s) => Sat(s)'
  <2>1. idep_ready' \in [Station -> SUBSET Operand]
    BY DEF CoreInv, StatType
  <2> QED BY <1>1, <2>1, SatGrows
<1>5. \A s : Guards(last_op, s)' <=> Guards(last_op, s)
  BY <1>1, <1>2 DEF Guards, Valid
<1>6. OrderInv'
  BY <1>1, <1>2, <1>3, <1>4, <1>5 DEF InorderInv, OrderInv
<1>7. PairInv'
  BY <1>1, <1>2 DEF InorderInv, PairInv
<1> QED BY <1>6, <1>7 DEF InorderInv

\* The oldest and the youngest of two are not the same.
LEMMA EndsDiffer ==
  ASSUME FixInv, RUU_num > 1
  PROVE  /\ LastRUU \in LiveRUU /\ LastRUU # CommitHead
         /\ \A k \in 0 .. RUU_num - 2 : RUU_slot(k) # LastRUU
<1> DEFINE n == RUU_num - 1
<1>1. /\ RUU_num \in Int /\ n \in 0 .. RUU_num - 1 /\ LastRUU = RUU_slot(n)
      /\ CommitHead = RUU_slot(0)
      /\ \A k \in 0 .. RUU_num - 1 : ent[RUU_slot(k)].seq \in Nat
      /\ \A j, k \in 0 .. RUU_num - 1 :
              j < k => ent[RUU_slot(j)].seq < ent[RUU_slot(k)].seq
  BY Ends, WindowOrder
<1>2. ASSUME NEW k \in 0 .. RUU_num - 2 PROVE RUU_slot(k) # LastRUU
  <2>1. k \in 0 .. RUU_num - 1 /\ k < n
    BY <1>1
  <2> HIDE DEF n
  <2>2. /\ ent[RUU_slot(k)].seq < ent[RUU_slot(n)].seq
        /\ ent[RUU_slot(n)].seq \in Nat
    BY <1>1, <2>1
  <2>3. ~(ent[RUU_slot(n)].seq < ent[RUU_slot(n)].seq)
    BY <2>2
  <2> QED BY <1>1, <2>2, <2>3
<1>3. 0 \in 0 .. RUU_num - 2
  BY <1>1
<1> QED BY <1>1, <1>2, <1>3 DEF LiveRUU

LEMMA CommitInorder ==
  ASSUME CoreInv, SpeculationInv, InorderInv, Commit
  PROVE  InorderInv'
<1>1. /\ Live' = Live \ Retired /\ LiveRUU' = LiveRUU \ Retired
      /\ LiveLSQ' = LiveLSQ \ Retired
      /\ tag' = [s \in Station |-> IF s \in Retired THEN tag[s] + 1 ELSE tag[s]]
  BY CommitWindow
<1>2. /\ RUU_num > 0 /\ RUU_num' = RUU_num - 1 /\ RUU_tail' = RUU_tail
      /\ UNCHANGED <<ent, idep_ready, last_op>>
  BY DEF Commit, CanRetire
<1>3. LastRUU' = LastRUU
  BY <1>2 DEF LastRUU
<1>4. \A s : Sat(s)' <=> Sat(s)
  BY <1>2 DEF Sat, OperandsReady
<1>5. ASSUME RUU_num' > 0, Guards(last_op, LastRUU) PROVE Guards(last_op, LastRUU)'
  <2>1. RUU_num > 1
    BY <1>2, <1>5 DEF CoreInv, FixInv, WinType
  <2>2. LastRUU \in Live /\ LastRUU \notin Retired
    <3>1. LastRUU \in LiveRUU /\ LastRUU # CommitHead
      BY <2>1, EndsDiffer DEF CoreInv
    <3>2. LastRUU # CommitMem
      BY Stations DEF LastRUU, CommitMem
    <3> QED BY <3>1, <3>2 DEF Live, Retired
  <2>3. last_op.rs \notin Retired
    <3>1. CASE last_op.rs = LastRUU
      BY <2>2, <3>1
    <3>2. CASE last_op.rs \in LiveLSQ /\ ent[last_op.rs].seq = ent[LastRUU].seq + 1
      <4> SUFFICES ASSUME last_op.rs \in Retired PROVE FALSE
        OBVIOUS
      <4>1. ent[last_op.rs].seq < ent[LastRUU].seq
        BY <1>2, <2>2, HeadIsOldest DEF CoreInv, SpeculationInv
      <4>2. ent[LastRUU].seq \in Nat
        BY <2>2, LiveStations, EntryFields DEF CoreInv, FixInv
      <4> QED BY <3>2, <4>1, <4>2
    <3> QED BY <1>5, <3>1, <3>2 DEF Guards
  <2>4. last_op.rs \in Station
    BY <1>5 DEF Guards, CoreInv, CntType
  <2>5. tag'[last_op.rs] = tag[last_op.rs]
    BY <1>1, <2>3, <2>4
  <2> QED BY <1>1, <1>2, <1>3, <1>5, <2>3, <2>5 DEF Guards, Valid
<1>6. OrderInv'
  BY <1>1, <1>2, <1>3, <1>4, <1>5 DEF InorderInv, OrderInv
<1>7. PairInv'
  BY <1>1, <1>2 DEF InorderInv, PairInv
<1> QED BY <1>6, <1>7 DEF InorderInv

LEMMA SquashInorder ==
  ASSUME CoreInv, InorderInv, Squash
  PROVE  InorderInv'
<1>1. /\ Live' = Live \ Squashed /\ LiveRUU' = LiveRUU \ Squashed
      /\ LiveLSQ' = LiveLSQ \ Squashed
  BY SquashWindow
<1>2. /\ RUU_num' = RUU_num - 1 /\ RUU_tail' = Dec(RUU_tail, RUU_size)
      /\ UNCHANGED <<ent, idep_ready>>
  BY DEF Squash, RUU
<1>3. \A s : Sat(s)' <=> Sat(s)
  BY <1>2 DEF Sat, OperandsReady
<1>4. LastRUU \in Squashed
  BY DEF Squashed
<1>5. RUU_num' > 0 => LastRUU' \in LiveRUU /\ LastRUU' # LastRUU
  <2> SUFFICES ASSUME RUU_num' > 0 PROVE LastRUU' \in LiveRUU /\ LastRUU' # LastRUU
    OBVIOUS
  <2> DEFINE n == RUU_num - 2
  <2>1. /\ RUU_num \in 2 .. RUU_size /\ RUU_head \in 0 .. RUU_size - 1
        /\ RUU_tail = At(RUU_head, RUU_num, RUU_size)
    <3>1. /\ RUU_num \in 0 .. RUU_size /\ RUU_head \in 0 .. RUU_size - 1
          /\ RUU_tail = At(RUU_head, RUU_num, RUU_size)
      BY WindowForm, Ends DEF CoreInv, FixInv, WinType, Win
    <3> QED BY <1>2, <3>1
  <2>2. /\ Dec(RUU_tail, RUU_size) = At(RUU_head, RUU_num - 1, RUU_size)
        /\ Dec(At(RUU_head, RUU_num - 1, RUU_size), RUU_size) = At(RUU_head, n, RUU_size)
    <3>1. \A m \in 1 .. RUU_size :
            Dec(At(RUU_head, m, RUU_size), RUU_size) = At(RUU_head, m - 1, RUU_size)
      BY <2>1, Sizes, AtDec
    <3>2. RUU_num - 1 \in 1 .. RUU_size /\ (RUU_num - 1) - 1 = n
      BY <2>1, Sizes
    <3> QED BY <2>1, <3>1, <3>2
  <2>3. LastRUU' = RUU(Dec(RUU_tail', RUU_size))
    BY DEF LastRUU
  <2>4. n \in 0 .. RUU_num - 2 /\ n \in 0 .. RUU_size /\ n \in 0 .. RUU_num - 1
    BY <2>1, Sizes
  <2>5. LastRUU' = RUU_slot(n)
    <3> HIDE DEF n
    <3> QED BY <1>2, <2>2, <2>3, <2>4, Slots DEF CoreInv, FixInv
  <2>6. RUU_slot(n) \in LiveRUU
    BY <2>4 DEF LiveRUU
  <2>7. RUU_slot(n) # LastRUU
    <3> HIDE DEF n
    <3> QED BY <2>1, <2>4, EndsDiffer DEF CoreInv
  <2> QED BY <2>5, <2>6, <2>7
<1>6. OrderInv'
  BY <1>1, <1>3, <1>4, <1>5 DEF InorderInv, OrderInv
<1>7. PairInv'
  BY <1>1, <1>2 DEF InorderInv, PairInv
<1> QED BY <1>6, <1>7 DEF InorderInv

\* The slot that a dispatch fills becomes the youngest.
LEMMA DispatchLast ==
  ASSUME CoreInv, NEW i \in Inst, NEW mp \in BOOLEAN, Dispatch(i, mp)
  PROVE  LastRUU' = NewRUU
<1>1. RUU_tail \in 0 .. RUU_size - 1 /\ RUU_size \in Int /\ RUU_size > 0
  BY Sizes DEF CoreInv, FixInv, WinType
<1>2. RUU_tail' = Inc(RUU_tail, RUU_size)
  BY DEF Dispatch
<1>3. Inc(RUU_tail, RUU_size) = At(RUU_tail, 1, RUU_size)
  <2>1. Inc(RUU_tail, RUU_size)
          = IF RUU_tail + 1 < RUU_size THEN RUU_tail + 1 ELSE RUU_tail + 1 - RUU_size
    BY <1>1, WrapOnce DEF Inc
  <2> QED BY <1>1, <2>1 DEF At
<1>4. Dec(At(RUU_tail, 1, RUU_size), RUU_size) = At(RUU_tail, 0, RUU_size)
  <2>1. 1 \in 1 .. RUU_size /\ 1 - 1 = 0
    BY <1>1
  <2>2. Dec(At(RUU_tail, 1, RUU_size), RUU_size) = At(RUU_tail, 1 - 1, RUU_size)
    BY <1>1, <2>1, AtDec
  <2> QED BY <2>1, <2>2
<1>5. At(RUU_tail, 0, RUU_size) = RUU_tail
  BY <1>1 DEF At
<1> QED BY <1>2, <1>3, <1>4, <1>5 DEF LastRUU, NewRUU

\* A load or store that has its base register is not ahead of its address
\* computation.
LEMMA PairReady ==
  ASSUME CoreInv, SpeculationInv, RenameInv, PairInv, stage = "dispatch",
         NEW r \in LiveRUU, NEW l \in LiveLSQ, ent[r].ea_comp,
         ent[l].seq = ent[r].seq + 1, 1 \in idep_ready[l]
  PROVE  1 \in idep_ready[r]
<1> SUFFICES ASSUME 1 \notin idep_ready[r] PROVE FALSE
  OBVIOUS
<1>1. r \in Live /\ l \in Live /\ 1 \in Operand
  BY DEF Live, Operand
<1>2. ent[l].ins[1] = ent[r].ins[1] /\ ent[r].out = DTMP /\ ent[r].ins[1] # DTMP
  BY <1>1 DEF PairInv
<1>3. \A w \in Live : ent[w].seq \in Nat
  BY LiveStations, EntryFields DEF CoreInv, FixInv
<1>4. Writers(l, 1) = Writers(r, 1)
  <2>1. ASSUME NEW w \in Live, ent[w].out = ent[r].ins[1]
        PROVE  ent[w].seq < ent[l].seq <=> ent[w].seq < ent[r].seq
    <3>1. ent[w].seq # ent[r].seq
      BY <1>1, <1>2, <2>1 DEF SpeculationInv, SeqDistinct
    <3>2. /\ ent[w].seq \in Nat /\ ent[r].seq \in Nat /\ ent[l].seq \in Nat
      BY <1>1, <1>3
    <3> QED BY <3>1, <3>2
  <2> QED BY <1>2, <2>1 DEF Writers
<1>5. PICK p \in Station : OnList(p, r, 1)
  BY <1>1 DEF RenameInv, DepInv
<1>6. Newest(ent, Writers(l, 1), p)
  BY <1>1, <1>4, <1>5 DEF RenameInv, DepInv
<1>7. p \in Live
  BY <1>6 DEF Newest, Writers
<1>8. p \in completed
  BY <1>1, <1>6, <1>7 DEF RenameInv, DepInv
<1>9. odep_list[p] # <<>>
  BY <1>5, EmptySeq DEF OnList, ValidAt
<1> QED BY <1>8, <1>9 DEF RenameInv, ListInv, MidWriteback

\* No instruction is dispatched behind one that younger ones may not pass.
LEMMA StallHolds ==
  ASSUME CoreInv, SpeculationInv, RenameInv, InorderInv, ruu_inorder_issue,
         NEW i \in Inst, NEW mp \in BOOLEAN, Dispatch(i, mp), NEW s \in LiveRUU
  PROVE  Sat(s)
<1>1. stage = "dispatch" /\ ~InorderStall
  BY DEF Dispatch
<1>2. CASE s # LastRUU
  BY <1>2 DEF InorderInv, OrderInv
<1>3. CASE s = LastRUU
  <2>1. RUU_num > 0
    <3>1. RUU_num \in Int
      BY DEF CoreInv, FixInv, WinType
    <3> QED BY <3>1 DEF LiveRUU
  <2>2. CASE Sat(LastRUU)
    BY <1>3, <2>2
  <2>3. CASE Guards(last_op, LastRUU)
    <3>1. OperandsReady(last_op.rs)
      BY <1>1, <2>3 DEF InorderStall, Guards
    <3>2. CASE last_op.rs = s
      BY <3>1, <3>2 DEF Sat
    <3>3. CASE /\ ent[s].ea_comp /\ last_op.rs \in LiveLSQ
               /\ ent[last_op.rs].seq = ent[s].seq + 1
      <4>1. 1 \in idep_ready[last_op.rs]
        BY <3>1 DEF OperandsReady, Operand
      <4>2. 1 \in idep_ready[s]
        BY <1>1, <3>3, <4>1, PairReady DEF InorderInv
      <4> QED BY <3>3, <4>2 DEF Sat
    <3> QED BY <1>3, <2>3, <3>2, <3>3 DEF Guards
  <2> QED BY <2>1, <2>2, <2>3 DEF InorderInv, OrderInv
<1> QED BY <1>2, <1>3

\* ruu_dispatch's last_op watches what it has just dispatched.
LEMMA LastOpWatches ==
  ASSUME CoreInv, ruu_inorder_issue, NEW i \in Inst, NEW mp \in BOOLEAN,
         Dispatch(i, mp)
  PROVE  Sat(LastRUU)' \/ Guards(last_op, LastRUU)'
<1>1. last_op' = IF IsMem(i.kind) THEN Link(NewLSQ)
                 ELSE IF ReadyIdeps(NewIns(i, NewRUU)) = Operand THEN None
                 ELSE Link(NewRUU)
  BY DEF Dispatch, NewRUU, NewLSQ, NewIns
<1>2. /\ NewRUU \in Station /\ NewLSQ \in Station /\ tag' = tag
      /\ NewRUU \in New(i) /\ idep_ready'[NewRUU] = ReadyIdeps(NewIns(i, NewRUU))
      /\ LastRUU' = NewRUU
  BY DispatchWindow, DispatchNew, DispatchLast
<1>3. \A s \in Station : /\ Link(s) # None /\ Link(s).rs = s
                         /\ Link(s).tag = tag'[s]
  <2> SUFFICES ASSUME NEW s \in Station
               PROVE  Link(s) # None /\ Link(s).rs = s /\ Link(s).tag = tag'[s]
    OBVIOUS
  <2>1. tag[s] \in Nat
    BY EntryFields DEF CoreInv, FixInv
  <2>2. Link(s) \in [rs : Station, tag : Nat]
    BY <2>1 DEF Link
  <2> QED BY <1>2, <2>2, NoneAssumption DEF Link
<1>4. CASE IsMem(i.kind)
  <2>1. NewLSQ \in LiveLSQ' /\ NewLSQ \in New(i) /\ NewRUU # NewLSQ
    BY <1>4, DispatchWindow DEF New
  <2>2. /\ ent'[NewRUU] = NewEntry(i, mp, NewRUU)
        /\ ent'[NewLSQ] = NewEntry(i, mp, NewLSQ)
    BY <1>2, <2>1, DispatchNew
  <2>3. ent'[NewRUU].ea_comp
    <3>1. NewEntry(i, mp, NewRUU).ea_comp <=> IsMem(i.kind)
      BY DEF NewEntry
    <3> QED BY <1>4, <2>2, <3>1, Zenon
  <2>4. ent'[NewLSQ].seq = ent'[NewRUU].seq + 1
    <3>1. ent'[NewRUU].seq = inst_seq + 1 /\ ent'[NewLSQ].seq = inst_seq + 2
      BY <2>1, <2>2 DEF NewEntry, NewSeq
    <3>2. inst_seq \in Int
      BY DEF CoreInv, FixInv, EntType
    <3> QED BY <3>1, <3>2
  <2>5. last_op' = Link(NewLSQ)
    BY <1>1, <1>4
  <2> QED BY <1>2, <1>3, <2>1, <2>3, <2>4, <2>5 DEF Guards, Valid
<1>5. CASE ~IsMem(i.kind) /\ ReadyIdeps(NewIns(i, NewRUU)) = Operand
  BY <1>2, <1>5 DEF Sat, OperandsReady
<1>6. CASE ~IsMem(i.kind) /\ ReadyIdeps(NewIns(i, NewRUU)) # Operand
  BY <1>1, <1>2, <1>3, <1>6 DEF Guards, Valid
<1> QED BY <1>4, <1>5, <1>6

LEMMA DispatchPairs ==
  ASSUME CoreInv, PairInv, NEW i \in Inst, NEW mp \in BOOLEAN, Dispatch(i, mp)
  PROVE  PairInv'
<1>1. /\ New(i) \cap Live = {} /\ Live' = Live \cup New(i)
      /\ \A s \in Live : ent'[s] = ent[s]
      /\ LiveRUU' = LiveRUU \cup {NewRUU}
      /\ LiveLSQ' = LiveLSQ \cup (IF IsMem(i.kind) THEN {NewLSQ} ELSE {})
      /\ NewRUU # NewLSQ /\ LiveRUU \subseteq Live /\ LiveLSQ \subseteq Live
  BY DispatchNew, DispatchWindow DEF Live
<1>2. \A s \in Live : ent[s].seq \in Nat /\ ent[s].seq <= inst_seq
  BY LiveStations, EntryFields DEF CoreInv, FixInv, SeqBound
<1>3. /\ inst_seq \in Nat
      /\ ent'[NewRUU].seq = inst_seq + 1
      /\ ent'[NewRUU].ins = i.ins /\ ent'[NewRUU].out = NewOut(i, NewRUU)
      /\ ent'[NewRUU].ea_comp <=> IsMem(i.kind)
  <2>1. ent'[NewRUU] = NewEntry(i, mp, NewRUU)
    BY DispatchNew
  <2>2. inst_seq \in Nat
    BY DEF CoreInv, FixInv, EntType
  <2>3. /\ NewEntry(i, mp, NewRUU).seq = inst_seq + 1
        /\ NewEntry(i, mp, NewRUU).ins = i.ins
        /\ NewEntry(i, mp, NewRUU).out = NewOut(i, NewRUU)
    BY DEF NewEntry, NewSeq, NewIns
  <2>4. NewEntry(i, mp, NewRUU).ea_comp <=> IsMem(i.kind)
    BY DEF NewEntry
  <2> QED BY <2>1, <2>2, <2>3, <2>4, Zenon
<1>4. IsMem(i.kind) => ent'[NewLSQ].seq = inst_seq + 2 /\ ent'[NewLSQ].ins = LsqIns(i)
  <2>1. IsMem(i.kind) => ent'[NewLSQ] = NewEntry(i, mp, NewLSQ)
    BY DispatchNew DEF New
  <2> QED BY <1>1, <2>1 DEF NewEntry, NewSeq, NewIns
<1>5. ASSUME NEW r \in LiveRUU', NEW l \in LiveLSQ', ent'[r].ea_comp,
             ent'[l].seq = ent'[r].seq + 1
      PROVE  ent'[l].ins[1] = ent'[r].ins[1] /\ ent'[r].out = DTMP
  <2>1. CASE r \in LiveRUU /\ l \in LiveLSQ
    BY <1>1, <1>5, <2>1 DEF PairInv
  <2>2. CASE r = NewRUU /\ l \in LiveLSQ
    <3>1. ent'[l].seq \in Nat /\ ent'[l].seq <= inst_seq
      BY <1>1, <1>2, <2>2
    <3> QED BY <1>3, <1>5, <2>2, <3>1
  <2>3. CASE r \in LiveRUU /\ l = NewLSQ /\ IsMem(i.kind)
    <3>1. ent'[r].seq \in Nat /\ ent'[r].seq <= inst_seq
      BY <1>1, <1>2, <2>3
    <3> QED BY <1>3, <1>4, <1>5, <2>3, <3>1
  <2>4. CASE r = NewRUU /\ l = NewLSQ /\ IsMem(i.kind)
    <3>1. LsqIns(i)[1] = i.ins[1]
      BY DEF LsqIns, Operand, STORE_ADDR_INDEX
    <3> QED BY <1>3, <1>4, <2>4, <3>1 DEF NewOut
  <2> QED BY <1>1, <2>1, <2>2, <2>3, <2>4
<1>6. ASSUME NEW s \in Live', NEW k \in Operand PROVE ent'[s].ins[k] # DTMP
  <2>1. CASE s \in Live
    BY <1>1, <2>1 DEF PairInv
  <2>2. CASE s \in New(i)
    <3>1. ent'[s].ins = NewIns(i, s)
      BY <2>2, DispatchEntries
    <3>2. DTMP # i.ins[1] /\ DTMP # i.ins[2] /\ DTMP # NA /\ k \in {1, 2}
      BY InstAssumption DEF Operand
    <3> QED BY <3>1, <3>2 DEF NewIns, LsqIns
  <2> QED BY <1>1, <2>1, <2>2
<1> QED BY <1>5, <1>6 DEF PairInv

LEMMA DispatchInorder ==
  ASSUME CoreInv, SpeculationInv, RenameInv, InorderInv,
         NEW i \in Inst, NEW mp \in BOOLEAN, Dispatch(i, mp)
  PROVE  InorderInv'
<1>1. /\ \A s \in Live : ent'[s] = ent[s] /\ idep_ready'[s] = idep_ready[s]
      /\ LiveRUU' = LiveRUU \cup {NewRUU} /\ LiveRUU \subseteq Live
      /\ LastRUU' = NewRUU
  BY DispatchNew, DispatchWindow, DispatchLast DEF Live
<1>2. \A s \in Live : Sat(s) => Sat(s)'
  BY <1>1 DEF Sat, OperandsReady
<1>3. OrderInv'
  <2> SUFFICES ASSUME ruu_inorder_issue
               PROVE  /\ \A s \in LiveRUU' : s # NewRUU => Sat(s)'
                      /\ Sat(LastRUU)' \/ Guards(last_op, LastRUU)'
    BY <1>1 DEF OrderInv
  <2>1. \A s \in LiveRUU : Sat(s)
    BY StallHolds
  <2>2. Sat(LastRUU)' \/ Guards(last_op, LastRUU)'
    BY LastOpWatches
  <2> QED BY <1>1, <1>2, <2>1, <2>2
<1>4. PairInv'
  BY DispatchPairs DEF InorderInv
<1> QED BY <1>3, <1>4 DEF InorderInv

LEMMA NextInorder ==
  CoreInv /\ SpeculationInv /\ RenameInv /\ InorderInv /\ [Next]_vars => InorderInv'
<1> SUFFICES ASSUME CoreInv, SpeculationInv, RenameInv, InorderInv, [Next]_vars
             PROVE  InorderInv'
  OBVIOUS
<1>1. CASE Commit
  BY <1>1, CommitInorder
<1>2. CASE Squash
  BY <1>2, SquashInorder
<1>3. CASE DispatchInst
  BY <1>3, DispatchInorder DEF DispatchInst
<1>4. CASE Broadcast
  <2>1. Still /\ last_op' = last_op
    BY <1>4 DEF Broadcast, Still, countVars
  <2>2. \A s \in Station : idep_ready[s] \subseteq idep_ready'[s]
    <3>1. idep_ready \in [Station -> SUBSET Operand]
      BY DEF CoreInv, StatType
    <3> QED BY <1>4, <3>1 DEF Broadcast
  <2> QED BY <2>1, <2>2, NextCore, InorderFrame
<1>5. ASSUME Still, UNCHANGED <<idep_ready, last_op>> PROVE InorderInv'
  BY <1>5, NextCore, InorderFrame
<1>6. CASE Complete \/ CompleteMispredicted \/ RecoverEnd \/ BroadcastEnd
  <2>1. Still /\ UNCHANGED <<idep_ready, last_op>>
    BY <1>6 DEF Complete, CompleteMispredicted, RecoverEnd, BroadcastEnd, Still,
                countVars
  <2> QED BY <1>5, <2>1
<1>7. CASE CommitEnd \/ SkipEvent \/ WritebackEnd \/ Refresh \/ RefreshEnd
  <2>1. Still /\ UNCHANGED <<idep_ready, last_op>>
    BY <1>7 DEF CommitEnd, SkipEvent, WritebackEnd, Refresh, RefreshEnd, Still,
                countVars
  <2> QED BY <1>5, <2>1
<1>8. CASE IssueSkip \/ IssueEnd \/ DispatchEnd \/ UNCHANGED vars
  <2>1. Still /\ UNCHANGED <<idep_ready, last_op>>
    BY <1>8 DEF IssueSkip, IssueEnd, DispatchEnd, Still, countVars, vars
  <2> QED BY <1>5, <2>1
<1>9. ASSUME NEW s \in Station,
             IssueStore(s) \/ IssueToUnit(s) \/ IssueUnitless(s) \/ Requeue(s)
      PROVE  InorderInv'
  <2>1. Still /\ UNCHANGED <<idep_ready, last_op>>
    BY <1>9 DEF IssueStore, IssueToUnit, IssueUnitless, Execute, Requeue, Still,
                countVars
  <2> QED BY <1>5, <2>1
<1> QED BY <1>1, <1>2, <1>3, <1>4, <1>6, <1>7, <1>8, <1>9 DEF Next

\* An in-order machine never dispatches past an instruction that still waits
\* for its operands (ruu_dispatch's test of last_op): only the youngest waits.
THEOREM InOrderIsKept == Spec => []InOrderReady
<1>1. Init => CoreInv /\ FlowInv /\ SpeculationInv /\ RenameInv /\ InorderInv
  BY InitCore, InitFlow, InitSpeculation, InitRename, InitInorder
<1>2. CoreInv /\ FlowInv /\ SpeculationInv /\ RenameInv /\ InorderInv /\ [Next]_vars
        => (CoreInv /\ FlowInv /\ SpeculationInv /\ RenameInv /\ InorderInv)'
  BY NextCore, NextFlow, NextSpeculation, NextRename, NextInorder
<1>3. CoreInv /\ InorderInv => InOrderReady
  <2> SUFFICES ASSUME CoreInv, InorderInv, ruu_inorder_issue,
                      NEW k \in 0 .. RUU_num - 2
               PROVE  \/ OperandsReady(RUU_slot(k))
                      \/ ent[RUU_slot(k)].ea_comp /\ 1 \in idep_ready[RUU_slot(k)]
    BY DEF InOrderReady
  <2>1. RUU_num \in Int /\ RUU_num > 1 /\ k \in 0 .. RUU_num - 1
    <3>1. RUU_num \in Int
      BY DEF CoreInv, FixInv, WinType
    <3> QED BY <3>1
  <2>2. RUU_slot(k) \in LiveRUU /\ RUU_slot(k) # LastRUU
    BY <2>1, EndsDiffer DEF CoreInv, LiveRUU
  <2> QED BY <2>2 DEF InorderInv, OrderInv, Sat
<1> QED BY <1>1, <1>2, <1>3, PTL DEF Spec
-----------------------------------------------------------------------------
(* Sums over a finite set: induction over its subsets, in the order in      *)
(* which MapThenSumSet takes its elements.                                 *)

LEMMA SetInduction ==
  ASSUME NEW T \in SUBSET Nat, 0 \in T, \A n \in T : n + 1 \in T
  PROVE  T = Nat
<1> SUFFICES ASSUME Nat \ T # {} PROVE FALSE
  BY Zenon
<1>1. PICK n \in Nat \ T : \A y \in Nat \ T : n <= y
  BY LeastExists
<1>2. n # 0
  BY <1>1
<1>3. n - 1 \in Nat /\ n - 1 \in T
  BY <1>1, <1>2
<1>4. (n - 1) + 1 \in T /\ (n - 1) + 1 = n
  BY <1>3
<1> QED BY <1>1, <1>4

AnyOf(s) == CHOOSE x \in s : TRUE
LinkSumStep(S, f, g) ==
  [s \in SUBSET S |-> IF s = {} THEN 0 ELSE Len(f[AnyOf(s)]) + g[s \ {AnyOf(s)}]]
LinkSum(S, f) == CHOOSE g : g = LinkSumStep(S, f, g)

LEMMA FoldIsSum ==
  ASSUME NEW S, NEW f
  PROVE LET c(s) == Len(f[s]) IN MapThenSumSet(c, S) = LinkSum(S, f)[S]
BY Zenon DEF MapThenSumSet, MapThenFoldSet, LinkSum, LinkSumStep, AnyOf

LEMMA PickRest ==
  ASSUME NEW S, IsFiniteSet(S), NEW s \in SUBSET S, s # {}
  PROVE  /\ AnyOf(s) \in s /\ s \ {AnyOf(s)} \in SUBSET S
         /\ Cardinality(s \ {AnyOf(s)}) = Cardinality(s) - 1
         /\ Cardinality(s) \in Nat
<1>1. IsFiniteSet(s)
  BY FS_Subset
<1>2. AnyOf(s) \in s
  BY DEF AnyOf
<1> QED BY <1>1, <1>2, FS_RemoveElement, FS_CardinalityType

\* Induction over the subsets of a finite set, in the order of the fold.
LEMMA SubsetInduction ==
  ASSUME NEW S, IsFiniteSet(S), NEW G \in SUBSET SUBSET S, {} \in G,
         \A s \in SUBSET S : s # {} /\ s \ {AnyOf(s)} \in G => s \in G
  PROVE  \A s \in SUBSET S : s \in G
<1> DEFINE T == {n \in Nat : \A s \in SUBSET S : Cardinality(s) = n => s \in G}
<1>1. \A s \in SUBSET S : Cardinality(s) \in Nat /\ (Cardinality(s) = 0 => s = {})
  BY FS_Subset, FS_CardinalityType, FS_EmptySet
<1>2. 0 \in T
  BY <1>1
<1>3. ASSUME NEW n \in T PROVE n + 1 \in T
  <2>1. ASSUME NEW s \in SUBSET S, Cardinality(s) = n + 1 PROVE s \in G
    <3>1. s # {}
      BY <2>1, FS_EmptySet
    <3>2. s \ {AnyOf(s)} \in SUBSET S /\ Cardinality(s \ {AnyOf(s)}) = n
      BY <2>1, <3>1, PickRest
    <3> QED BY <3>1, <3>2
  <2> QED BY <2>1
<1>4. T = Nat
  <2> HIDE DEF T
  <2>1. T \in SUBSET Nat
    BY DEF T
  <2> QED BY <1>2, <1>3, <2>1, SetInduction
<1> QED BY <1>1, <1>4

LEMMA SumIs ==
  ASSUME NEW S, IsFiniteSet(S), NEW f, \A s \in S : Len(f[s]) \in Nat
  PROVE  LinkSum(S, f) = LinkSumStep(S, f, LinkSum(S, f))
<1> DEFINE F(g) == LinkSumStep(S, f, g)
           T == {n \in Nat : \E g : \A s \in SUBSET S :
                   Cardinality(s) <= n => g[s] = F(g)[s]}
<1>0. \A s \in SUBSET S : Cardinality(s) \in Nat /\ (Cardinality(s) = 0 => s = {})
  BY FS_Subset, FS_CardinalityType, FS_EmptySet
<1>1. 0 \in T
  <2>1. \A s \in SUBSET S : Cardinality(s) <= 0 =>
           [t \in SUBSET S |-> 0][s] = F([t \in SUBSET S |-> 0])[s]
    BY <1>0 DEF LinkSumStep
  <2> QED BY <2>1
<1>2. ASSUME NEW n \in T PROVE n + 1 \in T
  <2>1. PICK g : \A s \in SUBSET S : Cardinality(s) <= n => g[s] = F(g)[s]
    OBVIOUS
  <2> DEFINE h == F(g)
  <2>2. ASSUME NEW s \in SUBSET S, Cardinality(s) <= n + 1
        PROVE  h[s] = F(h)[s]
    <3>1. CASE s = {}
      BY <3>1 DEF LinkSumStep
    <3>2. CASE s # {}
      <4>1. s \ {AnyOf(s)} \in SUBSET S /\ Cardinality(s \ {AnyOf(s)}) <= n
        BY <2>2, <3>2, PickRest
      <4>2. h[s \ {AnyOf(s)}] = g[s \ {AnyOf(s)}]
        BY <2>1, <4>1
      <4>3. /\ h[s] = Len(f[AnyOf(s)]) + g[s \ {AnyOf(s)}]
            /\ F(h)[s] = Len(f[AnyOf(s)]) + h[s \ {AnyOf(s)}]
        BY <3>2, Zenon DEF LinkSumStep
      <4> QED BY <4>2, <4>3
    <3> QED BY <3>1, <3>2
  <2>3. n + 1 \in Nat
    OBVIOUS
  <2> QED BY <2>2, <2>3
<1>3. T = Nat
  <2> HIDE DEF T
  <2>1. T \in SUBSET Nat
    BY DEF T
  <2> QED BY <1>1, <1>2, <2>1, SetInduction
<1>4. Cardinality(S) \in Nat /\ \A s \in SUBSET S : Cardinality(s) <= Cardinality(S)
  BY FS_CardinalityType, FS_Subset
<1>5. PICK g : \A s \in SUBSET S : Cardinality(s) <= Cardinality(S) => g[s] = F(g)[s]
  BY <1>3, <1>4
<1>6. \A s \in SUBSET S : g[s] = F(g)[s]
  BY <1>4, <1>5
<1>7. F(F(g)) = F(g)
  <2>1. \A s \in SUBSET S : F(F(g))[s] = F(g)[s]
    <3> TAKE s \in SUBSET S
    <3>1. s \ {AnyOf(s)} \in SUBSET S
      OBVIOUS
    <3>2. F(g)[s \ {AnyOf(s)}] = g[s \ {AnyOf(s)}]
      BY <1>6, <3>1
    <3> QED BY <3>2, Zenon DEF LinkSumStep
  <2>2. /\ F(F(g)) = [s \in SUBSET S |-> F(F(g))[s]]
        /\ F(g) = [s \in SUBSET S |-> F(g)[s]]
    BY Zenon DEF LinkSumStep
  <2> HIDE DEF F
  <2> QED BY <2>1, <2>2
<1> QED BY <1>7, Zenon DEF LinkSum

LEMMA SumCases ==
  ASSUME NEW S, IsFiniteSet(S), NEW f, \A s \in S : Len(f[s]) \in Nat
  PROVE  /\ LinkSum(S, f)[{}] = 0
         /\ \A s \in SUBSET S : s # {} =>
              LinkSum(S, f)[s] = Len(f[AnyOf(s)]) + LinkSum(S, f)[s \ {AnyOf(s)}]
<1> DEFINE g == LinkSum(S, f)
<1>1. g = LinkSumStep(S, f, g)
  BY SumIs
<1> HIDE DEF g
<1>2. g = [s \in SUBSET S |-> IF s = {} THEN 0 ELSE Len(f[AnyOf(s)]) + g[s \ {AnyOf(s)}]]
  BY <1>1, Zenon DEF LinkSumStep
<1>3. g[{}] = 0
  BY <1>2
<1>4. \A s \in SUBSET S : s # {} => g[s] = Len(f[AnyOf(s)]) + g[s \ {AnyOf(s)}]
  BY <1>2
<1> QED BY <1>3, <1>4 DEF g

LEMMA SumType ==
  ASSUME NEW S, IsFiniteSet(S), NEW f, \A s \in S : Len(f[s]) \in Nat
  PROVE  \A s \in SUBSET S : LinkSum(S, f)[s] \in Nat
<1> DEFINE g == LinkSum(S, f)
           G == {s \in SUBSET S : g[s] \in Nat}
<1>1. /\ g[{}] = 0
      /\ \A s \in SUBSET S : s # {} => g[s] = Len(f[AnyOf(s)]) + g[s \ {AnyOf(s)}]
  BY SumCases
<1> HIDE DEF g
<1>2. {} \in G /\ G \in SUBSET SUBSET S
  BY <1>1
<1>3. ASSUME NEW s \in SUBSET S, s # {}, s \ {AnyOf(s)} \in G
      PROVE  s \in G
  <2>1. Len(f[AnyOf(s)]) \in Nat /\ g[s \ {AnyOf(s)}] \in Nat
    BY <1>3, PickRest
  <2>2. g[s] = Len(f[AnyOf(s)]) + g[s \ {AnyOf(s)}]
    BY <1>1, <1>3
  <2> QED BY <2>1, <2>2
<1> HIDE DEF G
<1>4. \A s \in SUBSET S : s \in G
  BY <1>2, <1>3, SubsetInduction
<1> QED BY <1>4 DEF G, g

\* One list of S, or none, grows by d.
LEMMA SumChange ==
  ASSUME NEW S, IsFiniteSet(S), NEW f, NEW h, NEW p, NEW d \in Int,
         \A s \in S : Len(f[s]) \in Nat /\ Len(h[s]) \in Nat,
         \A s \in S : Len(h[s]) = Len(f[s]) + (IF s = p THEN d ELSE 0)
  PROVE  LinkSum(S, h)[S] = LinkSum(S, f)[S] + (IF p \in S THEN d ELSE 0)
<1> DEFINE g == LinkSum(S, f)
           k == LinkSum(S, h)
           Diff(s) == IF p \in s THEN d ELSE 0
           G == {s \in SUBSET S : k[s] = g[s] + Diff(s)}
<1>1. /\ g[{}] = 0 /\ k[{}] = 0
      /\ \A s \in SUBSET S : s # {} => g[s] = Len(f[AnyOf(s)]) + g[s \ {AnyOf(s)}]
      /\ \A s \in SUBSET S : s # {} => k[s] = Len(h[AnyOf(s)]) + k[s \ {AnyOf(s)}]
  BY SumCases
<1>2. \A s \in SUBSET S : g[s] \in Nat /\ k[s] \in Nat
  BY SumType
<1> HIDE DEF g, k
<1>3. {} \in G /\ G \in SUBSET SUBSET S
  BY <1>1
<1>4. ASSUME NEW s \in SUBSET S, s # {}, s \ {AnyOf(s)} \in G
      PROVE  s \in G
  <2>1. s \ {AnyOf(s)} \in SUBSET S /\ AnyOf(s) \in s /\ AnyOf(s) \in S
    BY <1>4, PickRest
  <2>2. Diff(s) = Diff(s \ {AnyOf(s)}) + (IF AnyOf(s) = p THEN d ELSE 0)
        /\ Diff(s \ {AnyOf(s)}) \in Int
    <3>1. AnyOf(s) = p => p \in s /\ p \notin s \ {AnyOf(s)}
      BY <2>1
    <3>2. AnyOf(s) # p => (p \in s <=> p \in s \ {AnyOf(s)})
      OBVIOUS
    <3> QED BY <3>1, <3>2
  <2>3. k[s \ {AnyOf(s)}] = g[s \ {AnyOf(s)}] + Diff(s \ {AnyOf(s)})
    BY <1>4
  <2>4. /\ k[s] = Len(h[AnyOf(s)]) + k[s \ {AnyOf(s)}]
        /\ g[s] = Len(f[AnyOf(s)]) + g[s \ {AnyOf(s)}]
    BY <1>1, <1>4
  <2>5. /\ Len(h[AnyOf(s)]) = Len(f[AnyOf(s)]) + (IF AnyOf(s) = p THEN d ELSE 0)
        /\ Len(f[AnyOf(s)]) \in Nat /\ g[s \ {AnyOf(s)}] \in Nat
        /\ (IF AnyOf(s) = p THEN d ELSE 0) \in Int
    <3>1. Len(h[AnyOf(s)]) = Len(f[AnyOf(s)]) + (IF AnyOf(s) = p THEN d ELSE 0)
      BY <2>1, Zenon
    <3>2. Len(f[AnyOf(s)]) \in Nat
      BY <2>1, Zenon
    <3>3. g[s \ {AnyOf(s)}] \in Nat
      BY <1>2, <2>1, Zenon
    <3>4. (IF AnyOf(s) = p THEN d ELSE 0) \in Int
      OBVIOUS
    <3> QED BY <3>1, <3>2, <3>3, <3>4
  <2>6. k[s] = g[s] + Diff(s)
    <3> DEFINE a == IF AnyOf(s) = p THEN d ELSE 0
               b == Diff(s \ {AnyOf(s)})
               c == Diff(s)
    <3> HIDE DEF a, b, c
    <3>1. /\ c = b + a /\ b \in Int /\ a \in Int
          /\ k[s \ {AnyOf(s)}] = g[s \ {AnyOf(s)}] + b
          /\ Len(h[AnyOf(s)]) = Len(f[AnyOf(s)]) + a
      BY <2>2, <2>3, <2>5 DEF a, b, c
    <3>2. k[s] = g[s] + c
      BY <2>4, <2>5, <3>1
    <3> QED BY <3>2 DEF c
  <2> QED BY <2>6
<1> HIDE DEF G
<1>5. \A s \in SUBSET S : s \in G
  BY <1>3, <1>4, SubsetInduction
<1> QED BY <1>5 DEF G, g, k

LEMMA SumEmpty ==
  ASSUME NEW S, IsFiniteSet(S), NEW f, \A s \in S : Len(f[s]) = 0
  PROVE  LinkSum(S, f)[S] = 0
<1> DEFINE g == LinkSum(S, f)
           G == {s \in SUBSET S : g[s] = 0}
<1>0. \A s \in S : Len(f[s]) \in Nat
  OBVIOUS
<1>1. /\ g[{}] = 0
      /\ \A s \in SUBSET S : s # {} => g[s] = Len(f[AnyOf(s)]) + g[s \ {AnyOf(s)}]
  BY <1>0, SumCases
<1> HIDE DEF g
<1>2. {} \in G /\ G \in SUBSET SUBSET S
  BY <1>1
<1>3. ASSUME NEW s \in SUBSET S, s # {}, s \ {AnyOf(s)} \in G
      PROVE  s \in G
  <2>1. Len(f[AnyOf(s)]) = 0 /\ g[s \ {AnyOf(s)}] = 0
    BY <1>3, PickRest
  <2>2. g[s] = Len(f[AnyOf(s)]) + g[s \ {AnyOf(s)}]
    BY <1>1, <1>3
  <2> QED BY <2>1, <2>2
<1> HIDE DEF G
<1>4. \A s \in SUBSET S : s \in G
  BY <1>2, <1>3, SubsetInduction
<1> QED BY <1>4 DEF G, g

-----------------------------------------------------------------------------
(* The RS_link pool.                                                       *)

\* The links on the consumer lists, and all the others.
Consumers == LinkSum(Station, odep_list)[Station]
Pooled == nfree + Len(event_queue) + Len(ready_queue) + Len(node)
PoolInv == Pooled + Consumers = MAX_RS_LINKS

LEMMA FiniteStations == IsFiniteSet(Station)
<1>1. RUU_size \in Nat /\ LSQ_size \in Nat
  BY SizeAssumption
<1> DEFINE N == {RUU(i) : i \in 0 .. RUU_size - 1}
           M == {LSQ(i) : i \in 0 .. LSQ_size - 1}
<1>2. IsFiniteSet(0 .. RUU_size - 1) /\ IsFiniteSet(0 .. LSQ_size - 1)
  BY <1>1, FS_Interval
<1>3. IsFiniteSet(N)
  <2> DEFINE f == [i \in 0 .. RUU_size - 1 |-> RUU(i)]
  <2>1. f \in Surjection(0 .. RUU_size - 1, N)
    BY DEF Surjection
  <2> HIDE DEF f, N
  <2> QED BY <1>2, <2>1, FS_Surjection
<1>4. IsFiniteSet(M)
  <2> DEFINE f == [i \in 0 .. LSQ_size - 1 |-> LSQ(i)]
  <2>1. f \in Surjection(0 .. LSQ_size - 1, M)
    BY DEF Surjection
  <2> HIDE DEF f, M
  <2> QED BY <1>2, <2>1, FS_Surjection
<1>5. Station = N \cup M
  BY DEF Station
<1> HIDE DEF N, M
<1> QED BY <1>3, <1>4, <1>5, FS_Union

\* The lists are lists, their lengths are numbers.
LEMMA PoolTypes ==
  ASSUME CoreInv
  PROVE  /\ nfree \in Int /\ Len(event_queue) \in Nat /\ Len(ready_queue) \in Nat
         /\ Len(node) \in Nat /\ \A s \in Station : Len(odep_list[s]) \in Nat
         /\ Consumers \in Nat /\ Pooled \in Int
<1>1. /\ nfree \in Int /\ Len(event_queue) \in Nat /\ Len(ready_queue) \in Nat
      /\ Len(node) \in Nat /\ \A s \in Station : odep_list[s] \in Seq(Good(OdepLink))
  BY DEF CoreInv, CntType, LinksInv
<1>2. \A s \in Station : Len(odep_list[s]) \in Nat
  BY <1>1
<1>3. Station \in SUBSET Station
  OBVIOUS
<1>4. Consumers \in Nat
  BY <1>2, <1>3, FiniteStations, SumType DEF Consumers
<1> QED BY <1>1, <1>2, <1>4 DEF Pooled

\* A node or an event more makes a queue one longer.
LEMMA QueueLen ==
  ASSUME NEW S, NEW q \in Seq(S), NEW s, NEW op, NEW n
  PROVE  /\ Len(readyq_enqueue(q, s, op, n)) = Len(q) + 1
         /\ Len(eventq_queue_event(q, s, n)) = Len(q) + 1
         /\ \E T : readyq_enqueue(q, s, op, n) \in Seq(T)
<1> DEFINE e == [rs |-> s, tag |-> tag[s], seq |-> n]
           v == [rs |-> s, tag |-> tag[s], when |-> n]
           T == S \cup {e, v}
<1>1. S \subseteq T /\ e \in T /\ v \in T
  OBVIOUS
<1> HIDE DEF T
<1>2. q \in Seq(T)
  BY <1>1, SeqMono
<1>3. readyq_enqueue(q, s, op, n) \in Seq(T)
  BY <1>1, <1>2, EnqueueSeq
<1>4. Len(eventq_queue_event(q, s, n)) = Len(q) + 1
  BY <1>1, <1>2, ScheduleInserts DEF Inserted
<1>5. Len(readyq_enqueue(q, s, op, n)) = Len(q) + 1
  <2> DEFINE hits == {i \in 1 .. Len(q) : ~(q[i].seq < n)}
             r == readyq_enqueue(q, s, op, n)
  <2>1. r \in {<<e>> \o q, InsertBefore(q, e, hits)}
    BY DEF readyq_enqueue
  <2>2. hits \in SUBSET (1 .. Len(q))
    OBVIOUS
  <2> HIDE DEF e, hits, r
  <2>3. Inserted(q, e, r)
    BY <1>1, <1>2, <2>1, <2>2, ConsInserts, InsertInserts
  <2> QED BY <2>3 DEF Inserted, r
<1> QED BY <1>3, <1>4, <1>5

\* Steps that leave the consumer lists alone.
LEMMA PoolFrame ==
  ASSUME CoreInv, PoolInv, odep_list' = odep_list, Pooled' = Pooled
  PROVE  PoolInv'
BY DEF PoolInv, Consumers

LEMMA TickLen ==
  ASSUME NEW S, NEW q \in Seq(S)
  PROVE  Len(Tick(q)) = Len(q)
BY DEF Tick

\* Steps that move no link.
LEMMA QuietPool ==
  ASSUME CoreInv, PoolInv,
         Commit \/ CommitEnd \/ RecoverEnd \/ BroadcastEnd \/ WritebackEnd
           \/ IssueEnd \/ DispatchEnd \/ UNCHANGED vars
  PROVE  PoolInv'
<1>1. /\ odep_list' = odep_list
      /\ UNCHANGED <<nfree, ready_queue, node>>
      /\ event_queue' \in {event_queue, Tick(event_queue)}
  <2>1. CASE Commit
    BY <2>1 DEF Commit
  <2>2. CASE CommitEnd
    BY <2>2 DEF CommitEnd
  <2>3. CASE RecoverEnd
    BY <2>3 DEF RecoverEnd
  <2>4. CASE BroadcastEnd
    BY <2>4 DEF BroadcastEnd
  <2>5. CASE WritebackEnd
    BY <2>5 DEF WritebackEnd
  <2>6. CASE IssueEnd
    BY <2>6 DEF IssueEnd
  <2>7. CASE DispatchEnd
    BY <2>7 DEF DispatchEnd
  <2>8. CASE UNCHANGED vars
    BY <2>8 DEF vars
  <2> QED BY <2>1, <2>2, <2>3, <2>4, <2>5, <2>6, <2>7, <2>8
<1>2. Len(event_queue') = Len(event_queue)
  BY <1>1, TickLen DEF CoreInv, LinksInv
<1>3. Pooled' = Pooled
  BY <1>1, <1>2 DEF Pooled
<1> QED BY <1>1, <1>3, PoolFrame

\* An event or a node comes off its list, and its link is freed or used again.
LEMMA MovePool ==
  ASSUME CoreInv, FlowInv, PoolInv,
         SkipEvent \/ Complete \/ CompleteMispredicted \/ Refresh \/ RefreshEnd
           \/ IssueSkip
           \/ \E s \in Station : IssueStore(s) \/ IssueToUnit(s)
                                   \/ IssueUnitless(s) \/ Requeue(s)
  PROVE  PoolInv'
<1>1. /\ event_queue \in Seq(Good(Event)) /\ ready_queue \in Seq(Good(ReadyNode))
      /\ node \in Seq(Good(ReadyNode)) /\ nfree \in Int
  BY DEF CoreInv, LinksInv, CntType
<1>2. /\ Len(event_queue) \in Nat /\ Len(ready_queue) \in Nat /\ Len(node) \in Nat
      /\ event_queue # <<>> => Len(Tail(event_queue)) = Len(event_queue) - 1
      /\ node # <<>> => Len(Tail(node)) = Len(node) - 1
  BY <1>1, HeadTailProperties
<1>3. ASSUME SkipEvent \/ Complete \/ CompleteMispredicted PROVE PoolInv'
  <2>1. /\ event_queue # <<>> /\ event_queue' = Tail(event_queue)
        /\ nfree' = nfree + 1 /\ UNCHANGED <<ready_queue, node, odep_list>>
    BY <1>3 DEF SkipEvent, Complete, CompleteMispredicted, PopEvent, Due
  <2>2. Pooled' = Pooled
    BY <1>1, <1>2, <2>1 DEF Pooled
  <2> QED BY <2>1, <2>2, PoolFrame
<1>4. ASSUME Refresh PROVE PoolInv'
  <2>1. /\ UNCHANGED <<event_queue, node, odep_list>>
        /\ \/ ready_queue' = ready_queue /\ nfree' = nfree
           \/ /\ ready_queue' = readyq_enqueue(ready_queue, Scanned, "load",
                                               ent[Scanned].seq)
              /\ nfree' = nfree - 1
    BY <1>4 DEF Refresh
  <2>2. CASE ready_queue' = ready_queue /\ nfree' = nfree
    BY <2>1, <2>2, PoolFrame DEF Pooled
  <2>3. CASE /\ ready_queue' = readyq_enqueue(ready_queue, Scanned, "load",
                                              ent[Scanned].seq)
             /\ nfree' = nfree - 1
    <3>1. Len(ready_queue') = Len(ready_queue) + 1
      BY <1>1, <2>3, QueueLen
    <3>2. UNCHANGED <<event_queue, node, odep_list>> /\ nfree' = nfree - 1
      BY <2>1, <2>3
    <3>3. Pooled' = Pooled
      BY <1>1, <1>2, <3>1, <3>2 DEF Pooled
    <3> QED BY <3>2, <3>3, PoolFrame
  <2> QED BY <2>1, <2>2, <2>3
<1>5. ASSUME RefreshEnd PROVE PoolInv'
  <2>1. /\ UNCHANGED <<event_queue, nfree, odep_list>> /\ node = <<>>
        /\ node' = ready_queue /\ ready_queue' = <<>>
    BY <1>5 DEF RefreshEnd, FlowInv, NodeInv
  <2>2. Pooled' = Pooled
    BY <1>1, <1>2, <2>1 DEF Pooled
  <2> QED BY <2>1, <2>2, PoolFrame
<1>6. ASSUME IssueSkip \/ \E s \in Station : IssueStore(s) PROVE PoolInv'
  <2>1. /\ node # <<>> /\ node' = Tail(node)
        /\ nfree' = nfree + 1 /\ UNCHANGED <<ready_queue, event_queue, odep_list>>
    BY <1>6 DEF IssueSkip, IssueStore, IssueNext
  <2>2. Pooled' = Pooled
    BY <1>1, <1>2, <2>1 DEF Pooled
  <2> QED BY <2>1, <2>2, PoolFrame
<1>7. ASSUME NEW s \in Station, IssueToUnit(s) \/ IssueUnitless(s) PROVE PoolInv'
  <2>1. PICK lat \in Nat \ {0} : IssueNext(s) /\ Execute(s, lat)
    BY <1>7, Starts
  <2>2. /\ node # <<>> /\ node' = Tail(node)
        /\ event_queue' = eventq_queue_event(event_queue, s, lat)
        /\ UNCHANGED <<ready_queue, nfree, odep_list>>
    BY <2>1 DEF Execute, IssueNext
  <2>3. Len(event_queue') = Len(event_queue) + 1
    BY <1>1, <2>2, QueueLen
  <2>4. Pooled' = Pooled
    BY <1>1, <1>2, <2>2, <2>3 DEF Pooled
  <2> QED BY <2>2, <2>4, PoolFrame
<1>8. ASSUME NEW s \in Station, Requeue(s) PROVE PoolInv'
  <2>1. /\ node # <<>> /\ node' = Tail(node)
        /\ ready_queue' = readyq_enqueue(ready_queue, s, ent[s].op, ent[s].seq)
        /\ UNCHANGED <<event_queue, nfree, odep_list>>
    BY <1>8 DEF Requeue, IssueNext
  <2>2. Len(ready_queue') = Len(ready_queue) + 1
    BY <1>1, <2>1, QueueLen
  <2>3. Pooled' = Pooled
    BY <1>1, <1>2, <2>1, <2>2 DEF Pooled
  <2> QED BY <2>1, <2>3, PoolFrame
<1> QED BY <1>3, <1>4, <1>5, <1>6, <1>7, <1>8

LEMMA StationsThemselves == Station \in SUBSET Station
OBVIOUS

\* The list of p grows, or shrinks, by d links.
LEMMA ChangeList ==
  ASSUME NEW f, NEW h, NEW p \in Station, NEW d \in Int,
         \A s \in Station : Len(f[s]) \in Nat /\ Len(h[s]) \in Nat,
         \A s \in Station : s # p => Len(h[s]) = Len(f[s]),
         Len(h[p]) = Len(f[p]) + d
  PROVE  LinkSum(Station, h)[Station] = LinkSum(Station, f)[Station] + d
<1>1. ASSUME NEW s \in Station
      PROVE  Len(h[s]) = Len(f[s]) + (IF s = p THEN d ELSE 0)
  <2>1. CASE s = p
    BY <2>1
  <2>2. CASE s # p
    <3>1. Len(h[s]) = Len(f[s]) /\ Len(f[s]) \in Nat
      BY <2>2
    <3> QED BY <2>2, <3>1
  <2> QED BY <2>1, <2>2
<1>2. LinkSum(Station, h)[Station]
        = LinkSum(Station, f)[Station] + (IF p \in Station THEN d ELSE 0)
  <2> DEFINE S == Station
  <2>1. /\ IsFiniteSet(S)
        /\ \A s \in S : Len(f[s]) \in Nat /\ Len(h[s]) \in Nat
        /\ \A s \in S : Len(h[s]) = Len(f[s]) + (IF s = p THEN d ELSE 0)
    BY <1>1, FiniteStations
  <2> HIDE DEF S
  <2>2. LinkSum(S, h)[S] = LinkSum(S, f)[S] + (IF p \in S THEN d ELSE 0)
    BY <2>1, SumChange, Zenon
  <2> QED BY <2>2 DEF S
<1> QED BY <1>2

LEMMA DropList ==
  ASSUME NEW f, \A s \in Station : Len(f[s]) \in Nat, NEW p \in Station,
         NEW h, \A s \in Station : h[s] = IF s = p THEN <<>> ELSE f[s]
  PROVE  /\ \A s \in Station : Len(h[s]) \in Nat
         /\ LinkSum(Station, h)[Station] = LinkSum(Station, f)[Station] - Len(f[p])
<1> DEFINE d == - Len(f[p])
<1>1. Len(f[p]) \in Nat /\ d \in Int /\ Len(<<>>) = 0
  OBVIOUS
<1>2. \A s \in Station : Len(h[s]) \in Nat /\ (s # p => Len(h[s]) = Len(f[s]))
  OBVIOUS
<1>3. Len(h[p]) = Len(f[p]) + d
  BY <1>1
<1>4. LinkSum(Station, f)[Station] \in Nat
  BY FiniteStations, SumType, StationsThemselves
<1> HIDE DEF d
<1>5. LinkSum(Station, h)[Station] = LinkSum(Station, f)[Station] + d
  BY <1>1, <1>2, <1>3, ChangeList
<1> QED BY <1>1, <1>2, <1>4, <1>5 DEF d

\* ruu_recover frees the consumer lists of what it squashes.
LEMMA SquashPool ==
  ASSUME CoreInv, PoolInv, Squash
  PROVE  PoolInv'
<1> DEFINE r == LastRUU
           l == LastLSQ
           mem == ent[r].ea_comp
           m == [s \in Station |-> IF s = r THEN <<>> ELSE odep_list[s]]
<1>1. /\ nfree' = nfree + Len(odep_list[r]) + (IF mem THEN Len(odep_list[l]) ELSE 0)
      /\ UNCHANGED <<event_queue, ready_queue, node>>
  BY DEF Squash, SquashesLSQ, LastRUU, LastLSQ
<1>2. /\ odep_list' = [s \in Station |-> IF s \in Squashed THEN <<>> ELSE odep_list[s]]
      /\ Squashed \subseteq Station
  BY SquashWindow
<1>3. r \in Station /\ (mem => l \in Station) /\ r # l
      /\ Squashed = {r} \cup (IF mem THEN {l} ELSE {})
  BY <1>2, Stations DEF Squashed, LastRUU, LastLSQ
<1>4. /\ nfree \in Int /\ Len(event_queue) \in Nat /\ Len(ready_queue) \in Nat
      /\ Len(node) \in Nat /\ \A s \in Station : Len(odep_list[s]) \in Nat
      /\ Consumers \in Nat
  BY PoolTypes
<1> HIDE DEF r, l, mem
<1>5. \A s \in Station : m[s] = IF s = r THEN <<>> ELSE odep_list[s]
  OBVIOUS
<1> HIDE DEF m
<1>6. /\ \A s \in Station : Len(m[s]) \in Nat
      /\ LinkSum(Station, m)[Station] = Consumers - Len(odep_list[r])
  BY <1>3, <1>4, <1>5, DropList DEF Consumers
<1>7. Consumers' = Consumers - Len(odep_list[r]) - (IF mem THEN Len(odep_list[l]) ELSE 0)
  <2>1. CASE mem
    <3>1. \A s \in Station : odep_list'[s] = IF s = l THEN <<>> ELSE m[s]
      BY <1>2, <1>3, <1>5, <2>1
    <3>2. LinkSum(Station, odep_list')[Station] = LinkSum(Station, m)[Station] - Len(m[l])
      BY <1>3, <1>6, <2>1, <3>1, DropList
    <3>3. m[l] = odep_list[l]
      BY <1>3, <1>5, <2>1
    <3>4. Consumers' = LinkSum(Station, odep_list')[Station]
      BY DEF Consumers
    <3> QED BY <1>6, <2>1, <3>2, <3>3, <3>4
  <2>2. CASE ~mem
    <3>1. \A s \in Station : odep_list'[s] = IF s = r THEN <<>> ELSE odep_list[s]
      BY <1>2, <1>3, <2>2
    <3>2. LinkSum(Station, odep_list')[Station]
            = LinkSum(Station, odep_list)[Station] - Len(odep_list[r])
      BY <1>3, <1>4, <3>1, DropList
    <3>3. Consumers' = Consumers - Len(odep_list[r])
      BY <3>2 DEF Consumers
    <3>4. Len(odep_list[r]) \in Nat
      BY <1>3, <1>4
    <3> QED BY <1>4, <2>2, <3>3, <3>4
  <2> QED BY <2>1, <2>2
<1>8. Len(odep_list[r]) \in Nat /\ (mem => Len(odep_list[l]) \in Nat)
  BY <1>3, <1>4
<1> DEFINE a == Len(odep_list[r])
           b == IF mem THEN Len(odep_list[l]) ELSE 0
<1>9. a \in Nat /\ b \in Nat
  BY <1>8
<1> HIDE DEF a, b
<1>10. nfree' = nfree + a + b /\ Consumers' = Consumers - a - b
  BY <1>1, <1>7 DEF a, b
<1>11. Pooled' = Pooled + a + b
  <2> DEFINE F == nfree'
             P == Pooled'
             q == Len(event_queue) + Len(ready_queue) + Len(node)
  <2>1. F = nfree + a + b /\ nfree \in Int
    BY <1>4, <1>10
  <2>2. q \in Nat /\ Pooled = nfree + q
    BY <1>4 DEF Pooled
  <2>3. P = F + Len(event_queue) + Len(ready_queue) + Len(node)
    BY <1>1 DEF Pooled
  <2> HIDE DEF F, P
  <2>4. F \in Int
    BY <1>9, <2>1
  <2>5. P = F + q
    BY <1>4, <2>3, <2>4
  <2> HIDE DEF q
  <2>6. P = Pooled + a + b
    BY <1>9, <2>1, <2>2, <2>5
  <2> QED BY <2>6 DEF P
<1>12. Pooled \in Int
  BY PoolTypes
<1> QED BY <1>4, <1>9, <1>10, <1>11, <1>12 DEF PoolInv

\* A link of the broadcast list is used for the ready queue, or freed.
LEMMA BroadcastPool ==
  ASSUME CoreInv, PoolInv, Broadcast
  PROVE  PoolInv'
<1> DEFINE c == Head(odep_list[wb]).rs
<1>1. /\ wb \in Station /\ odep_list[wb] # <<>>
      /\ odep_list' = [odep_list EXCEPT ![wb] = Tail(@)]
      /\ odep_list \in [Station -> Seq(Good(OdepLink))]
      /\ ready_queue \in Seq(Good(ReadyNode))
      /\ UNCHANGED <<event_queue, node>>
      /\ \/ /\ ready_queue' = readyq_enqueue(ready_queue, c, ent[c].op, ent[c].seq)
            /\ nfree' = nfree
         \/ ready_queue' = ready_queue /\ nfree' = nfree + 1
  BY DEF Broadcast, CoreInv, WbInv, LinksInv
<1>2. /\ nfree \in Int /\ Len(event_queue) \in Nat /\ Len(ready_queue) \in Nat
      /\ Len(node) \in Nat /\ \A s \in Station : Len(odep_list[s]) \in Nat
      /\ Consumers \in Nat
  BY PoolTypes
<1> HIDE DEF c
<1>3. Len(ready_queue') + nfree' = Len(ready_queue) + nfree + 1
      /\ Len(ready_queue') \in Nat /\ nfree' \in Int
  <2>1. CASE /\ ready_queue' = readyq_enqueue(ready_queue, c, ent[c].op, ent[c].seq)
             /\ nfree' = nfree
    <3>1. Len(ready_queue') = Len(ready_queue) + 1
      BY <1>1, <2>1, QueueLen
    <3> QED BY <1>2, <2>1, <3>1
  <2>2. CASE ready_queue' = ready_queue /\ nfree' = nfree + 1
    BY <1>2, <2>2
  <2> QED BY <1>1, <2>1, <2>2
<1>4. ASSUME NEW s \in Station
      PROVE  /\ Len(odep_list'[s]) \in Nat
             /\ Len(odep_list'[s]) = Len(odep_list[s]) + (IF s = wb THEN -1 ELSE 0)
  <2>1. CASE s = wb
    <3>1. odep_list'[s] = Tail(odep_list[wb]) /\ odep_list[wb] \in Seq(Good(OdepLink))
      BY <1>1, <2>1
    <3>2. Len(odep_list'[s]) \in Nat /\ Len(odep_list'[s]) = Len(odep_list[wb]) - 1
      BY <1>1, <3>1, HeadTailProperties
    <3> QED BY <1>2, <2>1, <3>2
  <2>2. CASE s # wb
    <3>1. odep_list'[s] = odep_list[s]
      BY <1>1, <2>2
    <3> QED BY <1>2, <2>2, <3>1
  <2> QED BY <2>1, <2>2
<1>5. LinkSum(Station, odep_list')[Station] = LinkSum(Station, odep_list)[Station] - 1
  <2> DEFINE h == odep_list'
             d == -1
  <2>1. /\ \A s \in Station : Len(odep_list[s]) \in Nat /\ Len(h[s]) \in Nat
        /\ \A s \in Station : s # wb => Len(h[s]) = Len(odep_list[s])
        /\ Len(h[wb]) = Len(odep_list[wb]) + d
    BY <1>1, <1>2, <1>4
  <2>2. d \in Int /\ LinkSum(Station, odep_list)[Station] \in Nat
    BY <1>2 DEF Consumers
  <2> HIDE DEF h, d
  <2>3. LinkSum(Station, h)[Station] = LinkSum(Station, odep_list)[Station] + d
    BY <1>1, <2>1, <2>2, ChangeList
  <2> QED BY <2>2, <2>3 DEF h, d
<1>6. Consumers' = Consumers - 1
  BY <1>5 DEF Consumers
<1>7. Pooled' = Pooled + 1
  <2>1. Len(event_queue') = Len(event_queue) /\ Len(node') = Len(node)
    BY <1>1
  <2> DEFINE E == Len(event_queue)
             N == Len(node)
             R == Len(ready_queue)
             S == Len(ready_queue')
             F == nfree'
             P == Pooled'
  <2>2. /\ E \in Int /\ N \in Int /\ R \in Int /\ S \in Int /\ S + F = R + nfree + 1
        /\ nfree \in Int /\ F \in Int
    BY <1>2, <1>3
  <2>3. Pooled = nfree + E + R + N
    BY DEF Pooled
  <2>4. P = F + E + S + N
    BY <2>1 DEF Pooled
  <2> HIDE DEF E, N, R, S, F, P
  <2>5. P = Pooled + 1
    BY <2>2, <2>3, <2>4
  <2> QED BY <2>5 DEF P
<1>8. Pooled \in Int
  BY PoolTypes
<1> QED BY <1>2, <1>6, <1>7, <1>8 DEF PoolInv

\* A station puts a link on the list of each producer it waits for.
LEMMA LinksToLen ==
  ASSUME NEW p, NEW s, NEW x
  PROVE  Len(LinksTo(p, s, x)) = (IF Creator(x[1]) = p THEN 1 ELSE 0)
                                   + (IF Creator(x[2]) = p THEN 1 ELSE 0)
<1> DEFINE a == [rs |-> s, tag |-> tag[s], opnum |-> 1]
           b == [rs |-> s, tag |-> tag[s], opnum |-> 2]
<1>1. /\ Len(<<b>> \o <<a>>) = 2 /\ Len(<<b>> \o <<>>) = 1 /\ Len(<<>> \o <<a>>) = 1
      /\ Len(<<>> \o <<>>) = 0
  <2> HIDE DEF a, b
  <2> QED OBVIOUS
<1>2. LinksTo(p, s, x) = (IF Creator(x[2]) = p THEN <<b>> ELSE <<>>)
                           \o (IF Creator(x[1]) = p THEN <<a>> ELSE <<>>)
  BY DEF LinksTo
<1> HIDE DEF a, b
<1> QED BY <1>1, <1>2

LEMMA CardinalityTwo ==
  ASSUME NEW a, NEW b, a # b
  PROVE  Cardinality({a, b}) = 2
<1>1. IsFiniteSet({a}) /\ Cardinality({a}) = 1
  BY FS_Singleton, Zenon
<1>2. b \notin {a} /\ {a, b} = {a} \cup {b}
  OBVIOUS
<1> QED BY <1>1, <1>2, FS_AddElement

LEMMA WaitingIs ==
  ASSUME NEW x
  PROVE  Waiting(x) = (IF Creator(x[1]) = None THEN 0 ELSE 1)
                        + (IF Creator(x[2]) = None THEN 0 ELSE 1)
<1> DEFINE W == Operand \ ReadyIdeps(x)
<1>1. W = {k \in {1, 2} : Creator(x[k]) # None}
  BY DEF ReadyIdeps, Operand
<1>2. /\ Creator(x[1]) = None /\ Creator(x[2]) = None => W = {}
      /\ Creator(x[1]) # None /\ Creator(x[2]) = None => W = {1}
      /\ Creator(x[1]) = None /\ Creator(x[2]) # None => W = {2}
      /\ Creator(x[1]) # None /\ Creator(x[2]) # None => W = {1, 2}
  BY <1>1
<1> HIDE DEF W
<1>3. Cardinality({}) = 0 /\ Cardinality({1}) = 1 /\ Cardinality({2}) = 1
  BY FS_EmptySet, FS_Singleton
<1>4. Cardinality({1, 2}) = 2
  BY CardinalityTwo, 1 # 2
<1> QED BY <1>2, <1>3, <1>4 DEF Waiting, W

\* What waits for a creator waits for a station.
LEMMA CreatorType ==
  ASSUME CvType, NEW r
  PROVE  r \in Reg \cup {NA} => Creator(r) \in Station \cup {None}
BY DEF CvType, Creator, CREATE_VECTOR

LEMMA SameLengths ==
  ASSUME NEW f, NEW h, \A p \in Station : Len(f[p]) \in Nat,
         \A p \in Station : Len(h[p]) = Len(f[p])
  PROVE  LinkSum(Station, h)[Station] = LinkSum(Station, f)[Station]
<1>1. RUU(0) \in Station
  BY Sizes, Stations
<1>2. LinkSum(Station, f)[Station] \in Nat
  BY FiniteStations, SumType, StationsThemselves
<1>3. LinkSum(Station, h)[Station] = LinkSum(Station, f)[Station] + 0
  <2>1. Len(h[RUU(0)]) = Len(f[RUU(0)]) + 0 /\ 0 \in Int
    BY <1>1
  <2>2. \A p \in Station : Len(f[p]) \in Nat /\ Len(h[p]) \in Nat
    OBVIOUS
  <2> QED BY <1>1, <2>1, <2>2, ChangeList
<1> QED BY <1>2, <1>3

\* With the links of one station the lists hold one link more for each
\* operand that waits.
LEMMA LinksGrow ==
  ASSUME CvType, NEW x \in [Operand -> Reg \cup {NA}], NEW s, NEW f, NEW h,
         \A p \in Station : Len(f[p]) \in Nat,
         \A p \in Station : Len(h[p]) = Len(f[p]) + Len(LinksTo(p, s, x))
  PROVE  LinkSum(Station, h)[Station] = LinkSum(Station, f)[Station] + Waiting(x)
<1> DEFINE c1 == Creator(x[1])
           c2 == Creator(x[2])
           d1(p) == IF c1 = p THEN 1 ELSE 0
           d2(p) == IF c2 = p THEN 1 ELSE 0
           n(p) == Len(f[p]) + d1(p)
           m == [p \in Station |-> [j \in 1 .. n(p) |-> 0]]
<1>1. c1 \in Station \cup {None} /\ c2 \in Station \cup {None}
  <2>1. x[1] \in Reg \cup {NA} /\ x[2] \in Reg \cup {NA}
    BY DEF Operand
  <2> QED BY <2>1, CreatorType
<1>2. Waiting(x) = (IF c1 = None THEN 0 ELSE 1) + (IF c2 = None THEN 0 ELSE 1)
  BY WaitingIs
<1>3. None \notin Station
  BY NoneAssumption
<1>4. ASSUME NEW p \in Station
      PROVE  /\ Len(LinksTo(p, s, x)) = d1(p) + d2(p)
             /\ d1(p) \in Nat /\ d2(p) \in Nat
             /\ (p = c1 => d1(p) = 1) /\ (p # c1 => d1(p) = 0)
             /\ (p = c2 => d2(p) = 1) /\ (p # c2 => d2(p) = 0)
  BY LinksToLen
<1> HIDE DEF c1, c2, d1, d2
<1>5. ASSUME NEW p \in Station
      PROVE  /\ Len(m[p]) = Len(f[p]) + d1(p) /\ Len(m[p]) \in Nat
             /\ Len(h[p]) = Len(m[p]) + d2(p) /\ Len(h[p]) \in Nat
  <2>1. /\ Len(f[p]) \in Nat /\ d1(p) \in Nat /\ d2(p) \in Nat
        /\ Len(h[p]) = Len(f[p]) + (d1(p) + d2(p))
    BY <1>4
  <2>2. n(p) \in Nat /\ n(p) = Len(f[p]) + d1(p)
    BY <2>1
  <2>3. m[p] = [j \in 1 .. n(p) |-> 0]
    OBVIOUS
  <2> HIDE DEF n, m
  <2>4. Len(m[p]) = n(p)
    BY <2>2, <2>3
  <2> QED BY <2>1, <2>2, <2>4
<1> HIDE DEF n, m
<1>6. \A p \in Station : Len(m[p]) \in Nat /\ Len(h[p]) \in Nat
  BY <1>5
<1>7. LinkSum(Station, f)[Station] \in Nat /\ LinkSum(Station, m)[Station] \in Nat
  BY <1>6, FiniteStations, SumType, StationsThemselves
<1>8. LinkSum(Station, m)[Station]
        = LinkSum(Station, f)[Station] + (IF c1 = None THEN 0 ELSE 1)
  <2>1. ASSUME NEW p \in Station
        PROVE  (p = c1 => Len(m[p]) = Len(f[p]) + 1) /\ (p # c1 => Len(m[p]) = Len(f[p]))
    BY <1>4, <1>5
  <2>2. CASE c1 = None
    <3>1. \A p \in Station : Len(m[p]) = Len(f[p])
      BY <1>3, <2>1, <2>2
    <3>2. LinkSum(Station, m)[Station] = LinkSum(Station, f)[Station]
      BY <3>1, SameLengths
    <3> QED BY <1>7, <2>2, <3>2
  <2>3. CASE c1 # None
    <3>1. c1 \in Station /\ 1 \in Int
      BY <1>1, <2>3
    <3>2. /\ \A p \in Station : p # c1 => Len(m[p]) = Len(f[p])
          /\ Len(m[c1]) = Len(f[c1]) + 1
      BY <2>1, <3>1
    <3>3. LinkSum(Station, m)[Station] = LinkSum(Station, f)[Station] + 1
      BY <1>6, <3>1, <3>2, ChangeList
    <3> QED BY <2>3, <3>3
  <2> QED BY <2>2, <2>3
<1>9. LinkSum(Station, h)[Station]
        = LinkSum(Station, m)[Station] + (IF c2 = None THEN 0 ELSE 1)
  <2>1. ASSUME NEW p \in Station
        PROVE  (p = c2 => Len(h[p]) = Len(m[p]) + 1) /\ (p # c2 => Len(h[p]) = Len(m[p]))
    BY <1>4, <1>5
  <2>2. CASE c2 = None
    <3>1. \A p \in Station : Len(h[p]) = Len(m[p])
      BY <1>3, <2>1, <2>2
    <3>2. LinkSum(Station, h)[Station] = LinkSum(Station, m)[Station]
      BY <1>6, <3>1, SameLengths
    <3> QED BY <1>7, <2>2, <3>2
  <2>3. CASE c2 # None
    <3>1. c2 \in Station /\ 1 \in Int
      BY <1>1, <2>3
    <3>2. /\ \A p \in Station : p # c2 => Len(h[p]) = Len(m[p])
          /\ Len(h[c2]) = Len(m[c2]) + 1
      BY <2>1, <3>1
    <3>3. LinkSum(Station, h)[Station] = LinkSum(Station, m)[Station] + 1
      BY <1>6, <3>1, <3>2, ChangeList
    <3> QED BY <2>3, <3>3
  <2> QED BY <2>2, <2>3
<1> QED BY <1>2, <1>7, <1>8, <1>9

LEMMA NewLinksLen ==
  ASSUME CoreInv, NEW i \in Inst, NEW mp \in BOOLEAN, Dispatch(i, mp), NEW p \in Station
  PROVE  /\ Len(LinksTo(p, NewRUU, NewIns(i, NewRUU))) \in Nat
         /\ Len(LinksTo(p, NewLSQ, NewIns(i, NewLSQ))) \in Nat
         /\ Len(NewLinks(i, p)) = Len(LinksTo(p, NewRUU, NewIns(i, NewRUU)))
              + (IF IsMem(i.kind) THEN Len(LinksTo(p, NewLSQ, NewIns(i, NewLSQ))) ELSE 0)
<1> DEFINE a == LinksTo(p, NewRUU, NewIns(i, NewRUU))
           b == LinksTo(p, NewLSQ, NewIns(i, NewLSQ))
           S == {NewLink(s, k) : s \in {NewRUU, NewLSQ}, k \in Operand}
<1>1. NewRUU \in Station /\ NewLSQ \in Station /\ EntType
  BY DispatchWindow DEF CoreInv, FixInv
<1>2. \A s \in {NewRUU, NewLSQ} : \A k \in Operand :
        [rs |-> s, tag |-> tag[s], opnum |-> k] \in S
  BY DEF NewLink
<1> HIDE DEF S
<1>3. a \in Seq(S)
  <2>1. \A k \in Operand : [rs |-> NewRUU, tag |-> tag[NewRUU], opnum |-> k] \in S
    BY <1>2
  <2> QED BY <1>1, <2>1, LinksToSeq
<1>4. b \in Seq(S)
  <2>1. \A k \in Operand : [rs |-> NewLSQ, tag |-> tag[NewLSQ], opnum |-> k] \in S
    BY <1>2
  <2> QED BY <1>1, <2>1, LinksToSeq
<1>5. NewLinks(i, p) = (IF IsMem(i.kind) THEN b ELSE <<>>) \o a
  BY DEF NewLinks
<1> HIDE DEF a, b
<1>6. Len(a) \in Nat /\ Len(b) \in Nat /\ Len(b \o a) = Len(b) + Len(a)
  BY <1>3, <1>4
<1>7. Len(<<>> \o a) = Len(a)
  BY <1>3
<1> QED BY <1>5, <1>6, <1>7 DEF a, b

\* ruu_dispatch overwrites no links: a list it resets is empty.
LEMMA DispatchLens ==
  ASSUME CoreInv, SpeculationInv, RenameInv, NEW i \in Inst, NEW mp \in BOOLEAN,
         Dispatch(i, mp), NEW p \in Station
  PROVE  Len(odep_list'[p]) = Len(odep_list[p]) + Len(NewLinks(i, p))
<1>1. odep_list'[p] = IF p \in New(i) /\ NewOut(i, p) # NA THEN <<>>
                      ELSE NewLinks(i, p) \o odep_list[p]
  BY DispatchParts
<1>2. p \in New(i) => p \notin Live
  BY DispatchNew
<1>3. CASE p \in New(i) /\ NewOut(i, p) # NA
  <2>1. odep_list[p] = <<>>
    BY <1>2, <1>3 DEF RenameInv, ListInv
  <2>2. NewLinks(i, p) = <<>>
    BY <1>2, <1>3, NewLinksLive DEF RenameInv, VectorInv
  <2>3. odep_list'[p] = <<>>
    BY <1>1, <1>3
  <2> QED BY <2>1, <2>2, <2>3
<1>4. CASE ~(p \in New(i) /\ NewOut(i, p) # NA)
  <2> DEFINE u == NewLinks(i, p)
             v == odep_list[p]
             A == NewLinkSet(i)
             B == Good(OdepLink)
             C == A \cup B
  <2>1. v \in Seq(B)
    BY DEF CoreInv, LinksInv
  <2>2. u \in Seq(A)
    BY DispatchWindow, NewLinksOnce
  <2>3. A \subseteq C /\ B \subseteq C
    OBVIOUS
  <2>4. odep_list'[p] = u \o v
    BY <1>1, <1>4
  <2> HIDE DEF u, v, A, B, C
  <2>5. u \in Seq(C) /\ v \in Seq(C)
    BY <2>1, <2>2, <2>3, SeqMono
  <2>6. Len(u \o v) = Len(v) + Len(u)
    BY <2>5
  <2> QED BY <2>4, <2>6 DEF u, v
<1> QED BY <1>3, <1>4

LEMMA DispatchConsumers ==
  ASSUME CoreInv, SpeculationInv, RenameInv, NEW i \in Inst, NEW mp \in BOOLEAN,
         Dispatch(i, mp)
  PROVE  Consumers' = Consumers + Waiting(NewIns(i, NewRUU))
                        + (IF IsMem(i.kind) THEN Waiting(NewIns(i, NewLSQ)) ELSE 0)
<1> DEFINE x == NewIns(i, NewRUU)
           y == NewIns(i, NewLSQ)
           n(p) == Len(odep_list[p]) + Len(LinksTo(p, NewRUU, x))
           m == [p \in Station |-> [j \in 1 .. n(p) |-> 0]]
           h == odep_list'
<1>1. CvType
  BY DEF CoreInv
<1>2. x \in [Operand -> Reg \cup {NA}] /\ y \in [Operand -> Reg \cup {NA}]
  <2>1. /\ i.ins \in [Operand -> Reg \cup {NA}]
        /\ LsqIns(i) \in [Operand -> Reg \cup {NA}]
    BY InstAssumption DEF InstType, LsqIns
  <2> QED BY <2>1 DEF NewIns
<1>3. ASSUME NEW p \in Station
      PROVE  /\ Len(odep_list[p]) \in Nat /\ Len(LinksTo(p, NewRUU, x)) \in Nat
             /\ Len(LinksTo(p, NewLSQ, y)) \in Nat
             /\ Len(h[p]) = Len(odep_list[p]) + (Len(LinksTo(p, NewRUU, x))
                  + (IF IsMem(i.kind) THEN Len(LinksTo(p, NewLSQ, y)) ELSE 0))
  BY PoolTypes, NewLinksLen, DispatchLens
<1>4. Consumers' = LinkSum(Station, h)[Station]
      /\ Consumers = LinkSum(Station, odep_list)[Station] /\ Consumers \in Nat
  BY PoolTypes DEF Consumers
<1>5. Waiting(x) \in Nat /\ Waiting(y) \in Nat
  BY WaitingNat
<1> HIDE DEF x, y, h
<1>6. CASE ~IsMem(i.kind)
  <2>1. \A p \in Station : Len(odep_list[p]) \in Nat
    BY <1>3
  <2>2. \A p \in Station : Len(h[p]) = Len(odep_list[p]) + Len(LinksTo(p, NewRUU, x))
    BY <1>3, <1>6
  <2>3. LinkSum(Station, h)[Station] = LinkSum(Station, odep_list)[Station] + Waiting(x)
    BY <1>1, <1>2, <2>1, <2>2, LinksGrow
  <2> QED BY <1>4, <1>5, <1>6, <2>3 DEF x, y
<1>7. CASE IsMem(i.kind)
  <2>1. ASSUME NEW p \in Station
        PROVE  /\ Len(m[p]) = Len(odep_list[p]) + Len(LinksTo(p, NewRUU, x))
               /\ Len(m[p]) \in Nat
               /\ Len(h[p]) = Len(m[p]) + Len(LinksTo(p, NewLSQ, y))
    <3>1. /\ n(p) \in Nat /\ n(p) = Len(odep_list[p]) + Len(LinksTo(p, NewRUU, x))
          /\ Len(h[p]) = n(p) + Len(LinksTo(p, NewLSQ, y))
      <4> DEFINE u == Len(LinksTo(p, NewRUU, x))
                 v == Len(LinksTo(p, NewLSQ, y))
                 w == Len(odep_list[p])
      <4>1. u \in Nat /\ v \in Nat /\ w \in Nat /\ Len(h[p]) = w + (u + v)
        BY <1>3, <1>7
      <4>2. n(p) = w + u
        OBVIOUS
      <4> HIDE DEF u, v, w, n
      <4>3. n(p) \in Nat /\ Len(h[p]) = n(p) + v
        BY <4>1, <4>2
      <4> QED BY <4>2, <4>3 DEF u, v, w
    <3>2. m[p] = [j \in 1 .. n(p) |-> 0]
      OBVIOUS
    <3> HIDE DEF n, m
    <3>3. Len(m[p]) = n(p)
      BY <3>1, <3>2
    <3> QED BY <3>1, <3>3
  <2> HIDE DEF m, n
  <2>2. /\ \A p \in Station : Len(odep_list[p]) \in Nat
        /\ \A p \in Station : Len(m[p]) = Len(odep_list[p]) + Len(LinksTo(p, NewRUU, x))
    BY <1>3, <2>1
  <2>3. /\ \A p \in Station : Len(m[p]) \in Nat
        /\ \A p \in Station : Len(h[p]) = Len(m[p]) + Len(LinksTo(p, NewLSQ, y))
    BY <2>1
  <2>4. LinkSum(Station, m)[Station] = LinkSum(Station, odep_list)[Station] + Waiting(x)
    BY <1>1, <1>2, <2>2, LinksGrow
  <2>5. LinkSum(Station, h)[Station] = LinkSum(Station, m)[Station] + Waiting(y)
    BY <1>1, <1>2, <2>3, LinksGrow
  <2> QED BY <1>4, <1>5, <1>7, <2>4, <2>5 DEF x, y
<1> QED BY <1>6, <1>7

LEMMA DispatchQueue ==
  ASSUME CoreInv, NEW i \in Inst, NEW mp \in BOOLEAN, Dispatch(i, mp)
  PROVE  /\ Len(ready_queue') = Len(ready_queue) + Cardinality(NewQueued(i))
         /\ Cardinality(NewQueued(i)) \in Nat
<1> DEFINE Q == NewQueued(i)
<1>1. NewRUU # NewLSQ
  BY DispatchWindow
<1>2. Q \subseteq {NewRUU, NewLSQ}
  BY DEF NewQueued, New
<1>3. /\ ready_queue \in Seq(Good(ReadyNode)) /\ Len(ready_queue) \in Nat
      /\ ready_queue' = QueueBoth(i)
  BY DispatchParts DEF CoreInv, LinksInv
<1>4. /\ NewRUU \in Q => Len(QueueRUU(i)) = Len(ready_queue) + 1
      /\ NewRUU \notin Q => QueueRUU(i) = ready_queue
      /\ \E T : QueueRUU(i) \in Seq(T)
  BY <1>3, QueueLen DEF QueueRUU
<1>5. /\ NewLSQ \in Q => Len(QueueBoth(i)) = Len(QueueRUU(i)) + 1
      /\ NewLSQ \notin Q => QueueBoth(i) = QueueRUU(i)
  BY <1>4, QueueLen DEF QueueBoth
<1> HIDE DEF Q
<1>6. /\ NewRUU \in Q /\ NewLSQ \in Q => Q = {NewRUU, NewLSQ}
      /\ NewRUU \in Q /\ NewLSQ \notin Q => Q = {NewRUU}
      /\ NewRUU \notin Q /\ NewLSQ \in Q => Q = {NewLSQ}
      /\ NewRUU \notin Q /\ NewLSQ \notin Q => Q = {}
  BY <1>2
<1>7. Cardinality({NewRUU}) = 1 /\ Cardinality({NewLSQ}) = 1 /\ Cardinality({}) = 0
  BY FS_EmptySet, FS_Singleton
<1>8. Cardinality({NewRUU, NewLSQ}) = 2
  BY <1>1, CardinalityTwo
<1> DEFINE n == Len(ready_queue)
           m == Len(QueueRUU(i))
           k == Len(QueueBoth(i))
<1>9. /\ n \in Nat
      /\ NewRUU \in Q => m = n + 1
      /\ NewRUU \notin Q => m = n
      /\ NewLSQ \in Q => k = m + 1
      /\ NewLSQ \notin Q => k = m
  BY <1>3, <1>4, <1>5
<1> HIDE DEF n, m, k
<1>10. k = n + Cardinality(Q) /\ Cardinality(Q) \in Nat
  <2>1. CASE NewRUU \in Q /\ NewLSQ \in Q
    <3>1. Cardinality(Q) = 2
      BY <1>6, <1>8, <2>1
    <3> QED BY <1>9, <2>1, <3>1
  <2>2. CASE NewRUU \in Q /\ NewLSQ \notin Q
    <3>1. Cardinality(Q) = 1
      BY <1>6, <1>7, <2>2
    <3> QED BY <1>9, <2>2, <3>1
  <2>3. CASE NewRUU \notin Q /\ NewLSQ \in Q
    <3>1. Cardinality(Q) = 1
      BY <1>6, <1>7, <2>3
    <3> QED BY <1>9, <2>3, <3>1
  <2>4. CASE NewRUU \notin Q /\ NewLSQ \notin Q
    <3>1. Cardinality(Q) = 0
      BY <1>6, <1>7, <2>4
    <3> QED BY <1>9, <2>4, <3>1
  <2> QED BY <2>1, <2>2, <2>3, <2>4
<1> QED BY <1>3, <1>10 DEF Q, n, k

LEMMA DispatchPool ==
  ASSUME CoreInv, SpeculationInv, RenameInv, PoolInv, NEW i \in Inst,
         NEW mp \in BOOLEAN, Dispatch(i, mp)
  PROVE  PoolInv'
<1> DEFINE a == Waiting(NewIns(i, NewRUU))
           b == IF IsMem(i.kind) THEN Waiting(NewIns(i, NewLSQ)) ELSE 0
           c == Cardinality(NewQueued(i))
           E == Len(event_queue)
           N == Len(node)
           R == Len(ready_queue)
           F == nfree'
           P == Pooled'
           K == Consumers'
<1>1. nfree' = nfree - a - b - c
  BY DEF Dispatch, NewRUU, NewLSQ, New, NewIns, NewQueued
<1>2. Len(ready_queue') = R + c /\ c \in Nat
  BY DispatchQueue
<1>3. a \in Nat /\ b \in Nat
  BY WaitingNat
<1>4. Consumers' = Consumers + a + b
  BY DispatchConsumers
<1>5. Len(event_queue') = E /\ Len(node') = N
  BY DispatchParts
<1>6. /\ nfree \in Int /\ E \in Int /\ R \in Int /\ N \in Int /\ Consumers \in Int
  BY PoolTypes
<1>7. P = F + E + (R + c) + N /\ Pooled = nfree + E + R + N
  BY <1>2, <1>5 DEF Pooled
<1>8. Pooled + Consumers = MAX_RS_LINKS
  BY DEF PoolInv
<1>9. F = nfree - a - b - c /\ K = Consumers + a + b
  BY <1>1, <1>4
<1> HIDE DEF a, b, c, E, N, R, F, P, K
<1>10. P + K = MAX_RS_LINKS
  BY <1>2, <1>3, <1>6, <1>7, <1>8, <1>9
<1> QED BY <1>10 DEF P, K, PoolInv

-----------------------------------------------------------------------------
(* The invariant.                                                          *)

LEMMA InitPool == Init => PoolInv
<1> SUFFICES ASSUME Init PROVE PoolInv
  OBVIOUS
<1>1. /\ event_queue = <<>> /\ ready_queue = <<>> /\ node = <<>> /\ nfree = MAX_RS_LINKS
      /\ \A s \in Station : Len(odep_list[s]) = 0
  BY DEF Init
<1>2. Consumers = 0
  BY <1>1, FiniteStations, SumEmpty DEF Consumers
<1>3. MAX_RS_LINKS \in Nat
  BY SizeAssumption
<1> QED BY <1>1, <1>2, <1>3 DEF PoolInv, Pooled

LEMMA NextPool ==
  CoreInv /\ FlowInv /\ SpeculationInv /\ RenameInv /\ PoolInv /\ [Next]_vars => PoolInv'
<1> SUFFICES ASSUME CoreInv, FlowInv, SpeculationInv, RenameInv, PoolInv, [Next]_vars
             PROVE  PoolInv'
  OBVIOUS
<1>1. CASE \/ Commit \/ CommitEnd \/ RecoverEnd \/ BroadcastEnd \/ WritebackEnd
           \/ IssueEnd \/ DispatchEnd \/ UNCHANGED vars
  BY <1>1, QuietPool
<1>2. CASE \/ SkipEvent \/ Complete \/ CompleteMispredicted \/ Refresh \/ RefreshEnd
           \/ IssueSkip
           \/ \E s \in Station : IssueStore(s) \/ IssueToUnit(s)
                                   \/ IssueUnitless(s) \/ Requeue(s)
  BY <1>2, MovePool
<1>3. CASE Squash
  BY <1>3, SquashPool
<1>4. CASE Broadcast
  BY <1>4, BroadcastPool
<1>5. CASE DispatchInst
  BY <1>5, DispatchPool DEF DispatchInst
<1> QED BY <1>1, <1>2, <1>3, <1>4, <1>5 DEF Next

\* The RS_link pool leaks nothing: whatever the machine, the program and its
\* mispredictions, the free list and the links on the event queue, the ready
\* list and the consumer lists add up to MAX_RS_LINKS (RSLINK_NEW, RSLINK_FREE
\* and RSLINK_FREE_LIST in ruu_link_idep, ruu_recover, ruu_writeback,
\* eventq_next_event and ruu_issue).
THEOREM LinksAreConserved == Spec => []LinkConservation
<1>1. Init => CoreInv /\ FlowInv /\ SpeculationInv /\ RenameInv /\ PoolInv
  BY InitCore, InitFlow, InitSpeculation, InitRename, InitPool
<1>2. (CoreInv /\ FlowInv /\ SpeculationInv /\ RenameInv /\ PoolInv) /\ [Next]_vars
        => (CoreInv /\ FlowInv /\ SpeculationInv /\ RenameInv /\ PoolInv)'
  BY NextCore, NextFlow, NextSpeculation, NextRename, NextPool
<1>3. PoolInv => LinkConservation
  <2> SUFFICES ASSUME PoolInv PROVE LinkConservation
    OBVIOUS
  <2>1. LET consumers(s) == Len(odep_list[s])
        IN  MapThenSumSet(consumers, Station) = Consumers
    BY FoldIsSum DEF Consumers
  <2> QED BY <2>1 DEF LinkConservation, PoolInv, Pooled
<1> QED BY <1>1, <1>2, <1>3, PTL DEF Spec
=============================================================================
