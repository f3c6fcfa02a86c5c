-------------------------- MODULE PartitionReducer --------------------------
(***************************************************************************)
(* The SC partition reducer (sc/src/controllers/partitions/reducer.rs):    *)
(* given the SPUs whose status changed, it moves partition leadership away *)
(* from SPUs that went offline and back to SPUs that came online, and it   *)
(* marks partitions whose metadata is being deleted.  It reads the SPU and *)
(* partition stores and returns WS actions; it writes nothing itself.      *)
(*                                                                         *)
(* Around it the model keeps what the reducer reads and what consumes its  *)
(* output: SPUs going offline and online (bounded by MaxFlips), the WS     *)
(* queue that applies UpdateSpec/UpdateStatus to the partition store, the  *)
(* leader SPU setting the status Online when it serves, and deletion.     *)
(* AsyncApply says whether a batch may start while the WS actions of an    *)
(* earlier one are not yet applied to the store.                           *)
(***************************************************************************)
EXTENDS Integers, Sequences, FiniteSets, SequencesExt

CONSTANTS
    Spus,         \* SPU ids
    NumParts,     \* partitions are 1..NumParts
    Replicas,     \* partition -> set of SPUs holding a replica (spec.replicas)
    InitLeader,   \* partition -> SPU that leads it initially
    Leo,          \* partition -> SPU -> log end offset of that replica
    MaxFlips,     \* bound on SPU status changes
    AsyncApply    \* BOOLEAN: WS actions may still be pending at the next batch

Parts == 1..NumParts

VARIABLES
    online,       \* SPU store: SPU -> is_online()
    spuChanged,   \* SPUs changed since the last election batch
    partChanged,  \* partitions changed since the last update batch
    leader,       \* partition store: spec.leader
    status,       \* partition store: [leader, resolution, deleting]
    deleteTs,     \* metadata ctx: partition is_being_deleted()
    rpc,          \* "idle" | "off" | "on": where update_election_from_spu_changes is
    offQ, onQ,    \* SPUs of the batch still to be processed by each loop
    actions,      \* Vec<PartitionWSAction> of the running batch
    ws,           \* WS actions returned and not yet applied
    flips         \* SPU status changes so far

vars == <<online, spuChanged, partChanged, leader, status, deleteTs, rpc,
          offQ, onQ, actions, ws, flips>>

Resolutions == {"Online", "LeaderOffline"}
Status == [leader : Spus, resolution : Resolutions, deleting : BOOLEAN]
SpecAction == [kind : {"spec"}, p : Parts, leader : Spus]
StatusAction == [kind : {"status"}, p : Parts, st : Status]
NoAction == [kind |-> "none"]
NoSpu == 0

IsOffline(st) == st.resolution # "Online"

\* status.replica_iter(): the follower replicas, i.e. all but status.leader.
Followers(p) == Replicas[p] \ {status[p].leader}

\* SimplePolicy::potential_leader_score (lines 236-247).  lag is the signed
\* difference of two leos; a negative lag passes `lag < 4` and `lag as u16`
\* wraps it.  The score is -1 for NotSuitable.
NotSuitable == -1
PotentialLeaderScore(p, s) ==
    LET lag == Leo[p][status[p].leader] - Leo[p][s]
    IN IF lag < 4 THEN lag % 65536 ELSE NotSuitable

IsSuitable(p, s) == PotentialLeaderScore(p, s) # NotSuitable

(* PartitionStatus::candidate_leader is not in this repository.  It is     *)
(* taken to return some follower that is online in the snapshot and that   *)
(* the policy scores suitable, and None when there is none; which one it   *)
(* prefers is left open.                                                   *)
Candidates(p, snap) == {s \in Followers(p) : snap[s] /\ IsSuitable(p, s)}

\* The actions of one loop over partition_store.values(), in partition order.
InOrder(f) == SelectSeq([i \in Parts |-> f[i]], LAMBDA a : a # NoAction)

Init ==
    /\ online = [s \in Spus |-> TRUE]
    /\ spuChanged = {}
    /\ partChanged = {}
    /\ leader = InitLeader
    /\ status = [p \in Parts |-> [leader |-> InitLeader[p],
                                  resolution |-> "Online", deleting |-> FALSE]]
    /\ deleteTs = [p \in Parts |-> FALSE]
    /\ rpc = "idle"
    /\ offQ = {} /\ onQ = {}
    /\ actions = <<>>
    /\ ws = <<>>
    /\ flips = 0

(***************************************************************************)
(* The reducer                                                             *)
(***************************************************************************)

\* update_election_from_spu_changes (lines 108-116): the changed SpuAdminMd
\* values are taken as they are now and split into online and offline.
StartSpuBatch ==
    /\ rpc = "idle"
    /\ spuChanged # {}
    /\ ~AsyncApply => ws = <<>>
    /\ offQ' = {s \in spuChanged : ~online[s]}
    /\ onQ' = {s \in spuChanged : online[s]}
    /\ spuChanged' = {}
    /\ rpc' = "off"
    /\ UNCHANGED <<online, partChanged, leader, status, deleteTs, actions, ws, flips>>

(* Mutant: the candidate is used without matching on None, so a partition *)
(* with no candidate gets an UpdateSpec to no SPU.                          *)
ElectionSpuOffUnwrap(s) ==
    /\ rpc = "off"
    /\ s \in offQ
    /\ \E pick \in [Parts -> Spus \cup {NoSpu}] :
         /\ \A p \in Parts :
              pick[p] \in IF Candidates(p, online) = {} THEN {NoSpu}
                          ELSE Candidates(p, online)
         /\ actions' = actions \o InOrder([p \in Parts |->
              IF leader[p] # s THEN NoAction
              ELSE [kind |-> "spec", p |-> p, leader |-> pick[p]]])
    /\ offQ' = offQ \ {s}
    /\ UNCHANGED <<online, spuChanged, partChanged, leader, status, deleteTs,
                   rpc, onQ, ws, flips>>

(* Mutant: without a candidate nothing is pushed, so the partition is not *)
(* marked LeaderOffline.                                                   *)
ElectionSpuOffNoResign(s) ==
    /\ rpc = "off"
    /\ s \in offQ
    /\ \E pick \in [Parts -> Spus \cup {NoSpu}] :
         /\ \A p \in Parts :
              pick[p] \in IF Candidates(p, online) = {} THEN {NoSpu}
                          ELSE Candidates(p, online)
         /\ actions' = actions \o InOrder([p \in Parts |->
              IF leader[p] # s \/ pick[p] = NoSpu THEN NoAction
              ELSE [kind |-> "spec", p |-> p, leader |-> pick[p]]])
    /\ offQ' = offQ \ {s}
    /\ UNCHANGED <<online, spuChanged, partChanged, leader, status, deleteTs,
                   rpc, onQ, ws, flips>>

\* force_election_spu_off (lines 133-182): online_status() is snapshotted,
\* then every partition led by the offline SPU gets an UpdateSpec to a
\* candidate, or an UpdateStatus with resolution LeaderOffline.
ElectionSpuOff(s) ==
    /\ rpc = "off"
    /\ s \in offQ
    /\ \E pick \in [Parts -> Spus \cup {NoSpu}] :
         /\ \A p \in Parts :
              pick[p] \in IF Candidates(p, online) = {} THEN {NoSpu}
                          ELSE Candidates(p, online)
         /\ actions' = actions \o InOrder([p \in Parts |->
              IF leader[p] # s THEN NoAction
              ELSE IF pick[p] # NoSpu
                   THEN [kind |-> "spec", p |-> p, leader |-> pick[p]]
                   ELSE [kind |-> "status", p |-> p,
                         st |-> [status[p] EXCEPT !.resolution = "LeaderOffline"]]])
    /\ offQ' = offQ \ {s}
    /\ UNCHANGED <<online, spuChanged, partChanged, leader, status, deleteTs,
                   rpc, onQ, ws, flips>>

\* Line 125: the online loop runs once every offline SPU is done.
OnlineLoop ==
    /\ rpc = "off"
    /\ offQ = {}
    /\ rpc' = "on"
    /\ UNCHANGED <<online, spuChanged, partChanged, leader, status, deleteTs,
                   offQ, onQ, actions, ws, flips>>

\* force_election_spu_on (lines 186-224): an offline partition led by another
\* SPU gets an UpdateSpec to the SPU that came online if it is a suitable
\* follower.  Whether it is still online is not looked at.
ElectionSpuOn(s) ==
    /\ rpc = "on"
    /\ s \in onQ
    /\ actions' = actions \o InOrder([p \in Parts |->
         IF /\ IsOffline(status[p])
            /\ leader[p] # s
            /\ s \in Followers(p)
            /\ IsSuitable(p, s)
         THEN [kind |-> "spec", p |-> p, leader |-> s]
         ELSE NoAction])
    /\ onQ' = onQ \ {s}
    /\ UNCHANGED <<online, spuChanged, partChanged, leader, status, deleteTs,
                   rpc, offQ, ws, flips>>

\* Line 128: the actions are returned and handed to the WS.
FinishSpuBatch ==
    /\ rpc = "on"
    /\ onQ = {}
    /\ ws' = ws \o actions
    /\ actions' = <<>>
    /\ rpc' = "idle"
    /\ UNCHANGED <<online, spuChanged, partChanged, leader, status, deleteTs,
                   offQ, onQ, flips>>

\* process_partition_update (lines 83-102): a changed partition whose
\* metadata is being deleted and whose status is not yet marked gets an
\* UpdateStatus with set_to_delete().
ProcessPartitionUpdate ==
    /\ rpc = "idle"
    /\ partChanged # {}
    /\ ~AsyncApply => ws = <<>>
    /\ ws' = ws \o InOrder([p \in Parts |->
         IF p \in partChanged /\ deleteTs[p] /\ ~status[p].deleting
         THEN [kind |-> "status", p |-> p,
               st |-> [status[p] EXCEPT !.deleting = TRUE]]
         ELSE NoAction])
    /\ partChanged' = {}
    /\ UNCHANGED <<online, spuChanged, leader, status, deleteTs, rpc, offQ, onQ,
                   actions, flips>>

(***************************************************************************)
(* What the reducer reads and what applies its output                      *)
(***************************************************************************)

\* The WS applies the oldest pending action to the partition store; the
\* store change is an update of that partition.
WsApply ==
    /\ ws # <<>>
    /\ LET a == Head(ws) IN
         /\ leader' = IF a.kind = "spec" THEN [leader EXCEPT ![a.p] = a.leader]
                      ELSE leader
         /\ status' = IF a.kind = "status" THEN [status EXCEPT ![a.p] = a.st]
                      ELSE status
         /\ partChanged' = partChanged \cup {a.p}
    /\ ws' = Tail(ws)
    /\ UNCHANGED <<online, spuChanged, deleteTs, rpc, offQ, onQ, actions, flips>>

\* An SPU goes offline or comes online; the SPU store changes and the SPU
\* is among the changes of the next batch.
SpuFlip(s) ==
    /\ flips < MaxFlips
    /\ online' = [online EXCEPT ![s] = ~online[s]]
    /\ spuChanged' = spuChanged \cup {s}
    /\ flips' = flips + 1
    /\ UNCHANGED <<partChanged, leader, status, deleteTs, rpc, offQ, onQ,
                   actions, ws>>

\* The SPU that spec.leader names, once online, serves the partition and
\* sets its status: itself as leader, resolution Online.
LeaderServes(p) ==
    /\ online[leader[p]]
    /\ status[p].leader # leader[p] \/ status[p].resolution # "Online"
    /\ status' = [status EXCEPT ![p].leader = leader[p],
                                ![p].resolution = "Online"]
    /\ partChanged' = partChanged \cup {p}
    /\ UNCHANGED <<online, spuChanged, leader, deleteTs, rpc, offQ, onQ,
                   actions, ws, flips>>

\* The partition's metadata gets a deletion timestamp.
DeletePartition(p) ==
    /\ ~deleteTs[p]
    /\ deleteTs' = [deleteTs EXCEPT ![p] = TRUE]
    /\ partChanged' = partChanged \cup {p}
    /\ UNCHANGED <<online, spuChanged, leader, status, rpc, offQ, onQ,
                   actions, ws, flips>>

Reducer ==
    \/ StartSpuBatch
    \/ \E s \in Spus : ElectionSpuOff(s) \/ ElectionSpuOn(s)
    \/ OnlineLoop
    \/ FinishSpuBatch
    \/ ProcessPartitionUpdate

Next ==
    \/ Reducer
    \/ WsApply
    \/ \E s \in Spus : SpuFlip(s)
    \/ \E p \in Parts : LeaderServes(p) \/ DeletePartition(p)

Spec == Init /\ [][Next]_vars

(* The controller loop calls the reducer for every batch of changes, the   *)
(* WS keeps applying what it was handed, and a leader that is up keeps     *)
(* serving; SPU changes and deletions are the environment's and unfair.    *)
FairSpec ==
    /\ Spec
    /\ WF_vars(Reducer)
    /\ WF_vars(WsApply)
    /\ \A p \in Parts : WF_vars(LeaderServes(p))

(***************************************************************************)
(* Properties                                                              *)
(***************************************************************************)

TypeOK ==
    /\ online \in [Spus -> BOOLEAN]
    /\ spuChanged \subseteq Spus /\ partChanged \subseteq Parts
    /\ leader \in [Parts -> Spus]
    /\ status \in [Parts -> Status]
    /\ rpc \in {"idle", "off", "on"}
    /\ offQ \subseteq Spus /\ onQ \subseteq Spus
    /\ \A a \in Range(actions) \cup Range(ws) : a \in SpecAction \cup StatusAction
    /\ flips \in 0..MaxFlips

\* A partition whose leader SPU is offline while its status still says
\* Online has lost its leader without anyone having acted on it.
LeaderLost(p) == ~online[leader[p]] /\ status[p].resolution = "Online"

(* Every partition whose leader goes offline is eventually led by an       *)
(* online SPU or marked LeaderOffline: force_election_spu_off, run for the *)
(* offline SPU on the partition store it reads, re-elects or gives up,     *)
(* also when the leader it picked goes away before its action lands.       *)
LeaderLossHandled == \A p \in Parts : LeaderLost(p) ~> ~LeaderLost(p)


====
